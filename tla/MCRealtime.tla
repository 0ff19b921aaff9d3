----------------------------- MODULE MCRealtime -----------------------------
(* A small instance of Realtime. *)
EXTENDS Realtime
=============================================================================
