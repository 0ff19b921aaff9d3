------------------------------ MODULE MCNotify ------------------------------
(* A small instance of Notify. *)
EXTENDS Notify
=============================================================================
