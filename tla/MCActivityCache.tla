-------------------------- MODULE MCActivityCache --------------------------
(* A small instance of ActivityCache. *)
EXTENDS ActivityCache
=============================================================================
