--------------------------- MODULE MCIdempotency ---------------------------
(* A small instance of Idempotency. *)
EXTENDS Idempotency, TLC
=============================================================================
