-------------------------- MODULE MCVerification --------------------------
(* A small instance of Verification. *)
EXTENDS Verification, TLC

Symmetry == Permutations(Requests) \cup Permutations(Records) \cup Permutations(Contacts)
=============================================================================
