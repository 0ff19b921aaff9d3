-------------------------- MODULE MCAuthSession --------------------------
(* A small instance of AuthSession. *)
EXTENDS AuthSession, TLC

Symmetry == Permutations(Requests) \cup Permutations(Devices)
              \cup Permutations(Rows) \cup Permutations(Sessions)
=============================================================================
