------------------------------ MODULE MCAccess ------------------------------
(* A small instance of Access. *)
EXTENDS Access, TLC

\* The admin of the seed has every permission but those of the module System, which
\* are all that this instance has.
MCSeeded == [superadmin |-> Perms, admin |-> {}]

\* The calls of assignPermissionsToRole are alike.
Symmetry == Permutations(Assigns)
=============================================================================
