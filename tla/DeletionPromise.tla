-------------------------- MODULE DeletionPromise --------------------------
(***************************************************************************)
(* What a customer who asks for the deletion of the account is promised:   *)
(* the days of grace since the first request, whatever fails, and that the *)
(* account is still there until the last day that was announced.  The      *)
(* second promise is given up when it has lapsed.                          *)
(***************************************************************************)
EXTENDS Naturals

CONSTANTS Requests, Grace

VARIABLES
  day,
  asked,      \* the day of the first request, 0 if none
  told,       \* told[p]: the day announced to request p, 0 if none
  deletedOn,  \* the day the account was deleted for this reason, 0 if not yet
  lapsed      \* nothing is promised any more about the day announced

vars == <<day, asked, told, deletedOn, lapsed>>

Init ==
  /\ day = 1
  /\ asked = 0 /\ deletedOn = 0
  /\ told = [p \in Requests |-> 0]
  /\ lapsed = FALSE

Ask ==
  /\ asked = 0
  /\ asked' = day
  /\ UNCHANGED <<day, told, deletedOn, lapsed>>

\* An account that is deleted is not announced to be deleted later.
Announce(p) ==
  /\ asked # 0
  /\ told[p] = 0
  /\ deletedOn = 0 \/ lapsed
  /\ told' = [told EXCEPT ![p] = day + Grace]
  /\ UNCHANGED <<day, asked, deletedOn, lapsed>>

Delete ==
  /\ deletedOn = 0
  /\ asked # 0 /\ day >= asked + Grace
  /\ lapsed \/ \A p \in Requests : told[p] <= day
  /\ deletedOn' = day
  /\ UNCHANGED <<day, asked, told, lapsed>>

Lapse == lapsed' = TRUE /\ UNCHANGED <<day, asked, told, deletedOn>>
Pass  == day' = day + 1 /\ UNCHANGED <<asked, told, deletedOn, lapsed>>

Next == Ask \/ (\E p \in Requests : Announce(p)) \/ Delete \/ Lapse \/ Pass

Spec == Init /\ [][Next]_vars
=============================================================================
