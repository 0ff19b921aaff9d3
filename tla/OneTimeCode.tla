---------------------------- MODULE OneTimeCode ----------------------------
(***************************************************************************)
(* What a customer is promised of the codes and links that are sent: each  *)
(* is sent to one contact, takes effect once, bears so many wrong guesses, *)
(* and a contact counts as verified because a code sent to it was used.    *)
(* Nothing is promised of a code once it was disturbed, nor of the contact *)
(* once it was edited without a code.                                      *)
(***************************************************************************)
EXTENDS Naturals

CONSTANTS Records, Contacts, MaxAttempts, NoContact

VARIABLES
  value, verified,  \* the customer's contact, and whether it counts as verified
  target,           \* target[r]: where code r was sent, NoContact before it is
  spent, guesses,   \* how often r took effect, and was guessed wrong
  disturbed,        \* disturbed[r]: nothing is promised of r any more
  edited            \* nothing is promised of the contact any more

vars == <<value, verified, target, spent, guesses, disturbed, edited>>

Init ==
  /\ value \in Contacts \cup {NoContact} /\ verified = FALSE
  /\ target = [r \in Records |-> NoContact]
  /\ spent = [r \in Records |-> 0] /\ guesses = [r \in Records |-> 0]
  /\ disturbed = [r \in Records |-> FALSE] /\ edited = FALSE

Sent(r) == target[r] # NoContact

Send(r, c) ==
  /\ ~Sent(r)
  /\ target' = [target EXCEPT ![r] = c]
  /\ UNCHANGED <<value, verified, spent, guesses, disturbed, edited>>

GuessWrong(r) ==
  /\ Sent(r)
  /\ guesses[r] < MaxAttempts \/ disturbed[r]
  /\ guesses' = [guesses EXCEPT ![r] = IF @ > MaxAttempts THEN @ ELSE @ + 1]
  /\ UNCHANGED <<value, verified, target, spent, disturbed, edited>>

\* The code is for the contact it was sent to, or for a new password.
Use(r) ==
  /\ Sent(r)
  /\ spent[r] = 0 \/ disturbed[r]
  /\ spent' = [spent EXCEPT ![r] = IF @ = 2 THEN 2 ELSE @ + 1]
  /\ \/ value' = target[r] /\ verified' = TRUE
     \/ UNCHANGED <<value, verified>>
  /\ UNCHANGED <<target, guesses, disturbed, edited>>

Disturb(r) ==
  /\ disturbed' = [disturbed EXCEPT ![r] = TRUE]
  /\ UNCHANGED <<value, verified, target, spent, guesses, edited>>

Edit(c) ==
  /\ value' = c /\ edited' = TRUE
  /\ UNCHANGED <<verified, target, spent, guesses, disturbed>>

Next ==
  \/ \E r \in Records : \/ \E c \in Contacts : Send(r, c)
                        \/ GuessWrong(r) \/ Use(r) \/ Disturb(r)
  \/ \E c \in Contacts : Edit(c)

Spec == Init /\ [][Next]_vars
=============================================================================
