---------------------------- MODULE Verification ----------------------------
(***************************************************************************)
(* The codes and links of one customer: VerificationTokenService, the      *)
(* flows of AuthService that create and consume them (apps/api/src/        *)
(* modules/auth), and the two writers of the same columns that need no     *)
(* code.  No statement runs in a transaction, so each is an action.        *)
(*                                                                         *)
(* Every statement on verification filters by purpose, and the e-mail and  *)
(* the phone flow write different columns: a behaviour is about one        *)
(* purpose, chosen at the start, and value and verified are the columns    *)
(* of its contact.  A record is named by its id; its link token and its    *)
(* numeric code are its own, so a client that presents a secret presents   *)
(* a record, or NoRecord for a wrong guess.  Purposes phone_login and      *)
(* phone_registration, one never created and the other never consumed,     *)
(* are left out.                                                           *)
(***************************************************************************)
EXTENDS Naturals

CONSTANTS
  Requests,     \* requests that can be in flight at once
  Records,      \* primary keys of verification
  Contacts,     \* e-mail addresses, or phone numbers
  MaxAttempts,  \* OTP_MAX_ATTEMPTS
  Faults,       \* what the environment shows, out of FaultKinds
  NoRecord, NoContact

FaultKinds == {"abandon", "edit"}
Purposes   == {"email_verification", "phone_verification", "password_reset"}

ASSUME FaultsAssumption == Faults \subseteq FaultKinds
ASSUME MaxAttemptsAssumption == MaxAttempts \in Nat \ {0}
ASSUME NullsAssumption == NoRecord \notin Records /\ NoContact \notin Contacts

VARIABLES
  purpose,                  \* of every record of the behaviour
  value, verified,          \* columns of customers: email or phone, and ...Verified
  state, target, attempts,  \* records: "open" until consumedAt or expiresAt; columns
  pc, contact,              \* requests: next statement, contact to be verified
  held, seen,               \* the record a request has read, the attempts it read
  spent,    \* history: how often a record took effect, up to 2
  guesses,  \* history: wrong guesses made on a record, up to MaxAttempts + 1
  raced,    \* history: confirmations of a record overlapped, or one was cut short
  crossed,  \* history: another creation was under way at the last clearing
  edited    \* history: the contact was edited without a code

customerVars == <<purpose, value, verified>>
recordVars   == <<state, target, attempts>>
localVars    == <<contact, held, seen>>
historyVars  == <<spent, guesses, raced, crossed, edited>>
vars == <<customerVars, recordVars, pc, localVars, historyVars>>

-----------------------------------------------------------------------------

Init ==
  /\ purpose \in Purposes
  /\ value \in Contacts \cup {NoContact}
  /\ purpose # "phone_verification" => value # NoContact
  /\ verified = FALSE
  /\ state = [r \in Records |-> "unused"]
  /\ target = [r \in Records |-> NoContact]
  /\ attempts = [r \in Records |-> 0]
  /\ pc = [q \in Requests |-> "idle"]
  /\ contact = [q \in Requests |-> NoContact]
  /\ held = [q \in Requests |-> NoRecord]
  /\ seen = [q \in Requests |-> 0]
  /\ spent = [r \in Records |-> 0] /\ guesses = [r \in Records |-> 0]
  /\ raced = [r \in Records |-> FALSE] /\ crossed = FALSE /\ edited = FALSE

Stored   == {r \in Records : state[r] \in {"open", "expired", "consumed"}}
Creating == {q \in Requests : pc[q] \in {"clear", "insert"}}

Goto(q, l) == pc' = [pc EXCEPT ![q] = l]

\* The request is answered: its locals are gone.
Finish(q) ==
  /\ Goto(q, "idle")
  /\ contact' = [contact EXCEPT ![q] = NoContact]
  /\ held' = [held EXCEPT ![q] = NoRecord]
  /\ seen' = [seen EXCEPT ![q] = 0]

-----------------------------------------------------------------------------
(* Creation.                                                               *)

\* register and resendEmailVerification, requestPhoneVerification (any number),
\* requestPasswordReset and its variant by SMS: what each reads before it creates
\* a code.  Only the reset by e-mail needs a verified contact.
Ask(q, c) ==
  /\ pc[q] = "idle"
  /\ purpose # "phone_verification" => c = value
  /\ purpose = "email_verification" => ~verified
  /\ Goto(q, "clear")
  /\ contact' = [contact EXCEPT ![q] = c]
  /\ UNCHANGED <<customerVars, recordVars, held, seen, historyVars>>

\* Mutation: only records that can no longer be used are cleared.
ClearUnusable(q) ==
  /\ pc[q] = "clear"
  /\ state' = [r \in Records |-> IF r \in Stored /\ state[r] # "open" THEN "gone" ELSE state[r]]
  /\ crossed' = (Creating # {q})
  /\ Goto(q, "insert")
  /\ UNCHANGED <<customerVars, target, attempts, localVars, spent, guesses, raced, edited>>

\* clearExisting deletes every record of the purpose, consumed ones included.
Clear(q) ==
  /\ pc[q] = "clear"
  /\ state' = [r \in Records |-> IF r \in Stored THEN "gone" ELSE state[r]]
  /\ attempts' = [r \in Records |-> IF r \in Stored THEN 0 ELSE attempts[r]]
  /\ crossed' = (Creating # {q})
  /\ Goto(q, "insert")
  /\ UNCHANGED <<customerVars, target, localVars, spent, guesses, raced, edited>>

\* createVerification, and the message that carries the code.
Insert(q, r) ==
  /\ pc[q] = "insert"
  /\ state[r] = "unused"
  /\ state' = [state EXCEPT ![r] = "open"]
  /\ target' = [target EXCEPT ![r] = contact[q]]
  /\ Finish(q)
  /\ UNCHANGED <<customerVars, attempts, historyVars>>

-----------------------------------------------------------------------------
(* Confirmation.                                                           *)

\* assertRecord.
Valid(r) == state[r] = "open" /\ attempts[r] < MaxAttempts

\* A confirmation goes on with the record r as it has read it.
Hold(q, r, l) ==
  /\ Goto(q, l)
  /\ held' = [held EXCEPT ![q] = r]
  /\ seen' = [seen EXCEPT ![q] = IF l = "miss" THEN attempts[r] ELSE 0]
  /\ raced' = [raced EXCEPT ![r] = @ \/ \E d \in Requests : held[d] = r]
  /\ UNCHANGED <<customerVars, recordVars, contact, spent, guesses, crossed, edited>>

\* Where the flows go with a record that was accepted.
Accept(q, r) == Hold(q, r, IF purpose = "email_verification" THEN "lookup" ELSE "apply")

\* consumeByToken: the record with this token's hash.
ConsumeByToken(q, r) ==
  /\ pc[q] = "idle"
  /\ purpose # "phone_verification"
  /\ Valid(r)
  /\ Accept(q, r)

\* Mutation: the attempts are not compared with their maximum.
ConsumeUnlimited(q, g) ==
  /\ pc[q] = "idle"
  /\ \E r \in Records : /\ state[r] = "open"
                        /\ IF g = r THEN Accept(q, r) ELSE Hold(q, r, "miss")

\* consumeByOtp: any one of the customer's records of the purpose (LIMIT 1), and
\* then the comparison with the code g that was presented.
ConsumeByOtp(q, g) ==
  /\ pc[q] = "idle"
  /\ \E r \in Stored : /\ Valid(r)
                       /\ IF g = r THEN Accept(q, r) ELSE Hold(q, r, "miss")

\* Mutation: the attempts that were read are written back as they were.
MissUncounted(q) ==
  /\ pc[q] = "miss"
  /\ attempts' = [attempts EXCEPT ![held[q]] = seen[q]]
  /\ guesses' = [guesses EXCEPT ![held[q]] = IF @ > MaxAttempts THEN @ ELSE @ + 1]
  /\ Finish(q)
  /\ UNCHANGED <<customerVars, state, target, spent, raced, crossed, edited>>

\* incrementAttempts writes one more than was read.
Miss(q) ==
  LET r == held[q]
  IN /\ pc[q] = "miss"
     /\ attempts' = IF r \in Stored THEN [attempts EXCEPT ![r] = seen[q] + 1] ELSE attempts
     /\ guesses' = [guesses EXCEPT ![r] = IF @ > MaxAttempts THEN @ ELSE @ + 1]
     /\ Finish(q)
     /\ UNCHANGED <<customerVars, state, target, spent, raced, crossed, edited>>

\* confirmEmailVerification reads the customer: an address that is verified by now
\* is not written again, and one that belongs to somebody else is refused.
Lookup(q) ==
  /\ pc[q] = "lookup"
  /\ \/ /\ Goto(q, IF value = target[held[q]] /\ verified THEN "mark" ELSE "apply")
        /\ UNCHANGED localVars
     \/ Finish(q)
  /\ UNCHANGED <<customerVars, recordVars, historyVars>>

\* Mutation: the contact the customer has by now is written as verified.
ApplyCurrent(q) ==
  /\ pc[q] = "apply"
  /\ IF purpose = "password_reset" \/ value = NoContact
     THEN UNCHANGED <<value, verified>>
     ELSE value' = value /\ verified' = TRUE
  /\ spent' = [spent EXCEPT ![held[q]] = IF @ = 2 THEN 2 ELSE @ + 1]
  /\ Goto(q, "mark")
  /\ UNCHANGED <<purpose, recordVars, localVars, guesses, raced, crossed, edited>>

\* The effect, whatever happened to the record meanwhile: its target is written as
\* verified, or (updatePasswordForUser) the new password.
Apply(q) ==
  /\ pc[q] = "apply"
  /\ IF purpose = "password_reset"
     THEN UNCHANGED <<value, verified>>
     ELSE value' = target[held[q]] /\ verified' = TRUE
  /\ spent' = [spent EXCEPT ![held[q]] = IF @ = 2 THEN 2 ELSE @ + 1]
  /\ Goto(q, "mark")
  /\ UNCHANGED <<purpose, recordVars, localVars, guesses, raced, crossed, edited>>

\* Mutation: consumedAt is not written.
MarkNothing(q) ==
  /\ pc[q] = "mark"
  /\ Finish(q)
  /\ UNCHANGED <<customerVars, recordVars, historyVars>>

\* markConsumed.
Mark(q) ==
  /\ pc[q] = "mark"
  /\ state' = [r \in Records |-> IF r = held[q] /\ r \in Stored THEN "consumed" ELSE state[r]]
  /\ Finish(q)
  /\ UNCHANGED <<customerVars, target, attempts, historyVars>>

-----------------------------------------------------------------------------
(* The environment.                                                        *)

Expire(r) ==
  /\ state[r] = "open"
  /\ state' = [state EXCEPT ![r] = "expired"]
  /\ UNCHANGED <<customerVars, target, attempts, pc, localVars, historyVars>>

\* UserService.updateProfile writes the address, CustomersService.update the
\* number, and neither touches what says that it is verified.
Edit(c) ==
  /\ "edit" \in Faults
  /\ value' = c
  /\ edited' = TRUE
  /\ UNCHANGED <<purpose, verified, recordVars, pc, localVars,
                 spent, guesses, raced, crossed>>

\* A statement fails (a unique index, a lost connection) or the server stops.
Abandon(q) ==
  /\ "abandon" \in Faults
  /\ pc[q] # "idle"
  /\ raced' = IF pc[q] \in {"miss", "mark"} THEN [raced EXCEPT ![held[q]] = TRUE] ELSE raced
  /\ Finish(q)
  /\ UNCHANGED <<customerVars, recordVars, spent, guesses, crossed, edited>>

-----------------------------------------------------------------------------

Create(q) ==
  \/ \E c \in Contacts : Ask(q, c)
  \/ Clear(q)
  \/ \E r \in Records : Insert(q, r)

Confirm(q) ==
  \/ \E r \in Records : ConsumeByToken(q, r)
  \/ \E g \in Records \cup {NoRecord} : ConsumeByOtp(q, g)
  \/ Miss(q)
  \/ Lookup(q)
  \/ Apply(q)
  \/ Mark(q)

Next ==
  \/ \E q \in Requests : Create(q) \/ Confirm(q) \/ Abandon(q)
  \/ \E r \in Records : Expire(r)
  \/ \E c \in Contacts : Edit(c)

Spec == Init /\ [][Next]_vars

-----------------------------------------------------------------------------

\* Type correctness: attempts are never counted past their maximum, whatever
\* confirmations of one record overlap.
TypeOK ==
  /\ purpose \in Purposes /\ value \in Contacts \cup {NoContact}
  /\ verified \in BOOLEAN /\ edited \in BOOLEAN /\ crossed \in BOOLEAN
  /\ state \in [Records -> {"unused", "open", "expired", "consumed", "gone"}]
  /\ target \in [Records -> Contacts \cup {NoContact}]
  /\ attempts \in [Records -> 0..MaxAttempts]
  /\ pc \in [Requests -> {"idle", "clear", "insert", "miss", "lookup", "apply", "mark"}]
  /\ contact \in [Requests -> Contacts \cup {NoContact}]
  /\ held \in [Requests -> Records \cup {NoRecord}]
  /\ seen \in [Requests -> 0..(MaxAttempts - 1)]
  /\ spent \in [Records -> 0..2]
  /\ guesses \in [Records -> 0..(MaxAttempts + 1)]
  /\ raced \in [Records -> BOOLEAN]

\* "This verification token has already been used": a code or a link takes effect
\* once.  The code does not keep this; see UsedOnceUnlessRaced.
UsedOnce == \A r \in Records : spent[r] <= 1

\* ... it does when no two confirmations of the record overlapped and none was cut
\* short between its effect and markConsumed, also when the record expired or was
\* cleared for a newer one meanwhile.
UsedOnceUnlessRaced == \A r \in Records : ~raced[r] => spent[r] <= 1

\* "Maximum verification attempts exceeded": no more wrong guesses than
\* maxAttempts, under the same condition (two increments can be lost in one).
GuessesBoundedUnlessRaced == \A r \in Records : ~raced[r] => guesses[r] <= MaxAttempts

\* There is one record, the one sent last, unless another creation was under way
\* when the earlier ones were cleared: so consumeByOtp, which takes any one,
\* compares with the code the customer was sent last.
OneRecordUnlessCrossed == ~crossed => \A r, s \in Stored : r = s

\* A contact counts as verified only if a code sent to it has taken effect.  The
\* code does not keep this: see VerifiedUnlessEdited.
VerifiedIsProven == verified => \E r \in Records : spent[r] > 0 /\ target[r] = value

\* ... it does while the contact was not edited without a code, however requests
\* for several contacts, confirmations and expiries interleave.
VerifiedUnlessEdited == ~edited => VerifiedIsProven

\* Seen from the customer's mailbox a record is a code of OneTimeCode: sent once, to
\* one contact, tried and used within its limits, and the only way to be verified.
Promise == INSTANCE OneTimeCode WITH disturbed <- raced
CodePromise == Promise!Spec
=============================================================================
