------------------------- MODULE VerificationProofs -------------------------
(* Theorems of Verification, for any number of requests, records, contacts and *)
(* any maximum of attempts.                                                    *)
EXTENDS Verification, TLAPS

\* Where a request holds the record it has read.
Confirming == {"miss", "lookup", "apply", "mark"}

\* A request holds a record exactly while it confirms, one that was inserted; an
\* unused record has no history.
Held ==
  /\ \A q \in Requests : pc[q] \in Confirming <=> held[q] \in Records
  /\ \A q \in Requests : held[q] \in Records => state[held[q]] # "unused"
  /\ \A q \in Requests : pc[q] \in {"clear", "insert"} => contact[q] \in Contacts
  /\ \A r \in Records : state[r] = "unused" => spent[r] = 0 /\ guesses[r] = 0 /\ attempts[r] = 0
  /\ \A r \in Records : state[r] # "unused" => target[r] \in Contacts

TypeInv == TypeOK /\ Held

\* Types are preserved, each variable by the actions that write it.
LEMMA TypeStep == TypeInv /\ [Next]_vars => TypeInv'
<1> SUFFICES ASSUME TypeInv, [Next]_vars PROVE TypeInv'
  OBVIOUS
<1> USE NullsAssumption, MaxAttemptsAssumption
    DEF TypeInv, TypeOK, Held, Confirming, Goto, customerVars, recordVars, localVars, historyVars
<1>1. ASSUME NEW q \in Requests, NEW c \in Contacts, Ask(q, c) PROVE TypeInv'
  BY <1>1 DEF Ask
<1>2. ASSUME NEW q \in Requests, Clear(q) PROVE TypeInv'
  <2>1. crossed' \in BOOLEAN BY <1>2 DEF Clear
  <2> QED BY <1>2, <2>1 DEF Clear, Stored
<1>3. ASSUME NEW q \in Requests, NEW r \in Records, Insert(q, r) PROVE TypeInv'
  BY <1>3 DEF Insert, Finish
<1>4. ASSUME NEW q \in Requests, NEW r \in Records, Valid(r), pc[q] = "idle",
             NEW l \in Confirming, Hold(q, r, l)
      PROVE  TypeInv'
  <2>1. raced' \in [Records -> BOOLEAN] BY <1>4 DEF Hold
  <2>2. seen' \in [Requests -> 0..(MaxAttempts - 1)] BY <1>4 DEF Hold, Valid
  <2>3. Held' BY <1>4 DEF Hold, Valid
  <2> QED BY <1>4, <2>1, <2>2, <2>3 DEF Hold
<1>5. ASSUME NEW q \in Requests, NEW r \in Records, ConsumeByToken(q, r) PROVE TypeInv'
  BY <1>4, <1>5 DEF ConsumeByToken, Accept
<1>6. ASSUME NEW q \in Requests, NEW g \in Records \cup {NoRecord}, ConsumeByOtp(q, g)
      PROVE  TypeInv'
  <2>1. PICK r \in Stored : Valid(r) /\ IF g = r THEN Accept(q, r) ELSE Hold(q, r, "miss")
    BY <1>6 DEF ConsumeByOtp
  <2>2. r \in Records BY DEF Stored
  <2>3. pc[q] = "idle" BY <1>6 DEF ConsumeByOtp
  <2> QED BY <1>4, <2>1, <2>2, <2>3 DEF Accept
<1>7. ASSUME NEW q \in Requests, Miss(q) PROVE TypeInv'
  <2>1. held[q] \in Records BY <1>7 DEF Miss
  <2>2. attempts' \in [Records -> 0..MaxAttempts] BY <1>7, <2>1 DEF Miss, Stored
  <2>3. guesses' \in [Records -> 0..(MaxAttempts + 1)] BY <1>7, <2>1 DEF Miss
  <2>4. \A r \in Records : state'[r] = "unused" => attempts'[r] = 0 /\ guesses'[r] = 0
    BY <1>7, <2>1 DEF Miss, Stored
  <2> QED BY <1>7, <2>1, <2>2, <2>3, <2>4 DEF Miss, Finish
<1>8. ASSUME NEW q \in Requests, Lookup(q) PROVE TypeInv'
  BY <1>8 DEF Lookup, Finish
<1>9. ASSUME NEW q \in Requests, Apply(q) PROVE TypeInv'
  <2>1. held[q] \in Records BY <1>9 DEF Apply
  <2>2. value' \in Contacts \cup {NoContact} /\ verified' \in BOOLEAN BY <1>9, <2>1 DEF Apply
  <2>3. spent' \in [Records -> 0..2] BY <1>9, <2>1 DEF Apply
  <2> QED BY <1>9, <2>1, <2>2, <2>3 DEF Apply
<1>10. ASSUME NEW q \in Requests, Mark(q) PROVE TypeInv'
  BY <1>10 DEF Mark, Finish, Stored
<1>11. ASSUME NEW r \in Records, Expire(r) PROVE TypeInv'
  BY <1>11 DEF Expire
<1>12. ASSUME NEW c \in Contacts, Edit(c) PROVE TypeInv'
  BY <1>12 DEF Edit
<1>13. ASSUME NEW q \in Requests, Abandon(q) PROVE TypeInv'
  BY <1>13 DEF Abandon, Finish
<1>14. CASE UNCHANGED vars BY <1>14 DEF vars
<1> QED BY <1>1, <1>2, <1>3, <1>5, <1>6, <1>7, <1>8, <1>9, <1>10, <1>11, <1>12, <1>13, <1>14
        DEF Next, Create, Confirm

\* The types and what a request in flight holds.
LEMMA TypeInvariant == Spec => []TypeInv
<1>1. Init => TypeInv
  <2> SUFFICES ASSUME Init PROVE TypeInv
    OBVIOUS
  <2> USE NullsAssumption, MaxAttemptsAssumption DEF Init
  <2>1. /\ verified \in BOOLEAN /\ edited \in BOOLEAN /\ crossed \in BOOLEAN
        /\ raced \in [Records -> BOOLEAN]
    OBVIOUS
  <2>2. /\ attempts \in [Records -> 0..MaxAttempts] /\ seen \in [Requests -> 0..(MaxAttempts - 1)]
        /\ spent \in [Records -> 0..2] /\ guesses \in [Records -> 0..(MaxAttempts + 1)]
    OBVIOUS
  <2>3. TypeOK BY <2>1, <2>2 DEF TypeOK
  <2>4. Held BY DEF Held, Confirming
  <2> QED BY <2>3, <2>4 DEF TypeInv
<1> QED BY <1>1, TypeStep, PTL DEF Spec

\* The columns of verification and of the contact, and the locals of the flows, are
\* of the types TypeOK gives them; attempts stay within maxAttempts.
THEOREM TypeCorrect == Spec => []TypeOK
<1>1. TypeInv => TypeOK BY DEF TypeInv
<1> QED BY <1>1, TypeInvariant, PTL
-----------------------------------------------------------------------------

\* Of a record whose confirmations neither overlap nor are cut short: one request
\* holds it; it has taken effect at most once, and then it cannot be taken any more
\* or is about to be marked.
Single(r) ==
  /\ \A q, d \in Requests : held[q] = r /\ held[d] = r => q = d
  /\ spent[r] <= 1
  /\ \A q \in Requests : held[q] = r /\ pc[q] # "mark" => spent[r] = 0
  /\ spent[r] = 1 => \/ state[r] \in {"expired", "consumed", "gone"}
                     \/ \E q \in Requests : held[q] = r /\ pc[q] = "mark"

\* ... and every wrong guess was counted.
Counted(r) ==
  /\ guesses[r] <= MaxAttempts
  /\ state[r] # "gone" => guesses[r] = attempts[r]
  /\ \A q \in Requests : held[q] = r /\ pc[q] = "miss" => guesses[r] = seen[q]

UsedInv == \A r \in Records : ~raced[r] => Single(r) /\ Counted(r)

\* The two facts are preserved together.
LEMMA UsedStep == TypeInv /\ UsedInv /\ [Next]_vars => UsedInv'
<1> SUFFICES ASSUME TypeInv, UsedInv, [Next]_vars, NEW r \in Records, ~raced'[r]
             PROVE  Single(r)' /\ Counted(r)'
  BY DEF UsedInv
<1> USE NullsAssumption, MaxAttemptsAssumption
    DEF TypeInv, TypeOK, Held, Confirming, Goto, customerVars, recordVars, localVars, historyVars
<1>1. ASSUME NEW q \in Requests, NEW c \in Contacts, Ask(q, c)
      PROVE  Single(r)' /\ Counted(r)'
  BY <1>1 DEF Ask, UsedInv, Single, Counted
<1>2. ASSUME NEW q \in Requests, Clear(q) PROVE Single(r)' /\ Counted(r)'
  BY <1>2 DEF Clear, Stored, UsedInv, Single, Counted
<1>3. ASSUME NEW q \in Requests, NEW s \in Records, Insert(q, s)
      PROVE  Single(r)' /\ Counted(r)'
  BY <1>3 DEF Insert, Finish, UsedInv, Single, Counted
<1>4. ASSUME NEW q \in Requests, NEW s \in Records, Valid(s), pc[q] = "idle",
             NEW l \in {"miss", "lookup", "apply"}, Hold(q, s, l)
      PROVE  Single(r)' /\ Counted(r)'
  <2>1. ~raced[r] BY <1>4 DEF Hold
  <2>2. Single(r) /\ Counted(r) BY <2>1 DEF UsedInv
  <2>3. r = s => \A d \in Requests : held[d] # r BY <1>4 DEF Hold
  <2>4. r = s => spent[r] = 0 BY <1>4, <2>2, <2>3 DEF Valid, Single
  <2>5. Single(r)' BY <1>4, <2>2, <2>3, <2>4 DEF Hold, Single
  <2>6. Counted(r)' BY <1>4, <2>2, <2>3 DEF Hold, Counted, Valid
  <2> QED BY <2>5, <2>6
<1>5. ASSUME NEW q \in Requests, NEW s \in Records, ConsumeByToken(q, s)
      PROVE  Single(r)' /\ Counted(r)'
  BY <1>4, <1>5 DEF ConsumeByToken, Accept
<1>6. ASSUME NEW q \in Requests, NEW g \in Records \cup {NoRecord}, ConsumeByOtp(q, g)
      PROVE  Single(r)' /\ Counted(r)'
  <2>1. PICK s \in Stored : Valid(s) /\ IF g = s THEN Accept(q, s) ELSE Hold(q, s, "miss")
    BY <1>6 DEF ConsumeByOtp
  <2>2. s \in Records /\ pc[q] = "idle" BY <1>6 DEF Stored, ConsumeByOtp
  <2> QED BY <1>4, <2>1, <2>2 DEF Accept
<1>7. ASSUME NEW q \in Requests, Miss(q) PROVE Single(r)' /\ Counted(r)'
  <2>1. held[q] \in Records BY <1>7 DEF Miss
  <2>2. Single(r) /\ Counted(r) BY <1>7 DEF Miss, UsedInv
  <2>3. Single(r)' BY <1>7, <2>1, <2>2 DEF Miss, Finish, Single
  <2>4. CASE held[q] = r
    <3>1. guesses[r] = seen[q] BY <1>7, <2>2, <2>4 DEF Counted, Miss
    <3>2. guesses'[r] = seen[q] + 1 BY <1>7, <2>4, <3>1 DEF Miss
    <3>3. state[r] # "gone" => attempts'[r] = seen[q] + 1 BY <1>7, <2>4 DEF Miss, Stored
    <3>4. \A d \in Requests : held'[d] # r BY <1>7, <2>2, <2>4 DEF Miss, Finish, Single
    <3> QED BY <1>7, <2>3, <3>2, <3>3, <3>4 DEF Miss, Finish, Counted
  <2>5. CASE held[q] # r
    BY <1>7, <2>1, <2>2, <2>3, <2>5 DEF Miss, Finish, Counted
  <2> QED BY <2>4, <2>5
<1>8. ASSUME NEW q \in Requests, Lookup(q) PROVE Single(r)' /\ Counted(r)'
  <2>1. Single(r) /\ Counted(r) BY <1>8 DEF Lookup, UsedInv
  <2>2. CASE Finish(q)
    BY <1>8, <2>1, <2>2 DEF Lookup, Finish, Single, Counted
  <2>3. CASE ~Finish(q)
    BY <1>8, <2>1, <2>3 DEF Lookup, Single, Counted
  <2> QED BY <2>2, <2>3
<1>9. ASSUME NEW q \in Requests, Apply(q) PROVE Single(r)' /\ Counted(r)'
  <2>1. held[q] \in Records BY <1>9 DEF Apply
  <2>2. Single(r) /\ Counted(r) BY <1>9 DEF Apply, UsedInv
  <2>3. Counted(r)' BY <1>9, <2>2 DEF Apply, Counted
  <2>4. CASE held[q] = r
    <3>1. spent[r] = 0 BY <1>9, <2>2, <2>4 DEF Apply, Single
    <3>2. spent'[r] = 1 BY <1>9, <2>4, <3>1 DEF Apply
    <3>3. \A d \in Requests : held[d] = r => d = q BY <2>2, <2>4 DEF Single
    <3>4. held' = held /\ pc'[q] = "mark" BY <1>9 DEF Apply
    <3>5. Single(r)' BY <2>4, <3>2, <3>3, <3>4 DEF Single
    <3> QED BY <2>3, <3>5
  <2>5. CASE held[q] # r
    BY <1>9, <2>1, <2>2, <2>3, <2>5 DEF Apply, Single
  <2> QED BY <2>4, <2>5
<1>10. ASSUME NEW q \in Requests, Mark(q) PROVE Single(r)' /\ Counted(r)'
  BY <1>10 DEF Mark, Finish, Stored, UsedInv, Single, Counted
<1>11. ASSUME NEW s \in Records, Expire(s) PROVE Single(r)' /\ Counted(r)'
  BY <1>11 DEF Expire, UsedInv, Single, Counted
<1>12. ASSUME NEW c \in Contacts, Edit(c) PROVE Single(r)' /\ Counted(r)'
  BY <1>12 DEF Edit, UsedInv, Single, Counted
<1>13. ASSUME NEW q \in Requests, Abandon(q) PROVE Single(r)' /\ Counted(r)'
  BY <1>13 DEF Abandon, Finish, UsedInv, Single, Counted
<1>14. CASE UNCHANGED vars BY <1>14 DEF vars, UsedInv, Single, Counted
<1> QED BY <1>1, <1>2, <1>3, <1>5, <1>6, <1>7, <1>8, <1>9, <1>10, <1>11, <1>12, <1>13, <1>14
        DEF Next, Create, Confirm

\* One effect and counted guesses, for every record whose confirmations do not race.
LEMMA UsedInvariant == Spec => []UsedInv
<1>1. Init => UsedInv
  BY NullsAssumption, MaxAttemptsAssumption DEF Init, UsedInv, Single, Counted
<1> QED BY <1>1, TypeInvariant, UsedStep, PTL DEF Spec

\* A code or a link takes effect once unless two of its confirmations overlapped or
\* one was cut short before markConsumed.
THEOREM EffectOnce == Spec => []UsedOnceUnlessRaced
<1>1. UsedInv => UsedOnceUnlessRaced BY DEF UsedInv, Single, UsedOnceUnlessRaced
<1> QED BY <1>1, UsedInvariant, PTL

\* Under the same condition nobody guesses more often than maxAttempts.
THEOREM GuessesCounted == Spec => []GuessesBoundedUnlessRaced
<1>1. UsedInv => GuessesBoundedUnlessRaced BY DEF UsedInv, Counted, GuessesBoundedUnlessRaced
<1> QED BY <1>1, UsedInvariant, PTL

-----------------------------------------------------------------------------

\* Until creations cross: one record, and none while one is about to be inserted.
RecordInv ==
  ~crossed => /\ \A r, s \in Stored : r = s
              /\ \A q \in Requests : pc[q] = "insert" =>
                   /\ Stored = {}
                   /\ \A d \in Requests : pc[d] = "insert" => d = q

\* It is preserved.
LEMMA RecordStep == TypeInv /\ RecordInv /\ [Next]_vars => RecordInv'
<1> SUFFICES ASSUME TypeInv, RecordInv, [Next]_vars PROVE RecordInv'
  OBVIOUS
<1> USE DEF TypeInv, TypeOK, Goto, Stored, RecordInv, customerVars, recordVars, localVars,
       historyVars
<1>1. ASSUME NEW q \in Requests, Create(q) PROVE RecordInv'
  <2>1. ASSUME NEW c \in Contacts, Ask(q, c) PROVE RecordInv' BY <2>1 DEF Ask
  <2>2. CASE Clear(q) BY <2>2 DEF Clear, Creating
  <2>3. ASSUME NEW r \in Records, Insert(q, r) PROVE RecordInv' BY <2>3 DEF Insert, Finish
  <2> QED BY <1>1, <2>1, <2>2, <2>3 DEF Create
<1>2. ASSUME NEW q \in Requests, Confirm(q) PROVE RecordInv'
  <2>1. ASSUME NEW r \in Records, ConsumeByToken(q, r) PROVE RecordInv'
    BY <2>1 DEF ConsumeByToken, Accept, Hold
  <2>2. ASSUME NEW g \in Records \cup {NoRecord}, ConsumeByOtp(q, g) PROVE RecordInv'
    BY <2>2 DEF ConsumeByOtp, Accept, Hold
  <2>3. CASE Miss(q) BY <2>3 DEF Miss, Finish
  <2>4. CASE Lookup(q) BY <2>4 DEF Lookup, Finish
  <2>5. CASE Apply(q) BY <2>5 DEF Apply
  <2>6. CASE Mark(q) BY <2>6 DEF Mark, Finish
  <2> QED BY <1>2, <2>1, <2>2, <2>3, <2>4, <2>5, <2>6 DEF Confirm
<1>3. ASSUME NEW q \in Requests, Abandon(q) PROVE RecordInv' BY <1>3 DEF Abandon, Finish
<1>4. ASSUME NEW r \in Records, Expire(r) PROVE RecordInv' BY <1>4 DEF Expire
<1>5. ASSUME NEW c \in Contacts, Edit(c) PROVE RecordInv' BY <1>5 DEF Edit
<1>6. CASE UNCHANGED vars BY <1>6 DEF vars
<1> QED BY <1>1, <1>2, <1>3, <1>4, <1>5, <1>6 DEF Next

\* A purpose has one record unless two creations crossed, and one again after the
\* next creation that does not.
THEOREM OneRecord == Spec => []OneRecordUnlessCrossed
<1>1. Init => RecordInv BY DEF Init, RecordInv, Stored
<1>2. RecordInv => OneRecordUnlessCrossed BY DEF RecordInv, OneRecordUnlessCrossed
<1> QED BY <1>1, <1>2, TypeInvariant, RecordStep, PTL DEF Spec

-----------------------------------------------------------------------------

\* What took effect keeps its target, and only a record's target is verified.
LEMMA ProvenStep ==
  TypeInv /\ VerifiedUnlessEdited /\ [Next]_vars => VerifiedUnlessEdited'
<1> SUFFICES ASSUME TypeInv, VerifiedUnlessEdited, [Next]_vars PROVE VerifiedUnlessEdited'
  OBVIOUS
<1> USE NullsAssumption DEF TypeInv, TypeOK, Held, Confirming, Goto, VerifiedUnlessEdited,
        VerifiedIsProven, customerVars, recordVars, localVars, historyVars
<1>1. ASSUME NEW q \in Requests, Create(q) PROVE VerifiedUnlessEdited'
  <2>1. ASSUME NEW c \in Contacts, Ask(q, c) PROVE VerifiedUnlessEdited' BY <2>1 DEF Ask
  <2>2. CASE Clear(q) BY <2>2 DEF Clear
  <2>3. ASSUME NEW r \in Records, Insert(q, r) PROVE VerifiedUnlessEdited'
    BY <2>3 DEF Insert
  <2> QED BY <1>1, <2>1, <2>2, <2>3 DEF Create
<1>2. ASSUME NEW q \in Requests, Confirm(q) PROVE VerifiedUnlessEdited'
  <2>1. ASSUME NEW r \in Records, ConsumeByToken(q, r) PROVE VerifiedUnlessEdited'
    BY <2>1 DEF ConsumeByToken, Accept, Hold
  <2>2. ASSUME NEW g \in Records \cup {NoRecord}, ConsumeByOtp(q, g) PROVE VerifiedUnlessEdited'
    BY <2>2 DEF ConsumeByOtp, Accept, Hold
  <2>3. CASE Miss(q) BY <2>3 DEF Miss
  <2>4. CASE Lookup(q) BY <2>4 DEF Lookup
  <2>5. CASE Apply(q)
    <3>1. held[q] \in Records /\ spent'[held[q]] > 0 BY <2>5 DEF Apply
    <3>2. \A r \in Records : spent[r] > 0 => spent'[r] > 0 BY <2>5, <3>1 DEF Apply
    <3> QED BY <2>5, <3>1, <3>2 DEF Apply
  <2>6. CASE Mark(q) BY <2>6 DEF Mark
  <2> QED BY <1>2, <2>1, <2>2, <2>3, <2>4, <2>5, <2>6 DEF Confirm
<1>3. ASSUME NEW q \in Requests, Abandon(q) PROVE VerifiedUnlessEdited' BY <1>3 DEF Abandon
<1>4. ASSUME NEW r \in Records, Expire(r) PROVE VerifiedUnlessEdited' BY <1>4 DEF Expire
<1>5. ASSUME NEW c \in Contacts, Edit(c) PROVE VerifiedUnlessEdited' BY <1>5 DEF Edit
<1>6. CASE UNCHANGED vars BY <1>6 DEF vars
<1> QED BY <1>1, <1>2, <1>3, <1>4, <1>5, <1>6 DEF Next

\* A contact is verified only by a code that was sent to it, until somebody edits it
\* without one.
THEOREM VerifiedByCode == Spec => []VerifiedUnlessEdited
<1>1. Init => VerifiedUnlessEdited BY DEF Init, VerifiedUnlessEdited, VerifiedIsProven
<1> QED BY <1>1, TypeInvariant, ProvenStep, PTL DEF Spec

-----------------------------------------------------------------------------

\* A record has a target exactly once it is inserted.
UnsentInv == \A r \in Records : state[r] = "unused" => target[r] = NoContact

\* It is preserved.
LEMMA UnsentInvariant == Spec => []UnsentInv
<1> USE DEF UnsentInv, customerVars, recordVars, localVars, historyVars
<1>1. Init => UnsentInv
  BY DEF Init
<1>2. TypeInv /\ UnsentInv /\ [Next]_vars => UnsentInv'
  <2> SUFFICES ASSUME TypeInv, UnsentInv, [Next]_vars PROVE UnsentInv'
    OBVIOUS
  <2> USE DEF TypeInv, TypeOK
  <2>1. ASSUME NEW q \in Requests, Create(q) PROVE UnsentInv'
    BY <2>1 DEF Create, Ask, Clear, Stored, Insert
  <2>2. ASSUME NEW q \in Requests, Confirm(q) PROVE UnsentInv'
    BY <2>2 DEF Confirm, ConsumeByToken, ConsumeByOtp, Accept, Hold, Miss, Lookup, Apply,
       Mark
  <2>3. ASSUME NEW q \in Requests, Abandon(q) PROVE UnsentInv'
    BY <2>3 DEF Abandon
  <2>4. ASSUME NEW r \in Records, Expire(r) PROVE UnsentInv'
    BY <2>4 DEF Expire
  <2>5. ASSUME NEW c \in Contacts, Edit(c) PROVE UnsentInv'
    BY <2>5 DEF Edit
  <2>6. CASE UNCHANGED vars
    BY <2>6 DEF vars
  <2> QED
    BY <2>1, <2>2, <2>3, <2>4, <2>5, <2>6 DEF Next
<1> QED BY <1>1, <1>2, TypeInvariant, PTL DEF Spec

\* CodePromise: the token service and the flows of AuthService implement OneTimeCode;
\* each of their statements is one of its steps, or none that a customer can see.
THEOREM PromiseIsKept == Spec => CodePromise
<1> USE NullsAssumption DEF customerVars, recordVars, localVars, historyVars, Promise!vars
<1>1. Init => Promise!Init
  BY DEF Init, Promise!Init
<1>2. TypeInv /\ UsedInv /\ UnsentInv /\ [Next]_vars => [Promise!Next]_(Promise!vars)
  <2> SUFFICES ASSUME TypeInv, UsedInv, UnsentInv, [Next]_vars
               PROVE  Promise!Next \/ UNCHANGED Promise!vars
    OBVIOUS
  <2> USE DEF TypeInv, TypeOK, Held, Confirming
  <2>1. ASSUME NEW q \in Requests, Create(q) PROVE Promise!Next \/ UNCHANGED Promise!vars
    <3>1. ASSUME NEW r \in Records, Insert(q, r) PROVE Promise!Next
      <4>1. Promise!Send(r, contact[q]) /\ contact[q] \in Contacts
        BY <3>1 DEF Insert, UnsentInv, Promise!Send, Promise!Sent
      <4> QED BY <4>1 DEF Promise!Next
    <3> QED BY <2>1, <3>1 DEF Create, Ask, Clear
  <2>2. ASSUME NEW q \in Requests, Confirm(q) PROVE Promise!Next \/ UNCHANGED Promise!vars
    <3>1. ASSUME NEW r \in Records, NEW l \in Confirming, Hold(q, r, l)
          PROVE  Promise!Next \/ UNCHANGED Promise!vars
      <4>1. CASE \E d \in Requests : held[d] = r
        <5>1. Promise!Disturb(r) BY <3>1, <4>1 DEF Hold, Promise!Disturb
        <5> QED BY <5>1 DEF Promise!Next
      <4>2. CASE \A d \in Requests : held[d] # r
        BY <3>1, <4>2 DEF Hold
      <4> QED BY <4>1, <4>2
    <3>2. ASSUME NEW r \in Records, ConsumeByToken(q, r)
          PROVE  Promise!Next \/ UNCHANGED Promise!vars
      BY <3>1, <3>2 DEF ConsumeByToken, Accept
    <3>3. ASSUME NEW g \in Records \cup {NoRecord}, ConsumeByOtp(q, g)
          PROVE  Promise!Next \/ UNCHANGED Promise!vars
      BY <3>1, <3>3 DEF ConsumeByOtp, Accept, Stored
    <3>4. CASE Miss(q)
      <4> DEFINE r == held[q]
      <4>1. r \in Records /\ target[r] # NoContact BY <3>4 DEF Miss
      <4>2. guesses[r] < MaxAttempts \/ raced[r]
        <5>1. ~raced[r] => guesses[r] = seen[q] BY <3>4, <4>1 DEF Miss, UsedInv, Counted
        <5> QED BY <4>1, <5>1, MaxAttemptsAssumption
      <4>3. Promise!GuessWrong(r)
        BY <3>4, <4>1, <4>2 DEF Miss, Promise!GuessWrong, Promise!Sent
      <4> QED BY <4>1, <4>3 DEF Promise!Next
    <3>5. CASE Lookup(q) BY <3>5 DEF Lookup
    <3>6. CASE Apply(q)
      <4> DEFINE r == held[q]
      <4>1. r \in Records /\ target[r] # NoContact BY <3>6 DEF Apply
      <4>2. spent[r] = 0 \/ raced[r] BY <3>6, <4>1 DEF Apply, UsedInv, Single
      <4>3. Promise!Use(r)
        BY <3>6, <4>1, <4>2 DEF Apply, Promise!Use, Promise!Sent
      <4> QED BY <4>1, <4>3 DEF Promise!Next
    <3>7. CASE Mark(q) BY <3>7 DEF Mark
    <3> QED BY <2>2, <3>2, <3>3, <3>4, <3>5, <3>6, <3>7 DEF Confirm
  <2>3. ASSUME NEW q \in Requests, Abandon(q) PROVE Promise!Next \/ UNCHANGED Promise!vars
    <3>1. CASE pc[q] \in {"miss", "mark"}
      <4>1. held[q] \in Records BY <3>1
      <4>2. Promise!Disturb(held[q]) BY <2>3, <3>1 DEF Abandon, Promise!Disturb
      <4> QED BY <4>1, <4>2 DEF Promise!Next
    <3>2. CASE pc[q] \notin {"miss", "mark"} BY <2>3, <3>2 DEF Abandon
    <3> QED BY <3>1, <3>2
  <2>4. ASSUME NEW r \in Records, Expire(r) PROVE UNCHANGED Promise!vars
    BY <2>4 DEF Expire
  <2>5. ASSUME NEW c \in Contacts, Edit(c) PROVE Promise!Next
    <3>1. Promise!Edit(c) BY <2>5 DEF Edit, Promise!Edit
    <3> QED BY <3>1 DEF Promise!Next
  <2>6. CASE UNCHANGED vars BY <2>6 DEF vars
  <2> QED BY <2>1, <2>2, <2>3, <2>4, <2>5, <2>6 DEF Next
<1> QED
  BY <1>1, <1>2, TypeInvariant, UsedInvariant, UnsentInvariant, PTL DEF Spec, CodePromise,
     Promise!Spec

-----------------------------------------------------------------------------

\* No two requests confirm with the same record at once.
OneByOne ==
  \A q, d \in Requests : held[q] \in Records /\ held[q] = held[d] => q = d

\* Where confirmations of a code follow each other and none is cut short, the
\* unconditional promises hold for all codes: UsedOnce ("This verification token has
\* already been used") and at most maxAttempts wrong guesses, however the code is
\* replaced, expires or is tried by token and by number meanwhile.
THEOREM OneByOneKeepsLimits ==
  ASSUME "abandon" \notin Faults
  PROVE  Spec /\ []OneByOne => [](UsedOnce /\ \A r \in Records : guesses[r] <= MaxAttempts)
<1> DEFINE Calm == \A r \in Records : ~raced[r]
<1> USE DEF customerVars, recordVars, localVars, historyVars
<1>1. Init => Calm
  BY DEF Init
<1>2. TypeInv /\ OneByOne' /\ Calm /\ [Next]_vars => Calm'
  <2> SUFFICES ASSUME TypeInv, OneByOne', Calm, [Next]_vars PROVE Calm'
    OBVIOUS
  <2> USE NullsAssumption DEF TypeInv, TypeOK, Held, Confirming
  <2>1. ASSUME NEW q \in Requests, NEW r \in Records, pc[q] = "idle",
               NEW l \in Confirming, Hold(q, r, l)
        PROVE  Calm'
    <3>1. \A d \in Requests : held[d] = r => d # q /\ held'[d] = r
      BY <2>1 DEF Hold
    <3>2. held'[q] = r
      BY <2>1 DEF Hold
    <3>3. \A d \in Requests : held[d] # r
      BY <3>1, <3>2 DEF OneByOne
    <3> QED BY <2>1, <3>3 DEF Hold
  <2>2. ASSUME NEW q \in Requests, Create(q) PROVE Calm'
    BY <2>2 DEF Create, Ask, Clear, Insert
  <2>3. ASSUME NEW q \in Requests, Confirm(q) PROVE Calm'
    <3>1. ASSUME NEW r \in Records, ConsumeByToken(q, r) PROVE Calm'
      BY <2>1, <3>1 DEF ConsumeByToken, Accept
    <3>2. ASSUME NEW g \in Records \cup {NoRecord}, ConsumeByOtp(q, g) PROVE Calm'
      BY <2>1, <3>2 DEF ConsumeByOtp, Accept, Stored
    <3> QED BY <2>3, <3>1, <3>2 DEF Confirm, Miss, Lookup, Apply, Mark
  <2>4. ASSUME NEW q \in Requests, Abandon(q) PROVE FALSE
    BY <2>4 DEF Abandon
  <2>5. ASSUME NEW r \in Records, Expire(r) PROVE Calm'
    BY <2>5 DEF Expire
  <2>6. ASSUME NEW c \in Contacts, Edit(c) PROVE Calm'
    BY <2>6 DEF Edit
  <2>7. CASE UNCHANGED vars
    BY <2>7 DEF vars
  <2> QED BY <2>2, <2>3, <2>4, <2>5, <2>6, <2>7 DEF Next
<1>3. Calm /\ UsedInv => UsedOnce /\ \A r \in Records : guesses[r] <= MaxAttempts
  BY DEF UsedInv, UsedOnce, Single, Counted
<1> QED BY <1>1, <1>2, <1>3, TypeInvariant, UsedInvariant, PTL DEF Spec
=============================================================================
