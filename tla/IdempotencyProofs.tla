-------------------------- MODULE IdempotencyProofs --------------------------
(***************************************************************************)
(* The safety of Idempotency, and that it implements AtMostOnce, for any   *)
(* number of attempts and payloads.                                        *)
(***************************************************************************)
EXTENDS Idempotency, TLAPS

\* One step on behalf of attempt a.
Attempt(a) ==
  \/ \E h \in Payloads : Receive(a, h)
  \/ Intercept(a)
  \/ RedisFails(a)
  \/ Crash(a)

\* True whatever has lapsed: a recorded response, and a response about to be
\* recorded, is that of an effect made for the payload it is recorded under.
Recorded ==
  /\ \A a \in Attempts : pc[a] = "idle" <=> payload[a] = NoPayload
  /\ \A w \in effects : pc[w] # "idle"
  /\ \A a \in Attempts : pc[a] # "done" => reply[a] = NoResponse
  /\ \A a \in Attempts : Unrecorded(a) => a \in effects
  /\ rec.status = "COMMITTED" => rec.resp \in effects /\ payload[rec.resp] = rec.hash
  /\ AnswersMatch

\* Until the key lapses only its holder is past begin, with the record PENDING;
\* one that lost the answer of its SETEX may still be on its way out.  An effect
\* belongs to the holder or is recorded.
Held ==
  ~lapsed =>
    /\ \A a \in Attempts : Owning(a) =>
         \/ rec.status = "PENDING" /\ holder = a /\ rec.hash = payload[a]
         \/ pc[a] = "failRead" /\ rec.status = "COMMITTED"
    /\ \A w \in effects : Unrecorded(w) \/ (rec.status = "COMMITTED" /\ rec.resp = w)
-----------------------------------------------------------------------------

\* The record, the attempts and the history keep their types.
THEOREM TypeCorrect == Spec => []TypeOK
<1> USE NullsAssumption DEF Steps, localVars, Absent, Pending, Committed, Goto, Reply,
        Write, KeepRecord, LapseIf, Owning, Unrecorded
<1>1. Init => TypeOK
  <2> USE DEF Init
  <2>1. Init => rec \in [status : {"none", "PENDING", "COMMITTED"},
                           hash : Payloads \cup {NoPayload}, resp : Attempts \cup {NoResponse}]
    OBVIOUS
  <2>2. Init => lapsed \in BOOLEAN
    OBVIOUS
  <2>3. QED
    BY <2>1, <2>2 DEF TypeOK
<1>2. TypeOK /\ [Next]_vars => TypeOK'
  <2> SUFFICES ASSUME TypeOK, [Next]_vars PROVE TypeOK'
    OBVIOUS
  <2>1. ASSUME NEW a \in Attempts, Attempt(a) PROVE TypeOK'
    <3>1. ASSUME NEW h \in Payloads, Receive(a, h) PROVE TypeOK'
      BY <3>1 DEF Receive, TypeOK
    <3>2. CASE BeginRead(a)
      BY <3>2 DEF BeginRead, BeginResult, TypeOK
    <3>3. CASE Claim(a)
      BY <3>3 DEF Claim, TypeOK
    <3>4. CASE Handle(a)
      BY <3>4 DEF Handle, TypeOK
    <3>5. CASE HandlerThrows(a)
      BY <3>5 DEF HandlerThrows, TypeOK
    <3>6. CASE CommitRead(a)
      BY <3>6 DEF CommitRead, TypeOK
    <3>7. CASE CommitWrite(a)
      BY <3>7 DEF CommitWrite, TypeOK
    <3>8. CASE FailRead(a)
      BY <3>8 DEF FailRead, TypeOK
    <3>9. CASE FailDelete(a)
      BY <3>9 DEF FailDelete, TypeOK
    <3>10. CASE RedisFails(a)
      <4>1. CASE Reply(a, NoResponse) /\ KeepRecord /\ UNCHANGED <<effects, lapsed>>
                    /\ pc[a] \in {"read", "claim", "reread", "failRead", "failDelete"}
        BY <4>1 DEF TypeOK
      <4>2. CASE /\ pc[a] = "claim" /\ rec.status = "none"
                 /\ Write(Pending(payload[a]), a) /\ Reply(a, NoResponse)
                 /\ UNCHANGED <<effects, lapsed>>
        BY <4>2 DEF TypeOK
      <4>3. CASE /\ pc[a] = "failDelete" /\ Write(Absent, NoAttempt)
                 /\ Reply(a, NoResponse) /\ UNCHANGED <<effects, lapsed>>
        BY <4>3 DEF TypeOK
      <4>4. CASE /\ Unrecorded(a) /\ Goto(a, "failRead") /\ KeepRecord
                 /\ LapseIf(TRUE) /\ UNCHANGED effects
        BY <4>4 DEF TypeOK
      <4>5. CASE /\ pc[a] = "commitWrite" /\ Write(Committed(payload[a], a), NoAttempt)
                 /\ Goto(a, "failRead") /\ UNCHANGED <<effects, lapsed>>
        BY <4>5 DEF TypeOK
      <4>6. QED
        BY <3>10, <4>1, <4>2, <4>3, <4>4, <4>5 DEF RedisFails
    <3>11. CASE Crash(a)
      BY <3>11 DEF Crash, TypeOK
    <3>12. QED
      BY <2>1, <3>1, <3>2, <3>3, <3>4, <3>5, <3>6, <3>7, <3>8, <3>9, <3>10,
         <3>11 DEF Attempt, Intercept
  <2>2. CASE ExpirePending
    BY <2>2 DEF ExpirePending, TypeOK
  <2>3. CASE ExpireCommitted
    BY <2>3 DEF ExpireCommitted, TypeOK
  <2>4. CASE UNCHANGED vars
    BY <2>4 DEF vars, TypeOK
  <2>5. QED
    BY <2>1, <2>2, <2>3, <2>4 DEF Next, Attempt
<1>3. QED
  BY <1>1, <1>2, PTL DEF Spec

\* AnswersMatch: no client is sent a response made for another payload, however
\* records expire and however late a commit comes.
THEOREM AnswersAlwaysMatch == Spec => []Recorded /\ []AnswersMatch
<1> USE NullsAssumption DEF Steps, localVars, Absent, Pending, Committed, Goto, Reply,
        Write, KeepRecord, LapseIf, Owning, Unrecorded
<1>1. Init => Recorded
  BY DEF Init, Recorded, AnswersMatch
<1>2. TypeOK /\ Recorded /\ [Next]_vars => Recorded'
  <2> SUFFICES ASSUME TypeOK, Recorded, [Next]_vars PROVE Recorded'
    OBVIOUS
  <2> USE DEF TypeOK
  <2>1. ASSUME NEW a \in Attempts, Attempt(a) PROVE Recorded'
    <3>1. ASSUME NEW h \in Payloads, Receive(a, h) PROVE Recorded'
      BY <3>1 DEF Receive, Recorded, AnswersMatch
    <3>2. CASE BeginRead(a)
      BY <3>2 DEF BeginRead, BeginResult, Recorded, AnswersMatch
    <3>3. CASE Claim(a)
      BY <3>3 DEF Claim, Recorded, AnswersMatch
    <3>4. CASE Handle(a)
      BY <3>4 DEF Handle, Recorded, AnswersMatch
    <3>5. CASE HandlerThrows(a)
      BY <3>5 DEF HandlerThrows, Recorded, AnswersMatch
    <3>6. CASE CommitRead(a)
      BY <3>6 DEF CommitRead, Recorded, AnswersMatch
    <3>7. CASE CommitWrite(a)
      BY <3>7 DEF CommitWrite, Recorded, AnswersMatch
    <3>8. CASE FailRead(a)
      BY <3>8 DEF FailRead, Recorded, AnswersMatch
    <3>9. CASE FailDelete(a)
      BY <3>9 DEF FailDelete, Recorded, AnswersMatch
    <3>10. CASE RedisFails(a)
      <4>1. CASE Reply(a, NoResponse) /\ KeepRecord /\ UNCHANGED <<effects, lapsed>>
                    /\ pc[a] \in {"read", "claim", "reread", "failRead", "failDelete"}
        BY <4>1 DEF Recorded, AnswersMatch
      <4>2. CASE /\ pc[a] = "claim" /\ rec.status = "none"
                 /\ Write(Pending(payload[a]), a) /\ Reply(a, NoResponse)
                 /\ UNCHANGED <<effects, lapsed>>
        BY <4>2 DEF Recorded, AnswersMatch
      <4>3. CASE /\ pc[a] = "failDelete" /\ Write(Absent, NoAttempt)
                 /\ Reply(a, NoResponse) /\ UNCHANGED <<effects, lapsed>>
        BY <4>3 DEF Recorded, AnswersMatch
      <4>4. CASE /\ Unrecorded(a) /\ Goto(a, "failRead") /\ KeepRecord
                 /\ LapseIf(TRUE) /\ UNCHANGED effects
        BY <4>4 DEF Recorded, AnswersMatch
      <4>5. CASE /\ pc[a] = "commitWrite" /\ Write(Committed(payload[a], a), NoAttempt)
                 /\ Goto(a, "failRead") /\ UNCHANGED <<effects, lapsed>>
        BY <4>5 DEF Recorded, AnswersMatch
      <4>6. QED
        BY <3>10, <4>1, <4>2, <4>3, <4>4, <4>5 DEF RedisFails
    <3>11. CASE Crash(a)
      BY <3>11 DEF Crash, Recorded, AnswersMatch
    <3>12. QED
      BY <2>1, <3>1, <3>2, <3>3, <3>4, <3>5, <3>6, <3>7, <3>8, <3>9, <3>10,
         <3>11 DEF Attempt, Intercept
  <2>2. CASE ExpirePending
    BY <2>2 DEF ExpirePending, Recorded, AnswersMatch
  <2>3. CASE ExpireCommitted
    BY <2>3 DEF ExpireCommitted, Recorded, AnswersMatch
  <2>4. CASE UNCHANGED vars
    BY <2>4 DEF vars, Recorded, AnswersMatch
  <2>5. QED
    BY <2>1, <2>2, <2>3, <2>4 DEF Next, Attempt
<1>3. Recorded => AnswersMatch
  BY DEF Recorded
<1>4. QED
  BY <1>1, <1>2, <1>3, TypeCorrect, PTL DEF Spec

\* OneEffectUnlessLapsed: until the key lapses, retries and concurrent attempts
\* have one effect between them.
THEOREM OneEffect == Spec => []Held /\ []OneEffectUnlessLapsed
<1> USE NullsAssumption DEF Steps, localVars, Absent, Pending, Committed, Goto, Reply,
        Write, KeepRecord, LapseIf, Owning, Unrecorded
<1>1. Init => Held
  BY DEF Init, Held
<1>2. TypeOK /\ Recorded /\ Held /\ [Next]_vars => Held'
  <2> SUFFICES ASSUME TypeOK, Recorded, Held, [Next]_vars PROVE Held'
    OBVIOUS
  <2> USE DEF TypeOK
  <2>1. ASSUME NEW a \in Attempts, Attempt(a) PROVE Held'
    <3>1. ASSUME NEW h \in Payloads, Receive(a, h) PROVE Held'
      BY <3>1 DEF Receive, Held, Recorded
    <3>2. CASE BeginRead(a)
      BY <3>2 DEF BeginRead, BeginResult, Held, Recorded
    <3>3. CASE Claim(a)
      BY <3>3 DEF Claim, Held, Recorded
    <3>4. CASE Handle(a)
      <4>1. ~lapsed => effects = {}
        BY <3>4 DEF Handle, Held
      <4>2. QED
        BY <3>4, <4>1 DEF Handle, Held
    <3>5. CASE HandlerThrows(a)
      BY <3>5 DEF HandlerThrows, Held, Recorded
    <3>6. CASE CommitRead(a)
      BY <3>6 DEF CommitRead, Held, Recorded
    <3>7. CASE CommitWrite(a)
      BY <3>7 DEF CommitWrite, Held, Recorded
    <3>8. CASE FailRead(a)
      BY <3>8 DEF FailRead, Held, Recorded
    <3>9. CASE FailDelete(a)
      BY <3>9 DEF FailDelete, Held, Recorded
    <3>10. CASE RedisFails(a)
      <4>1. CASE Reply(a, NoResponse) /\ KeepRecord /\ UNCHANGED <<effects, lapsed>>
                    /\ pc[a] \in {"read", "claim", "reread", "failRead", "failDelete"}
        BY <4>1 DEF Held, Recorded
      <4>2. CASE /\ pc[a] = "claim" /\ rec.status = "none"
                 /\ Write(Pending(payload[a]), a) /\ Reply(a, NoResponse)
                 /\ UNCHANGED <<effects, lapsed>>
        BY <4>2 DEF Held, Recorded
      <4>3. CASE /\ pc[a] = "failDelete" /\ Write(Absent, NoAttempt)
                 /\ Reply(a, NoResponse) /\ UNCHANGED <<effects, lapsed>>
        BY <4>3 DEF Held, Recorded
      <4>4. CASE /\ Unrecorded(a) /\ Goto(a, "failRead") /\ KeepRecord
                 /\ LapseIf(TRUE) /\ UNCHANGED effects
        BY <4>4 DEF Held, Recorded
      <4>5. CASE /\ pc[a] = "commitWrite" /\ Write(Committed(payload[a], a), NoAttempt)
                 /\ Goto(a, "failRead") /\ UNCHANGED <<effects, lapsed>>
        BY <4>5 DEF Held, Recorded
      <4>6. QED
        BY <3>10, <4>1, <4>2, <4>3, <4>4, <4>5 DEF RedisFails
    <3>11. CASE Crash(a)
      BY <3>11 DEF Crash, Held, Recorded
    <3>12. QED
      BY <2>1, <3>1, <3>2, <3>3, <3>4, <3>5, <3>6, <3>7, <3>8, <3>9, <3>10,
         <3>11 DEF Attempt, Intercept
  <2>2. CASE ExpirePending
    BY <2>2 DEF ExpirePending, Held, Recorded
  <2>3. CASE ExpireCommitted
    BY <2>3 DEF ExpireCommitted, Held, Recorded
  <2>4. CASE UNCHANGED vars
    BY <2>4 DEF vars, Held, Recorded
  <2>5. QED
    BY <2>1, <2>2, <2>3, <2>4 DEF Next, Attempt
<1>3. TypeOK /\ Held => OneEffectUnlessLapsed
  BY DEF TypeOK, Held, OneEffectUnlessLapsed
<1>4. QED
  BY <1>1, <1>2, <1>3, TypeCorrect, AnswersAlwaysMatch, PTL DEF Spec

\* EffectsStayKnown: until the key lapses an effect is recorded under its payload,
\* or its attempt still holds the key.
THEOREM EffectsAreKept == Spec => []EffectsStayKnown
<1>1. TypeOK /\ Recorded /\ Held => EffectsStayKnown
  <2> SUFFICES ASSUME TypeOK, Recorded, Held, ~lapsed, NEW w \in effects
               PROVE /\ rec.hash = payload[w]
                     /\ \/ rec.status = "COMMITTED" /\ rec.resp = w
                        \/ rec.status = "PENDING" /\ holder = w /\ Unrecorded(w)
    BY DEF EffectsStayKnown
  <2>1. w \in Attempts
    BY DEF TypeOK
  <2>2. CASE Unrecorded(w)
    BY <2>1, <2>2 DEF Held, Owning, Unrecorded
  <2>3. CASE rec.status = "COMMITTED" /\ rec.resp = w
    BY <2>3 DEF Recorded
  <2> QED BY <2>2, <2>3 DEF Held
<1>2. QED
  BY <1>1, TypeCorrect, AnswersAlwaysMatch, OneEffect, PTL

\* RecordedStays: until the key lapses nobody deletes or replaces a recorded
\* response, though commitFailure does not look at whose record it deletes.
THEOREM RecordedIsKept == Spec => RecordedStays
<1> USE NullsAssumption DEF Steps, localVars, Absent, Pending, Committed, Goto, Reply,
        Write, KeepRecord, LapseIf, Owning, Unrecorded
<1> DEFINE Kept == rec.status = "COMMITTED" /\ ~lapsed' => rec' = rec
<1>1. TypeOK /\ Held /\ [Next]_vars => [Kept]_vars
  <2> SUFFICES ASSUME TypeOK, Held, [Next]_vars PROVE Kept
    OBVIOUS
  <2> USE DEF TypeOK, Held
  <2>1. ASSUME NEW a \in Attempts, Attempt(a) PROVE Kept
    <3>1. ASSUME NEW h \in Payloads, Receive(a, h) PROVE Kept
      BY <3>1 DEF Receive
    <3>2. CASE BeginRead(a)
      BY <3>2 DEF BeginRead, BeginResult
    <3>3. CASE Claim(a)
      BY <3>3 DEF Claim
    <3>4. CASE Handle(a)
      BY <3>4 DEF Handle
    <3>5. CASE HandlerThrows(a)
      BY <3>5 DEF HandlerThrows
    <3>6. CASE CommitRead(a)
      BY <3>6 DEF CommitRead
    <3>7. CASE CommitWrite(a)
      BY <3>7 DEF CommitWrite
    <3>8. CASE FailRead(a)
      BY <3>8 DEF FailRead
    <3>9. CASE FailDelete(a)
      BY <3>9 DEF FailDelete
    <3>10. CASE RedisFails(a)
      <4>1. CASE Reply(a, NoResponse) /\ KeepRecord /\ UNCHANGED <<effects, lapsed>>
                    /\ pc[a] \in {"read", "claim", "reread", "failRead", "failDelete"}
        BY <4>1
      <4>2. CASE /\ pc[a] = "claim" /\ rec.status = "none"
                 /\ Write(Pending(payload[a]), a) /\ Reply(a, NoResponse)
                 /\ UNCHANGED <<effects, lapsed>>
        BY <4>2
      <4>3. CASE /\ pc[a] = "failDelete" /\ Write(Absent, NoAttempt)
                 /\ Reply(a, NoResponse) /\ UNCHANGED <<effects, lapsed>>
        BY <4>3
      <4>4. CASE /\ Unrecorded(a) /\ Goto(a, "failRead") /\ KeepRecord
                 /\ LapseIf(TRUE) /\ UNCHANGED effects
        BY <4>4
      <4>5. CASE /\ pc[a] = "commitWrite" /\ Write(Committed(payload[a], a), NoAttempt)
                 /\ Goto(a, "failRead") /\ UNCHANGED <<effects, lapsed>>
        BY <4>5
      <4>6. QED
        BY <3>10, <4>1, <4>2, <4>3, <4>4, <4>5 DEF RedisFails
    <3>11. CASE Crash(a)
      BY <3>11 DEF Crash
    <3>12. QED
      BY <2>1, <3>1, <3>2, <3>3, <3>4, <3>5, <3>6, <3>7, <3>8, <3>9, <3>10,
         <3>11 DEF Attempt, Intercept
  <2>2. CASE ExpirePending
    BY <2>2 DEF ExpirePending
  <2>3. CASE ExpireCommitted
    BY <2>3 DEF ExpireCommitted
  <2>4. CASE UNCHANGED vars
    BY <2>4 DEF vars
  <2>5. QED
    BY <2>1, <2>2, <2>3, <2>4 DEF Next, Attempt
<1>2. QED
  BY <1>1, TypeCorrect, OneEffect, PTL DEF Spec, RecordedStays

\* The interceptor, the service and the Redis record implement the promise of
\* AtMostOnce: each of their steps is one of its steps or changes nothing in it.
THEOREM PromiseIsKept == Spec => PromiseKept
<1> USE NullsAssumption DEF Steps, localVars, Absent, Pending, Committed, Goto, Reply,
        Write, KeepRecord, LapseIf, Owning, Unrecorded
<1> USE DEF Promise!vars
<1>1. Init => Promise!Init
  BY DEF Init, Promise!Init
<1>2. TypeOK /\ Recorded /\ Held /\ Recorded' /\ [Next]_vars => [Promise!Next]_(Promise!vars)
  <2> SUFFICES ASSUME TypeOK, Recorded, Held, Recorded', [Next]_vars
               PROVE  Promise!Next \/ UNCHANGED Promise!vars
    OBVIOUS
  <2> USE DEF TypeOK
  <2>1. ASSUME NEW a \in Attempts, Attempt(a) PROVE Promise!Next \/ UNCHANGED Promise!vars
    <3>1. ASSUME NEW h \in Payloads, Receive(a, h) PROVE Promise!Next \/ UNCHANGED Promise!vars
      BY <3>1 DEF Receive, Promise!Next, Promise!Ask, Recorded
    <3>2. CASE BeginRead(a)
      BY <3>2 DEF BeginRead, BeginResult, Promise!Next, Promise!Answer, Recorded,
         AnswersMatch
    <3>3. CASE Claim(a)
      BY <3>3 DEF Claim, Promise!Next, Promise!Answer, Recorded, AnswersMatch
    <3>4. CASE Handle(a)
      BY <3>4 DEF Handle, Promise!Next, Promise!TakeEffect, Recorded, Held
    <3>5. CASE HandlerThrows(a)
      BY <3>5 DEF HandlerThrows, Promise!Next, Promise!Answer, Recorded, AnswersMatch
    <3>6. CASE CommitRead(a)
      BY <3>6 DEF CommitRead, Promise!Next, Promise!Answer, Recorded, AnswersMatch
    <3>7. CASE CommitWrite(a)
      BY <3>7 DEF CommitWrite, Promise!Next, Promise!Answer, Recorded, AnswersMatch
    <3>8. CASE FailRead(a)
      BY <3>8 DEF FailRead, Promise!Next, Promise!Answer, Recorded, AnswersMatch
    <3>9. CASE FailDelete(a)
      BY <3>9 DEF FailDelete, Promise!Next, Promise!Answer, Recorded, AnswersMatch
    <3>10. CASE RedisFails(a)
      <4>1. CASE Reply(a, NoResponse) /\ KeepRecord /\ UNCHANGED <<effects, lapsed>>
                    /\ pc[a] \in {"read", "claim", "reread", "failRead", "failDelete"}
        BY <4>1 DEF Promise!Next, Promise!Lapse, Recorded
      <4>2. CASE /\ pc[a] = "claim" /\ rec.status = "none"
                 /\ Write(Pending(payload[a]), a) /\ Reply(a, NoResponse)
                 /\ UNCHANGED <<effects, lapsed>>
        BY <4>2 DEF Promise!Next, Promise!Lapse, Recorded
      <4>3. CASE /\ pc[a] = "failDelete" /\ Write(Absent, NoAttempt)
                 /\ Reply(a, NoResponse) /\ UNCHANGED <<effects, lapsed>>
        BY <4>3 DEF Promise!Next, Promise!Lapse, Recorded
      <4>4. CASE /\ Unrecorded(a) /\ Goto(a, "failRead") /\ KeepRecord
                 /\ LapseIf(TRUE) /\ UNCHANGED effects
        BY <4>4 DEF Promise!Next, Promise!Lapse, Recorded
      <4>5. CASE /\ pc[a] = "commitWrite" /\ Write(Committed(payload[a], a), NoAttempt)
                 /\ Goto(a, "failRead") /\ UNCHANGED <<effects, lapsed>>
        BY <4>5 DEF Promise!Next, Promise!Lapse, Recorded
      <4>6. QED
        BY <3>10, <4>1, <4>2, <4>3, <4>4, <4>5 DEF RedisFails
    <3>11. CASE Crash(a)
      BY <3>11 DEF Crash, Promise!Next, Promise!Lapse, Recorded
    <3>12. QED
      BY <2>1, <3>1, <3>2, <3>3, <3>4, <3>5, <3>6, <3>7, <3>8, <3>9, <3>10,
         <3>11 DEF Attempt, Intercept
  <2>2. CASE ExpirePending
    BY <2>2 DEF ExpirePending, Promise!Next, Promise!Lapse
  <2>3. CASE ExpireCommitted
    BY <2>3 DEF ExpireCommitted, Promise!Next, Promise!Lapse
  <2>4. CASE UNCHANGED vars
    BY <2>4 DEF vars
  <2>5. QED
    BY <2>1, <2>2, <2>3, <2>4 DEF Next, Attempt
<1>3. QED
  BY <1>1, <1>2, TypeCorrect, AnswersAlwaysMatch, OneEffect, PTL DEF Spec, PromiseKept,
     Promise!Spec

\* Until the key lapses the clients that are answered are all answered the same,
\* and asked for the same: a key used for two payloads answers one of them.
OneAnswer ==
  ~lapsed => \A a, b \in Attempts :
    reply[a] # NoResponse /\ reply[b] # NoResponse =>
      reply[a] = reply[b] /\ payload[a] = payload[b]
THEOREM OneAnswerForAll == Spec => []OneAnswer
<1>1. OneEffectUnlessLapsed /\ AnswersMatch => OneAnswer
  BY DEF OneEffectUnlessLapsed, AnswersMatch, OneAnswer
<1>2. QED
  BY <1>1, AnswersAlwaysMatch, OneEffect, PTL

\* An attempt that took effect is on its way to its client with its own response,
\* or the client has it.
OwnAnswer ==
  \A w \in effects : Unrecorded(w) \/ (pc[w] = "done" /\ reply[w] = w)

\* When no server stops and Redis answers, the client whose request took effect
\* gets the response of that effect, whatever the other attempts with the key do
\* and whether or not the record is there to replay it.
THEOREM EffectIsAnswered ==
  ASSUME "redis" \notin Faults, "crash" \notin Faults
  PROVE  Spec => []OwnAnswer
<1> USE NullsAssumption DEF Steps, localVars, Goto, Reply, KeepRecord, Unrecorded
<1>1. Init => OwnAnswer
  BY DEF Init, OwnAnswer
<1>2. TypeOK /\ OwnAnswer /\ [Next]_vars => OwnAnswer'
  <2> SUFFICES ASSUME TypeOK, OwnAnswer, [Next]_vars PROVE OwnAnswer'
    OBVIOUS
  <2> USE DEF TypeOK, OwnAnswer
  <2>1. ASSUME NEW a \in Attempts, Attempt(a) PROVE OwnAnswer'
    <3>1. ASSUME NEW h \in Payloads, Receive(a, h) PROVE OwnAnswer'
      BY <3>1 DEF Receive
    <3>2. CASE BeginRead(a)
      BY <3>2 DEF BeginRead, BeginResult
    <3>3. CASE Claim(a)
      BY <3>3 DEF Claim
    <3>4. CASE Handle(a) \/ HandlerThrows(a)
      BY <3>4 DEF Handle, HandlerThrows
    <3>5. CASE CommitRead(a) \/ CommitWrite(a)
      BY <3>5 DEF CommitRead, CommitWrite
    <3>6. CASE FailRead(a) \/ FailDelete(a)
      BY <3>6 DEF FailRead, FailDelete
    <3>7. QED
      BY <2>1, <3>1, <3>2, <3>3, <3>4, <3>5, <3>6 DEF Attempt, Intercept, RedisFails, Crash
  <2>2. CASE ExpirePending \/ ExpireCommitted
    BY <2>2 DEF ExpirePending, ExpireCommitted
  <2>3. CASE UNCHANGED vars
    BY <2>3 DEF vars
  <2>4. QED
    BY <2>1, <2>2, <2>3 DEF Next, Attempt
<1>3. QED
  BY <1>1, <1>2, TypeCorrect, PTL DEF Spec

\* With no fault at all the promise has no condition: the handlers that outlive
\* their record, the losses and the records a day old are all the ways to lapse.
THEOREM FaultlessKeyHoldsOnce ==
  ASSUME Faults = {}
  PROVE  Spec => [](\A a, b \in effects : a = b)
<1>1. Init => ~lapsed
  BY DEF Init
<1>2. ~lapsed /\ [Next]_vars => ~lapsed'
  <2> SUFFICES ASSUME ~lapsed, [Next]_vars PROVE ~lapsed'
    OBVIOUS
  <2>1. ASSUME NEW a \in Attempts, Attempt(a) PROVE ~lapsed'
    BY <2>1 DEF Attempt, Receive, Intercept, BeginRead, Claim, Handle, HandlerThrows,
       CommitRead, CommitWrite, FailRead, FailDelete, RedisFails, Crash
  <2>2. CASE ExpirePending \/ ExpireCommitted
    BY <2>2 DEF ExpirePending, ExpireCommitted, LapseIf
  <2>3. CASE UNCHANGED vars
    BY <2>3 DEF vars
  <2>4. QED
    BY <2>1, <2>2, <2>3 DEF Next, Attempt
<1>3. OneEffectUnlessLapsed /\ ~lapsed => \A a, b \in effects : a = b
  BY DEF OneEffectUnlessLapsed
<1>4. QED
  BY <1>1, <1>2, <1>3, OneEffect, PTL DEF Spec
=============================================================================
