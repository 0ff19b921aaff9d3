---------------------------- MODULE Idempotency ----------------------------
(***************************************************************************)
(* One idempotency key: apps/api/src/common/idempotency.  The interceptor  *)
(* runs a handler between IdempotencyService.begin and commitSuccess or    *)
(* commitFailure; each Redis command is an action.  Keys of different      *)
(* actors, scopes or headers share nothing, so one key is modelled.        *)
(*                                                                         *)
(* The handler is external, and taken to be atomic: it takes effect and    *)
(* returns, or it throws and has had none.  Of a handler that throws half  *)
(* way nothing is said: commitFailure frees its key for a retry.  A        *)
(* response is named by the attempt whose handler built it.  A TTL is a    *)
(* nondeterministic expiry.                                                *)
(***************************************************************************)
EXTENDS Naturals, FiniteSets

CONSTANTS
  Attempts,   \* HTTP requests that carry the key, retries included
  Payloads,   \* request hashes
  Faults,     \* the faults the environment shows, out of FaultKinds
  NoPayload, NoResponse, NoAttempt

FaultKinds == {"slow", "redis", "crash", "day"}

ASSUME FaultsAssumption == Faults \subseteq FaultKinds
ASSUME NullsAssumption ==
  /\ NoPayload \notin Payloads
  /\ NoResponse \notin Attempts
  /\ NoAttempt \notin Attempts

VARIABLES
  rec,      \* the Redis record: status "none" when the key is absent
  pc,       \* where each attempt is in the interceptor
  payload,  \* payload[a]: RequestHashUtil.fromRequest of attempt a
  reply,    \* reply[a]: whose response a was sent, NoResponse for an error
  effects,  \* history: the attempts whose handler took effect
  holder,   \* history: the attempt that wrote the PENDING record
  lapsed    \* history: the key does not protect any more (see Lapse)

localVars == <<pc, payload, reply>>
vars == <<rec, localVars, effects, holder, lapsed>>

Steps == {"read", "claim", "reread", "handler", "commitRead", "commitWrite",
          "failRead", "failDelete"}

-----------------------------------------------------------------------------

Absent         == [status |-> "none", hash |-> NoPayload, resp |-> NoResponse]
Pending(h)     == [status |-> "PENDING", hash |-> h, resp |-> NoResponse]
Committed(h, a) == [status |-> "COMMITTED", hash |-> h, resp |-> a]

\* Attempt a was told NEW and has not left the interceptor.
Owning(a) == pc[a] \in {"handler", "commitRead", "commitWrite", "failRead", "failDelete"}

\* The effect of a is made but no record says so.
Unrecorded(a) == pc[a] \in {"commitRead", "commitWrite"}

Goto(a, l) == pc' = [pc EXCEPT ![a] = l] /\ UNCHANGED <<payload, reply>>

\* The client gets the response r, an error if r is NoResponse.
Reply(a, r) ==
  /\ pc' = [pc EXCEPT ![a] = "done"]
  /\ reply' = [reply EXCEPT ![a] = r]
  /\ UNCHANGED payload

Write(r, a) == rec' = r /\ holder' = a
KeepRecord == UNCHANGED <<rec, holder>>

\* What the history variables say of a step that gives the key's protection up.
LapseIf(c) == lapsed' = (lapsed \/ c)

-----------------------------------------------------------------------------

Init ==
  /\ rec = Absent
  /\ pc = [a \in Attempts |-> "idle"]
  /\ payload = [a \in Attempts |-> NoPayload]
  /\ reply = [a \in Attempts |-> NoResponse]
  /\ effects = {}
  /\ holder = NoAttempt
  /\ lapsed = FALSE

Receive(a, h) ==
  /\ pc[a] = "idle"
  /\ pc' = [pc EXCEPT ![a] = "read"]
  /\ payload' = [payload EXCEPT ![a] = h]
  /\ UNCHANGED <<rec, reply, effects, holder, lapsed>>

\* Mutation: the record is replayed whatever payload it was made for.
AnyBeginResult(a) ==
  Reply(a, IF rec.status = "COMMITTED" THEN rec.resp ELSE NoResponse)

\* toBeginResult: REPLAY, or 409 for CONFLICT and PENDING.
BeginResult(a) ==
  Reply(a, IF rec.status = "COMMITTED" /\ rec.hash = payload[a]
           THEN rec.resp ELSE NoResponse)

\* begin's GET, and the second one after a lost SET NX.
BeginRead(a) ==
  /\ pc[a] \in {"read", "reread"}
  /\ IF rec.status # "none" THEN BeginResult(a)
     ELSE IF pc[a] = "read" THEN Goto(a, "claim") ELSE Reply(a, NoResponse)
  /\ KeepRecord
  /\ UNCHANGED <<effects, lapsed>>

\* Mutation: SET without NX.
ClaimAlways(a) ==
  /\ pc[a] = "claim"
  /\ Write(Pending(payload[a]), a) /\ Goto(a, "handler")
  /\ UNCHANGED <<effects, lapsed>>

\* SET key PENDING EX 120 NX.
Claim(a) ==
  /\ pc[a] = "claim"
  /\ IF rec.status = "none"
     THEN Write(Pending(payload[a]), a) /\ Goto(a, "handler")
     ELSE KeepRecord /\ Goto(a, "reread")
  /\ UNCHANGED <<effects, lapsed>>

Handle(a) ==
  /\ pc[a] = "handler"
  /\ effects' = effects \cup {a}
  /\ Goto(a, "commitRead")
  /\ KeepRecord
  /\ UNCHANGED lapsed

HandlerThrows(a) ==
  /\ pc[a] = "handler"
  /\ Goto(a, "failRead")
  /\ KeepRecord
  /\ UNCHANGED <<effects, lapsed>>

\* commitSuccess: nothing is written over a record of another payload; a record
\* that is gone is written anew.
CommitRead(a) ==
  /\ pc[a] = "commitRead"
  /\ IF rec.status # "none" /\ rec.hash # payload[a]
     THEN Reply(a, a)
     ELSE Goto(a, "commitWrite")
  /\ KeepRecord
  /\ UNCHANGED <<effects, lapsed>>

\* Mutation: the record's payload and response are exchanged.
CommitWriteSwapped(a) ==
  /\ pc[a] = "commitWrite"
  /\ Write(Committed(a, payload[a]), NoAttempt)
  /\ Reply(a, a)
  /\ UNCHANGED <<effects, lapsed>>

\* Mutation: the response is written with NX, as the PENDING record is.
CommitWriteIfAbsent(a) ==
  /\ pc[a] = "commitWrite"
  /\ IF rec.status = "none" THEN Write(Committed(payload[a], a), NoAttempt) ELSE KeepRecord
  /\ Reply(a, a)
  /\ UNCHANGED <<effects, lapsed>>

CommitWrite(a) ==
  /\ pc[a] = "commitWrite"
  /\ Write(Committed(payload[a], a), NoAttempt)
  /\ Reply(a, a)
  /\ UNCHANGED <<effects, lapsed>>

\* Mutation: commitFailure does not look at the status of the record.
FailReadAnyStatus(a) ==
  /\ pc[a] = "failRead"
  /\ IF rec.status # "none" /\ rec.hash = payload[a]
     THEN Goto(a, "failDelete")
     ELSE Reply(a, NoResponse)
  /\ KeepRecord
  /\ UNCHANGED <<effects, lapsed>>

\* commitFailure compares the payload, never which attempt wrote the record.
FailRead(a) ==
  /\ pc[a] = "failRead"
  /\ IF rec.status = "PENDING" /\ rec.hash = payload[a]
     THEN Goto(a, "failDelete")
     ELSE Reply(a, NoResponse)
  /\ KeepRecord
  /\ UNCHANGED <<effects, lapsed>>

FailDelete(a) ==
  /\ pc[a] = "failDelete"
  /\ Write(Absent, NoAttempt)
  /\ Reply(a, NoResponse)
  /\ UNCHANGED <<effects, lapsed>>

-----------------------------------------------------------------------------
(* The environment.                                                        *)

\* A command fails, before or after Redis applied it.  An error of begin leaves
\* the interceptor; one of commitSuccess enters the same catchError as the
\* handler's, so commitFailure follows; one of commitFailure is swallowed.
RedisFails(a) ==
  /\ "redis" \in Faults
  /\ UNCHANGED effects
  /\ \/ /\ pc[a] \in {"read", "claim", "reread", "failRead", "failDelete"}
        /\ Reply(a, NoResponse)
        /\ KeepRecord
        /\ UNCHANGED lapsed
     \/ /\ pc[a] = "claim" /\ rec.status = "none"
        /\ Write(Pending(payload[a]), a)
        /\ Reply(a, NoResponse)
        /\ UNCHANGED lapsed
     \/ /\ pc[a] = "failDelete"
        /\ Write(Absent, NoAttempt)
        /\ Reply(a, NoResponse)
        /\ UNCHANGED lapsed
     \/ /\ Unrecorded(a)
        /\ Goto(a, "failRead")
        /\ KeepRecord
        /\ LapseIf(TRUE)
     \/ /\ pc[a] = "commitWrite"
        /\ Write(Committed(payload[a], a), NoAttempt)
        /\ Goto(a, "failRead")
        /\ UNCHANGED lapsed

\* The server that runs a is gone; the client gets no response.
Crash(a) ==
  /\ "crash" \in Faults
  /\ pc[a] \in Steps
  /\ LapseIf(Unrecorded(a))
  /\ Reply(a, NoResponse)
  /\ KeepRecord
  /\ UNCHANGED effects

\* The 120 seconds of a PENDING record pass; a "slow" handler can outlive them.
ExpirePending ==
  LET owned == \E a \in Attempts : holder = a /\ Owning(a)
  IN /\ rec.status = "PENDING"
     /\ owned => "slow" \in Faults
     /\ Write(Absent, NoAttempt)
     /\ LapseIf(owned)
     /\ UNCHANGED <<localVars, effects>>

\* The 24 hours of a COMMITTED record pass.
ExpireCommitted ==
  /\ "day" \in Faults
  /\ rec.status = "COMMITTED"
  /\ Write(Absent, NoAttempt)
  /\ LapseIf(TRUE)
  /\ UNCHANGED <<localVars, effects>>

-----------------------------------------------------------------------------

\* The statements of the interceptor, from begin to the answer.
Intercept(a) ==
  \/ BeginRead(a)
  \/ Claim(a)
  \/ Handle(a)
  \/ HandlerThrows(a)
  \/ CommitRead(a)
  \/ CommitWrite(a)
  \/ FailRead(a)
  \/ FailDelete(a)

Next ==
  \/ \E a \in Attempts : \/ \E h \in Payloads : Receive(a, h)
                         \/ Intercept(a)
                         \/ RedisFails(a)
                         \/ Crash(a)
  \/ ExpirePending
  \/ ExpireCommitted

Spec == Init /\ [][Next]_vars

-----------------------------------------------------------------------------

\* Type correctness of the record, the attempts and the history.
TypeOK ==
  /\ rec \in [status : {"none", "PENDING", "COMMITTED"},
              hash : Payloads \cup {NoPayload}, resp : Attempts \cup {NoResponse}]
  /\ pc \in [Attempts -> {"idle", "done"} \cup Steps]
  /\ payload \in [Attempts -> Payloads \cup {NoPayload}]
  /\ reply \in [Attempts -> Attempts \cup {NoResponse}]
  /\ effects \in SUBSET Attempts
  /\ holder \in Attempts \cup {NoAttempt}
  /\ lapsed \in BOOLEAN

\* However many clients retry with the key, at most one handler takes effect,
\* unless the key has lapsed: a handler outlived its PENDING record, an effect
\* could not be recorded (a crash, a failed commitSuccess), or a day passed.
OneEffectUnlessLapsed == ~lapsed => \A a, b \in effects : a = b

\* A client is only ever sent a response that was built for its own payload, by
\* a handler that took effect; lapsed or not.
AnswersMatch ==
  \A a \in Attempts : reply[a] # NoResponse =>
    reply[a] \in effects /\ payload[reply[a]] = payload[a]

\* The recorded response stays until its day is over: no late failure, and no
\* second commit, of another attempt deletes or replaces it.
RecordedStays ==
  [][rec.status = "COMMITTED" /\ ~lapsed' => rec' = rec]_vars

\* An effect is never forgotten: until the key lapses every effect is on record
\* with its payload and response, or is about to be while the key is still PENDING
\* for that payload.  So whatever attempts fail, lose the race for SET NX or are
\* told that a command failed which Redis applied, a retry never finds the key free.
EffectsStayKnown ==
  ~lapsed => \A a \in effects :
    /\ rec.hash = payload[a]
    /\ \/ rec.status = "COMMITTED" /\ rec.resp = a
       \/ rec.status = "PENDING" /\ holder = a /\ Unrecorded(a)

\* Seen from its clients the key implements the promise of AtMostOnce.
Promise == INSTANCE AtMostOnce WITH
  payload <- payload, effects <- effects, reply <- reply, lapsed <- lapsed
PromiseKept == Promise!Spec
=============================================================================
