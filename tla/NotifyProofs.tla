---------------------------- MODULE NotifyProofs ----------------------------
(* Theorems of Notify, for any calls, jobs, attempts, bounds and faults. *)
EXTENDS Notify, TLAPS

\* What the state of a job says of the attempts begun.
Counted ==
  \A j \in Jobs :
    /\ job[j] = "none" => tries[j] = 0
    /\ job[j] = "waiting" => tries[j] < MaxTries
    /\ job[j] = "active" => tries[j] > 0

\* Types, and the count of attempts, are preserved.
LEMMA TypeStep == TypeOK /\ Counted /\ [Next]_vars => TypeOK' /\ Counted'
<1> SUFFICES ASSUME TypeOK, Counted, [Next]_vars PROVE TypeOK' /\ Counted'
  OBVIOUS
<1> USE BoundsAssumption, KindsAssumption
     DEF TypeOK, Counted, Jobs, Others, Execs, JobOf, callVars, queueVars, inboxVars, histVars
<1>1. ASSUME NEW c \in Calls, Route(c) PROVE TypeOK' /\ Counted'
  <2>1. CASE Reserve(c) BY <2>1 DEF Reserve
  <2>2. CASE ReserveBlind(c) BY <2>2 DEF ReserveBlind
  <2>3. CASE QueuePush(c) BY <2>3 DEF QueuePush, Queue
  <2>4. CASE CallEnds(c) BY <2>4 DEF CallEnds
  <2> QED BY <1>1, <2>1, <2>2, <2>3, <2>4 DEF Route
<1>2. ASSUME NEW j \in Jobs, QueueOther(j) \/ Take(j) \/ OthersFail(j) \/ JobDone(j)
      PROVE TypeOK' /\ Counted'
  <2>1. CASE QueueOther(j) BY <2>1 DEF QueueOther, Queue
  <2>2. CASE Take(j)
    <3>1. tries[j] + 1 \in 1..MaxTries BY <2>2 DEF Take
    <3>2. pc' \in [Execs -> {"idle"} \cup PushSteps \cup MailSteps]
      BY <2>2, <3>1 DEF Take, PushSteps, MailSteps
    <3>3. tries' \in [Jobs -> 0..MaxTries] BY <2>2, <3>1 DEF Take
    <3>4. Counted' BY <2>2, <3>1 DEF Take
    <3> QED BY <2>2, <3>2, <3>3, <3>4 DEF Take
  <2>3. CASE OthersFail(j)
    <3>1. <<j, tries[j]>> \in Execs BY <2>3 DEF OthersFail
    <3> QED BY <2>3, <3>1 DEF OthersFail, Retry
  <2>4. CASE JobDone(j) BY <2>4 DEF JobDone
  <2> QED BY <1>2, <2>1, <2>2, <2>3, <2>4
<1>3. ASSUME NEW e \in Execs, Process(e) PROVE TypeOK' /\ Counted'
  <2> USE DEF Goto, Finish, PushSteps, MailSteps
  <2>1. CASE Resolve(e) BY <2>1 DEF Resolve
  <2>2. CASE SendMail(e) BY <2>2 DEF SendMail
  <2>3. CASE CheckUser(e) BY <2>3 DEF CheckUser, Suppress, Skip
  <2>4. CASE Send(e) BY <2>4 DEF Send
  <2>5. CASE SendRefused(e) BY <2>5 DEF SendRefused
  <2>6. CASE Persist(e) BY <2>6 DEF Persist, Create
  <2>7. CASE Publish(e) BY <2>7 DEF Publish
  <2>8. CASE PublishNothing(e) BY <2>8 DEF PublishNothing
  <2> QED BY <1>3, <2>1, <2>2, <2>3, <2>4, <2>5, <2>6, <2>7, <2>8 DEF Process
<1>4. ASSUME NEW e \in Execs, Fail(e) PROVE TypeOK' /\ Counted'
  BY <1>4 DEF Fail, Retry, Current
<1>5. ASSUME NEW e \in Execs, ExpireDocument(e) PROVE TypeOK' /\ Counted'
  BY <1>5 DEF ExpireDocument
<1>6. ASSUME NEW f \in Surfaces, NEW D \in SUBSET stored, MarkRead(D, f)
      PROVE TypeOK' /\ Counted'
  BY <1>6 DEF MarkRead
<1>7. CASE MarkAsRead \/ MarkAllAsRead
  BY <1>6, <1>7 DEF MarkAsRead, MarkAllAsRead, Unread
<1>8. CASE DeleteAccount \/ RemoveRow BY <1>8 DEF DeleteAccount, RemoveRow
<1>9. CASE CleanUp \/ Reconcile BY <1>9 DEF CleanUp, Reconcile
<1>10. CASE UNCHANGED vars BY <1>10 DEF vars
<1> QED BY <1>1, <1>2, <1>3, <1>4, <1>5, <1>7, <1>8, <1>9, <1>10 DEF Next

\* The initial state is well typed.
LEMMA InitTypes == Init => TypeOK /\ Counted
<1> SUFFICES ASSUME Init PROVE TypeOK /\ Counted
  OBVIOUS
<1> USE BoundsAssumption DEF Init
<1>1. key \in BOOLEAN /\ account \in {"open"} /\ lapsed \in BOOLEAN
  OBVIOUS
<1>2. /\ call \in [Calls -> {"idle"}]
      /\ job \in [Jobs -> {"none"}]
      /\ pc \in [Execs -> {"idle"}]
      /\ tries \in [Jobs -> 0..MaxTries]
  OBVIOUS
<1>3. marks \in [Execs -> SUBSET Surfaces]
  OBVIOUS
<1>4. Counted
  BY DEF Counted
<1> QED BY <1>1, <1>2, <1>3, <1>4 DEF TypeOK

\* The state of the router, the queue, the processor and the inbox is of the types
\* TypeOK gives it: above all, no job is attempted more often than the queue allows.
THEOREM TypeCorrect == Spec => [](TypeOK /\ Counted)
<1> QED BY InitTypes, TypeStep, PTL DEF Spec

-----------------------------------------------------------------------------

\* An attempt that has not begun has done nothing.
Begun ==
  \A e \in Execs : e[2] > tries[e[1]] =>
    pc[e] = "idle" /\ e \notin created /\ e \notin pushed

\* What an attempt has done at each of its steps; what was announced is gone from
\* the inbox only when the account is closed, or when its time is up.
Staged ==
  /\ stored \subseteq created
  /\ told \subseteq created
  /\ quiet \subseteq created
  /\ told \cap quiet = {}
  /\ \A e \in Execs :
       /\ pc[e] \in (PushSteps \ {"publish"}) \cup MailSteps => e \notin created
       /\ pc[e] = "publish" => /\ e \in created /\ InApp(e)
                               /\ e \notin told /\ e \notin quiet
                               /\ account = "open" => e \in stored

Attempts == TypeOK /\ Counted /\ Begun /\ Staged

\* No step of an attempt, and nothing around it, disturbs that.
LEMMA StageStep == Attempts /\ [Next]_vars => Begun' /\ Staged'
<1> SUFFICES ASSUME Attempts, [Next]_vars PROVE Begun' /\ Staged'
  OBVIOUS
<1> USE BoundsAssumption, KindsAssumption
     DEF Attempts, TypeOK, Counted, Begun, Staged, Execs, JobOf, PushSteps, MailSteps,
         callVars, queueVars, inboxVars, histVars
<1>0. \A e \in Execs : e[1] \in Jobs /\ e[2] \in 1..MaxTries /\ e = <<e[1], e[2]>>
  OBVIOUS
<1>1. ASSUME NEW c \in Calls, Route(c) PROVE Begun' /\ Staged'
  <2>1. CASE Reserve(c) BY <2>1 DEF Reserve
  <2>2. CASE ReserveBlind(c) BY <2>2 DEF ReserveBlind
  <2>3. CASE QueuePush(c) BY <2>3 DEF QueuePush, Queue
  <2>4. CASE CallEnds(c) BY <2>4 DEF CallEnds
  <2> QED BY <1>1, <2>1, <2>2, <2>3, <2>4 DEF Route
<1>2. ASSUME NEW j \in Jobs, QueueOther(j) \/ Take(j) \/ OthersFail(j) \/ JobDone(j)
      PROVE Begun' /\ Staged'
  <2>1. CASE QueueOther(j) BY <2>1 DEF QueueOther, Queue
  <2>2. CASE Take(j)
    <3>1. tries[j] + 1 \in 1..MaxTries /\ tries' = [tries EXCEPT ![j] = tries[j] + 1]
      BY <2>2 DEF Take
    <3>2. <<j, tries[j] + 1>> \notin created /\ <<j, tries[j] + 1>> \in Execs
      BY <3>1
    <3>3. \A e \in Execs : pc'[e] \in {pc[e], "resolve", "check"} /\
            (e # <<j, tries[j] + 1>> => pc'[e] = pc[e])
      BY <2>2 DEF Take
    <3>4. Begun' BY <2>2, <3>1, <3>3, <1>0 DEF Take
    <3>5. Staged' BY <2>2, <3>2, <3>3 DEF Take, InApp
    <3> QED BY <3>4, <3>5
  <2>3. CASE OthersFail(j) BY <2>3 DEF OthersFail, Retry, InApp
  <2>4. CASE JobDone(j) BY <2>4 DEF JobDone, InApp
  <2> QED BY <1>2, <2>1, <2>2, <2>3, <2>4
<1>3. ASSUME NEW e \in Execs, Process(e) PROVE Begun' /\ Staged'
  <2> USE DEF Goto, Finish, InApp
  <2>1. CASE Resolve(e) BY <2>1 DEF Resolve
  <2>2. CASE SendMail(e) BY <2>2 DEF SendMail
  <2>3. CASE CheckUser(e) BY <2>3 DEF CheckUser, Suppress, Skip
  <2>4. CASE Send(e) BY <2>4 DEF Send
  <2>5. CASE SendRefused(e) BY <2>5 DEF SendRefused
  <2>6. CASE Persist(e) BY <2>6 DEF Persist, Create
  <2>7. CASE Publish(e) BY <2>7 DEF Publish
  <2>8. CASE PublishNothing(e) BY <2>8 DEF PublishNothing
  <2> QED BY <1>3, <2>1, <2>2, <2>3, <2>4, <2>5, <2>6, <2>7, <2>8 DEF Process
<1>4. ASSUME NEW e \in Execs, Fail(e) PROVE Begun' /\ Staged'
  BY <1>4 DEF Fail, Retry, InApp
<1>5. ASSUME NEW e \in Execs, ExpireDocument(e) PROVE Begun' /\ Staged'
  BY <1>5 DEF ExpireDocument, InApp
<1>6. CASE MarkAsRead \/ MarkAllAsRead
  BY <1>6 DEF MarkAsRead, MarkAllAsRead, MarkRead, InApp
<1>7. CASE DeleteAccount \/ RemoveRow BY <1>7 DEF DeleteAccount, RemoveRow, InApp
<1>8. CASE CleanUp \/ Reconcile BY <1>8 DEF CleanUp, Reconcile, Gone, InApp
<1>9. CASE UNCHANGED vars BY <1>9 DEF vars, InApp
<1> QED BY <1>1, <1>2, <1>3, <1>4, <1>5, <1>6, <1>7, <1>8, <1>9 DEF Next

\* What the attempts have done is known in every reachable state.
LEMMA AttemptsKnown == Spec => []Attempts
<1>1. Init => Begun /\ Staged
  BY DEF Init, Begun, Staged, PushSteps, MailSteps
<1>2. Attempts /\ [Next]_vars => Attempts'
  BY TypeStep, StageStep DEF Attempts
<1>3. TypeOK /\ Counted /\ Begun /\ Staged => Attempts
  BY DEF Attempts
<1>4. Init => Attempts
  BY <1>1, <1>3, InitTypes
<1> QED BY <1>2, <1>4, PTL DEF Spec

-----------------------------------------------------------------------------

\* Every step of the pipeline is a step of Inbox, or none.
LEMMA StepKeepsPromise == Attempts /\ [Next]_vars => [Promise!Next]_(Promise!vars)
<1> SUFFICES ASSUME Attempts, [Next]_vars PROVE [Promise!Next]_(Promise!vars)
  OBVIOUS
<1> USE DEF Promise!vars, callVars, queueVars, inboxVars, histVars
<1>0. TypeOK /\ Staged
  BY DEF Attempts
<1>1. ASSUME NEW c \in Calls, Route(c) PROVE UNCHANGED Promise!vars
  BY <1>1 DEF Route, Reserve, ReserveBlind, QueuePush, Queue, CallEnds
<1>2. ASSUME NEW j \in Jobs, QueueOther(j) \/ Take(j) \/ OthersFail(j) \/ JobDone(j)
      PROVE UNCHANGED Promise!vars
  BY <1>2 DEF QueueOther, Queue, Take, OthersFail, JobDone
<1>3. ASSUME NEW e \in Execs, Persist(e) PROVE [Promise!Next]_(Promise!vars)
  <2>1. CASE Ref[e] # NoRef /\ \E g \in stored : Ref[g] = Ref[e]
    BY <1>3, <2>1 DEF Persist
  <2>2. CASE ~(Ref[e] # NoRef /\ \E g \in stored : Ref[g] = Ref[e])
    <3>1. e \notin created
      BY <1>0, <1>3 DEF Staged, Persist, PushSteps
    <3>2. Promise!Deliver(e)
      BY <1>3, <2>2, <3>1 DEF Persist, Create, Promise!Deliver
    <3> QED BY <3>2 DEF Promise!Next
  <2> QED BY <2>1, <2>2
<1>4. ASSUME NEW e \in Execs, Publish(e) PROVE [Promise!Next]_(Promise!vars)
  <2>1. e \in created /\ e \notin told /\ (account # "open" \/ e \in stored)
    BY <1>0, <1>4 DEF Staged, Publish
  <2>2. Promise!Announce(e)
    BY <1>4, <2>1 DEF Publish, Promise!Announce
  <2> QED BY <2>2 DEF Promise!Next
<1>5. ASSUME NEW e \in Execs, Process(e) PROVE [Promise!Next]_(Promise!vars)
  <2>1. CASE \/ Resolve(e) \/ SendMail(e) \/ CheckUser(e) \/ Send(e) \/ SendRefused(e)
             \/ PublishNothing(e)
    BY <2>1 DEF Resolve, SendMail, CheckUser, Send, SendRefused, PublishNothing
  <2> QED BY <1>3, <1>4, <1>5, <2>1 DEF Process
<1>6. ASSUME NEW e \in Execs, Fail(e) PROVE UNCHANGED Promise!vars
  BY <1>6 DEF Fail
<1>7. ASSUME NEW e \in Execs, ExpireDocument(e) PROVE [Promise!Next]_(Promise!vars)
  <2>1. Promise!Expire(e)
    BY <1>7 DEF ExpireDocument, Promise!Expire
  <2> QED BY <2>1 DEF Promise!Next
<1>8. ASSUME NEW f \in Surfaces, NEW D \in SUBSET stored, MarkRead(D, f)
      PROVE [Promise!Next]_(Promise!vars)
  <2>1. Promise!Read(D, f)
    BY <1>8 DEF MarkRead, Promise!Read
  <2> QED BY <2>1 DEF Promise!Next
<1>9. CASE MarkAsRead
  BY <1>8, <1>9 DEF MarkAsRead, Unread
<1>10. CASE MarkAllAsRead
  BY <1>8, <1>10 DEF MarkAllAsRead, Unread
<1>11. CASE DeleteAccount \/ RemoveRow
  BY <1>11 DEF DeleteAccount, RemoveRow, Promise!Close, Promise!Next
<1>12. CASE CleanUp \/ Reconcile
  BY <1>12 DEF CleanUp, Reconcile, Gone, Promise!Empty, Promise!Next
<1>13. CASE UNCHANGED vars
  BY <1>13 DEF vars
<1> QED
  BY <1>1, <1>2, <1>5, <1>6, <1>7, <1>9, <1>10, <1>11, <1>12, <1>13 DEF Next

\* The whole pipeline, with its retries, overtaken batches, expired keys and
\* documents, implements the abstract inbox: no two documents with one externalRef
\* are there together, none is announced twice or after it is gone from an open
\* account, and no read mark is taken back.
THEOREM PromiseIsKept == Spec => InboxPromise
<1>1. Init => Promise!Init
  BY DEF Init, Promise!Init
<1> QED BY <1>1, AttemptsKnown, StepKeepsPromise, PTL DEF Spec, InboxPromise, Promise!Spec

-----------------------------------------------------------------------------

\* No step leaves a stored document unannounced, except those accounted for.
LEMMA AnnouncedStep ==
  Attempts /\ AnnouncedByItsAttempt /\ [Next]_vars => AnnouncedByItsAttempt'
<1> SUFFICES ASSUME Attempts, AnnouncedByItsAttempt, [Next]_vars
             PROVE AnnouncedByItsAttempt'
  OBVIOUS
<1>0. Staged' /\ TypeOK /\ Begun /\ Staged /\ Counted
  BY StageStep DEF Attempts
<1>a. (told \subseteq created \ quiet)'
  BY <1>0 DEF Staged
<1> DEFINE Told(e) == InApp(e) /\ pc[e] # "publish" => e \in told
<1> SUFFICES ASSUME NEW e \in Execs, (e \in created \ (quiet \cup cut))' PROVE Told(e)'
  BY <1>a, TypeStep DEF Attempts, AnnouncedByItsAttempt, TypeOK
<1> USE DEF callVars, queueVars, inboxVars, histVars, InApp
<1>b. e \in created /\ e \notin quiet /\ e \notin cut => Told(e)
  BY DEF AnnouncedByItsAttempt
<1>1. ASSUME NEW c \in Calls, Route(c) PROVE Told(e)'
  BY <1>1, <1>b DEF Route, Reserve, ReserveBlind, QueuePush, Queue, CallEnds
<1>2. ASSUME NEW j \in Jobs, QueueOther(j) \/ Take(j) \/ OthersFail(j) \/ JobDone(j)
      PROVE Told(e)'
  <2>1. CASE Take(j)
    <3>1. <<j, tries[j] + 1>> \notin created
      BY <1>0, <2>1, BoundsAssumption DEF Begun, TypeOK, Take, Execs, Counted
    <3> QED BY <1>0, <1>b, <2>1, <3>1 DEF Take, TypeOK
  <2> QED BY <1>2, <1>b, <2>1 DEF QueueOther, Queue, OthersFail, JobDone
<1>3. ASSUME NEW g \in Execs, Process(g) PROVE Told(e)'
  <2> USE <1>0, <1>b DEF TypeOK, Staged, Goto, Finish, PushSteps, MailSteps
  <2>1. CASE Resolve(g) BY <2>1 DEF Resolve
  <2>2. CASE SendMail(g) BY <2>2 DEF SendMail
  <2>3. CASE CheckUser(g) BY <2>3 DEF CheckUser, Suppress, Skip
  <2>4. CASE Send(g) BY <2>4 DEF Send
  <2>5. CASE SendRefused(g) BY <2>5 DEF SendRefused
  <2>6. CASE Persist(g) BY <2>6 DEF Persist, Create
  <2>7. CASE Publish(g) BY <2>7 DEF Publish
  <2>8. CASE PublishNothing(g) BY <2>8 DEF PublishNothing
  <2> QED BY <1>3, <2>1, <2>2, <2>3, <2>4, <2>5, <2>6, <2>7, <2>8 DEF Process
<1>4. ASSUME NEW g \in Execs, Fail(g) PROVE Told(e)'
  BY <1>0, <1>4, <1>b DEF Fail, TypeOK
<1>5. ASSUME NEW g \in Execs, ExpireDocument(g) PROVE Told(e)'
  BY <1>5, <1>b DEF ExpireDocument
<1>6. CASE MarkAsRead \/ MarkAllAsRead
  BY <1>6, <1>b DEF MarkAsRead, MarkAllAsRead, MarkRead
<1>7. CASE DeleteAccount \/ CleanUp \/ RemoveRow \/ Reconcile \/ UNCHANGED vars
  BY <1>7, <1>b DEF DeleteAccount, CleanUp, RemoveRow, Reconcile, vars
<1> QED BY <1>1, <1>2, <1>3, <1>4, <1>5, <1>6, <1>7 DEF Next

\* Only the attempt that stored a document announces it, and of those that were not
\* cut off, whose push was not skipped and whose process had its sockets each has,
\* however many retries a job takes and whatever becomes of the rest of its batch.
THEOREM AnnouncementsMatch == Spec => []AnnouncedByItsAttempt
<1>1. Init => AnnouncedByItsAttempt
  BY DEF Init, AnnouncedByItsAttempt
<1> QED BY <1>1, AttemptsKnown, AnnouncedStep, PTL DEF Spec

-----------------------------------------------------------------------------

\* The calls that hold the dedupe key, or have queued the push.
Won(c) == call[c] = "reserved" \/ job[c] # "none"

\* Unless it lapsed, one call at most holds the key; a job of a call begins an
\* attempt only after those before it were cut off.
KeyHeld ==
  /\ \A c \in Calls : job[c] # "none" => call[c] = "over"
  /\ ~lapsed => \A c \in Calls : call[c] # "idle" => key
  /\ ~lapsed => \A c, d \in Calls : Won(c) /\ Won(d) => c = d
  /\ \A c \in Calls, t \in 1..MaxTries :
       t < tries[c] \/ (t = tries[c] /\ job[c] = "waiting") => <<c, t>> \in cut

\* No step takes the key from the call that holds it.
LEMMA KeyStep == Attempts /\ KeyHeld /\ [Next]_vars => KeyHeld'
<1> SUFFICES ASSUME Attempts, KeyHeld, [Next]_vars PROVE KeyHeld'
  OBVIOUS
<1>0. TypeOK /\ Counted
  BY DEF Attempts
<1>a. \A m, n \in Nat : m < n + 1 => m < n \/ m = n
  OBVIOUS
<1> USE <1>0, BoundsAssumption, KindsAssumption
     DEF KeyHeld, Won, TypeOK, Execs, Jobs, JobOf, callVars, queueVars, inboxVars, histVars
<1>1. ASSUME NEW c \in Calls, Route(c) PROVE KeyHeld'
  <2>1. CASE Reserve(c) BY <2>1 DEF Reserve
  <2>2. CASE ReserveBlind(c) BY <2>2 DEF ReserveBlind
  <2>3. CASE QueuePush(c) BY <2>3 DEF QueuePush, Queue, Counted
  <2>4. CASE CallEnds(c) BY <2>4 DEF CallEnds
  <2> QED BY <1>1, <2>1, <2>2, <2>3, <2>4 DEF Route
<1>2. ASSUME NEW j \in Jobs, QueueOther(j) \/ Take(j) \/ OthersFail(j) \/ JobDone(j)
      PROVE KeyHeld'
  <2>1. CASE QueueOther(j) BY <2>1 DEF QueueOther, Queue, Others
  <2>2. CASE Take(j)
    <3>1. tries' = [tries EXCEPT ![j] = tries[j] + 1] /\ job' = [job EXCEPT ![j] = "active"]
      BY <2>2 DEF Take
    <3>2. UNCHANGED <<call, key, lapsed, cut>> /\ job[j] = "waiting"
      BY <2>2 DEF Take
    <3>3. ASSUME NEW c \in Calls PROVE job'[c] # "none" <=> job[c] # "none"
      <4>1. CASE c = j BY <3>1, <3>2, <4>1
      <4>2. CASE c # j BY <3>1, <4>2
      <4> QED BY <4>1, <4>2
    <3>4. \A c \in Calls, t \in 1..MaxTries :
            t < tries'[c] \/ (t = tries'[c] /\ job'[c] = "waiting") => <<c, t>> \in cut
      <4> SUFFICES ASSUME NEW c \in Calls, NEW t \in 1..MaxTries,
                          t < tries'[c] \/ (t = tries'[c] /\ job'[c] = "waiting")
                   PROVE <<c, t>> \in cut
        OBVIOUS
      <4>1. CASE c = j
        <5>1. t < tries[j] + 1 /\ t \in Nat /\ tries[j] \in Nat
          BY <3>1, <4>1
        <5>2. t < tries[j] \/ t = tries[j]
          BY <1>a, <5>1
        <5> QED BY <3>2, <4>1, <5>2
      <4>2. CASE c # j BY <3>1, <4>2
      <4> QED BY <4>1, <4>2
    <3>5. ~lapsed' => \A c, d \in Calls : Won(c)' /\ Won(d)' => c = d
      BY <3>2, <3>3
    <3>6. \A c \in Calls : job'[c] # "none" => call'[c] = "over"
      BY <3>2, <3>3
    <3>7. ~lapsed' => \A c \in Calls : call'[c] # "idle" => key'
      BY <3>2
    <3> QED BY <3>2, <3>4, <3>5, <3>6, <3>7
  <2>3. CASE OthersFail(j)
    <3>1. j \notin Calls BY <2>3 DEF OthersFail, Shared, Others
    <3> QED BY <2>3, <3>1 DEF OthersFail, Retry
  <2>4. CASE JobDone(j) BY <2>4 DEF JobDone
  <2> QED BY <1>2, <2>1, <2>2, <2>3, <2>4
<1>3. ASSUME NEW e \in Execs, Process(e) PROVE KeyHeld'
  <2>1. UNCHANGED <<callVars, tries, cut, lapsed>>
    BY <1>3 DEF Process, Resolve, SendMail, CheckUser, Suppress, Skip, Send, SendRefused,
                Persist, Create, Publish, PublishNothing, Goto, Finish
  <2>2. job' = job \/ (Current(e) /\ job' = [job EXCEPT ![e[1]] = "done"])
    BY <1>3 DEF Process, Resolve, SendMail, CheckUser, Suppress, Skip, Send, SendRefused,
                Persist, Create, Publish, PublishNothing, Goto, Finish
  <2> QED BY <2>1, <2>2 DEF Current
<1>4. ASSUME NEW e \in Execs, Fail(e) PROVE KeyHeld'
  <2>1. e = <<e[1], e[2]>> /\ e[1] \in Jobs /\ e[2] \in 1..MaxTries
    OBVIOUS
  <2>2. CASE Current(e)
    BY <1>4, <2>1, <2>2 DEF Fail, Retry, Current
  <2>3. CASE ~Current(e)
    BY <1>4, <2>3 DEF Fail
  <2> QED BY <2>2, <2>3
<1>5. ASSUME NEW e \in Execs, ExpireDocument(e) PROVE KeyHeld'
  BY <1>5 DEF ExpireDocument
<1>6. CASE MarkAsRead \/ MarkAllAsRead
  BY <1>6 DEF MarkAsRead, MarkAllAsRead, MarkRead
<1>7. CASE DeleteAccount \/ CleanUp \/ RemoveRow \/ Reconcile \/ UNCHANGED vars
  BY <1>7 DEF DeleteAccount, CleanUp, RemoveRow, Reconcile, vars
<1> QED BY <1>1, <1>2, <1>3, <1>4, <1>5, <1>6, <1>7 DEF Next

\* Two pushes of the event by attempts that were not cut off are one push.
LEMMA OnePush == Attempts /\ KeyHeld => OnePushPerEvent
<1> SUFFICES ASSUME Attempts, KeyHeld, ~lapsed,
                    NEW e \in pushed, NEW g \in pushed,
                    Ref[e] = "event", Ref[g] = "event", e \notin cut, g \notin cut
             PROVE e = g
  BY DEF OnePushPerEvent
<1>1. ASSUME NEW x \in pushed, Ref[x] = "event", x \notin cut
      PROVE x[1] \in Calls /\ Won(x[1]) /\ x = <<x[1], tries[x[1]]>>
  <2>1. x \in Execs /\ x[1] \in Jobs /\ x[2] \in 1..MaxTries /\ x = <<x[1], x[2]>>
    BY DEF Attempts, TypeOK, Execs
  <2>2. x[1] \in Calls
    BY <1>1, <2>1, KindsAssumption DEF Ref, RefOf, JobOf, Jobs
  <2>3. x[2] <= tries[x[1]] /\ tries[x[1]] \in 0..MaxTries
    BY <2>1, BoundsAssumption DEF Attempts, Begun, TypeOK
  <2>4. x[2] = tries[x[1]]
    BY <1>1, <2>1, <2>2, <2>3, BoundsAssumption DEF KeyHeld
  <2>5. job[x[1]] # "none"
    BY <2>1, <2>4, BoundsAssumption DEF Attempts, Counted
  <2> QED BY <2>1, <2>2, <2>4, <2>5 DEF Won
<1> QED BY <1>1 DEF KeyHeld

\* The dedupe key and the queue together: however often an event is routed and
\* retried, it is pushed once by the attempts that came through, as long as the
\* key was neither lost nor passed by.
THEOREM PushedOnce == Spec => []OnePushPerEvent
<1>1. Init => KeyHeld
  BY BoundsAssumption DEF Init, KeyHeld, Won, Jobs
<1> QED BY <1>1, AttemptsKnown, KeyStep, OnePush, PTL DEF Spec

\* Until the key lapses every push of the event is of one call's job: the calls that
\* repeat it push nothing, and what is pushed twice is a retry.
OneJobPushes ==
  ~lapsed => \A e, g \in pushed : Ref[e] = "event" /\ Ref[g] = "event" => JobOf(e) = JobOf(g)
THEOREM RepeatsPushNothing == Spec => []OneJobPushes
<1>1. Init => KeyHeld
  BY BoundsAssumption DEF Init, KeyHeld, Won, Jobs
<1>2. Attempts /\ KeyHeld => OneJobPushes
  <2> SUFFICES ASSUME Attempts, KeyHeld, ~lapsed,
                      NEW e \in pushed, NEW g \in pushed,
                      Ref[e] = "event", Ref[g] = "event"
               PROVE JobOf(e) = JobOf(g)
    BY DEF OneJobPushes
  <2>1. ASSUME NEW x \in pushed, Ref[x] = "event" PROVE x[1] \in Calls /\ Won(x[1])
    <3>1. x \in Execs /\ x[1] \in Jobs /\ x[2] \in 1..MaxTries
      BY DEF Attempts, TypeOK, Execs
    <3>2. x[1] \in Calls
      BY <2>1, <3>1, KindsAssumption DEF Ref, RefOf, JobOf, Jobs
    <3>3. x[2] <= tries[x[1]] /\ tries[x[1]] \in 0..MaxTries
      BY <3>1, BoundsAssumption DEF Attempts, Begun, TypeOK
    <3>4. job[x[1]] # "none"
      BY <3>1, <3>3, BoundsAssumption DEF Attempts, Counted
    <3> QED BY <3>2, <3>4 DEF Won
  <2> QED BY <2>1 DEF KeyHeld, JobOf
<1> QED BY <1>1, <1>2, AttemptsKnown, KeyStep, PTL DEF Spec

\* With no fault an event is pushed once, with no condition: losing or passing by
\* the key and cutting attempts off are all the ways to a second push.
THEOREM FaultlessEventPushedOnce ==
  ASSUME Faults = {}
  PROVE  Spec => [](\A e, g \in pushed : Ref[e] = "event" /\ Ref[g] = "event" => e = g)
<1> DEFINE Sound == ~lapsed /\ cut = {}
<1> USE DEF callVars, queueVars, inboxVars, histVars
<1>1. Init => Sound
  BY DEF Init
<1>2. Sound /\ [Next]_vars => Sound'
  <2> SUFFICES ASSUME Sound, [Next]_vars PROVE Sound'
    OBVIOUS
  <2>1. ASSUME NEW c \in Calls, Route(c) PROVE Sound'
    BY <2>1 DEF Route, Reserve, ReserveBlind, QueuePush, Queue, CallEnds
  <2>2. ASSUME NEW j \in Jobs, QueueOther(j) \/ Take(j) \/ OthersFail(j) \/ JobDone(j)
        PROVE Sound'
    BY <2>2 DEF QueueOther, Queue, Take, OthersFail, JobDone
  <2>3. ASSUME NEW e \in Execs, Process(e) PROVE Sound'
    BY <2>3 DEF Process, Resolve, SendMail, CheckUser, Send, SendRefused, Persist, Create,
       Publish, PublishNothing
  <2>4. ASSUME NEW e \in Execs, Fail(e) \/ ExpireDocument(e) PROVE Sound'
    BY <2>4 DEF Fail, ExpireDocument
  <2>5. CASE MarkAsRead \/ MarkAllAsRead
    BY <2>5 DEF MarkAsRead, MarkAllAsRead, MarkRead
  <2>7. CASE DeleteAccount \/ CleanUp \/ RemoveRow \/ Reconcile
    BY <2>7 DEF DeleteAccount, CleanUp, RemoveRow, Reconcile
  <2>6. CASE UNCHANGED vars
    BY <2>6 DEF vars
  <2> QED BY <2>1, <2>2, <2>3, <2>4, <2>5, <2>6, <2>7 DEF Next
<1>3. OnePushPerEvent /\ Sound =>
        \A e, g \in pushed : Ref[e] = "event" /\ Ref[g] = "event" => e = g
  BY DEF OnePushPerEvent
<1> QED BY <1>1, <1>2, <1>3, PushedOnce, PTL DEF Spec

-----------------------------------------------------------------------------

\* No two documents with one externalRef are in the inbox together, though the job
\* that stores them is retried, overtaken and repeated: what the unique index of
\* Inbox comes to, said of the states.
OneDocumentPerRef == \A e, g \in stored : Ref[e] = Ref[g] /\ Ref[e] # NoRef => e = g
THEOREM DocumentsAreUnique == Spec => []OneDocumentPerRef
<1> USE DEF callVars, queueVars, inboxVars, histVars
<1>1. Init => OneDocumentPerRef
  BY DEF Init, OneDocumentPerRef
<1>2. OneDocumentPerRef /\ [Next]_vars => OneDocumentPerRef'
  <2> SUFFICES ASSUME OneDocumentPerRef, [Next]_vars PROVE OneDocumentPerRef'
    OBVIOUS
  <2> USE DEF OneDocumentPerRef
  <2>1. CASE stored' \subseteq stored
    BY <2>1
  <2>2. ASSUME NEW e \in Execs, Persist(e) PROVE OneDocumentPerRef'
    BY <2>2 DEF Persist, Create
  <2>3. ASSUME NEW e \in Execs, Process(e) PROVE OneDocumentPerRef'
    BY <2>1, <2>2, <2>3 DEF Process, Resolve, SendMail, CheckUser, Send, SendRefused, Publish,
       PublishNothing
  <2>4. ASSUME NEW c \in Calls, Route(c) PROVE OneDocumentPerRef'
    BY <2>1, <2>4 DEF Route, Reserve, ReserveBlind, QueuePush, Queue, CallEnds
  <2>5. ASSUME NEW j \in Jobs, QueueOther(j) \/ Take(j) \/ OthersFail(j) \/ JobDone(j)
        PROVE OneDocumentPerRef'
    BY <2>1, <2>5 DEF QueueOther, Queue, Take, OthersFail, JobDone
  <2>6. ASSUME NEW e \in Execs, Fail(e) \/ ExpireDocument(e) PROVE OneDocumentPerRef'
    BY <2>1, <2>6 DEF Fail, ExpireDocument
  <2>7. CASE MarkAsRead \/ MarkAllAsRead \/ UNCHANGED vars
    BY <2>1, <2>7 DEF MarkAsRead, MarkAllAsRead, MarkRead, vars
  <2>8. CASE DeleteAccount \/ CleanUp \/ RemoveRow \/ Reconcile
    BY <2>1, <2>8 DEF DeleteAccount, CleanUp, RemoveRow, Reconcile
  <2> QED BY <2>3, <2>4, <2>5, <2>6, <2>7, <2>8 DEF Next
<1> QED BY <1>1, <1>2, PTL DEF Spec

\* The row of the customer is gone, the inbox empty, and no attempt is past its test
\* of the row on the way to a push or a document.
Emptied ==
  Gone /\ stored = {} /\ \A e \in Execs : pc[e] \notin {"send", "persist", "persistSkip"}

\* Once the row is gone and the reconciler has emptied the inbox, it stays empty and
\* nothing is pushed any more, though jobs of the customer are still queued and
\* retried: what OrphansAreDeleted says must never happen again.  This is the test
\* of the row in processSendPush; an account only marked deleted has no such test,
\* and is pushed to and stored for as before.
PushesNothing == Emptied => pushed' = pushed
THEOREM EmptiedForGood == Spec => [](Emptied => []Emptied) /\ [][PushesNothing]_vars
<1> USE DEF callVars, queueVars, inboxVars, histVars
<1>1. TypeOK /\ Emptied /\ [Next]_vars => Emptied' /\ pushed' = pushed
  <2> SUFFICES ASSUME TypeOK, Emptied, [Next]_vars PROVE Emptied' /\ pushed' = pushed
    OBVIOUS
  <2> USE DEF TypeOK, Emptied, Gone, Goto, Finish
  <2>1. ASSUME NEW c \in Calls, Route(c) PROVE Emptied' /\ pushed' = pushed
    BY <2>1 DEF Route, Reserve, ReserveBlind, QueuePush, Queue, CallEnds
  <2>2. ASSUME NEW j \in Jobs, QueueOther(j) \/ Take(j) \/ OthersFail(j) \/ JobDone(j)
        PROVE Emptied' /\ pushed' = pushed
    <3>1. CASE Take(j) BY <3>1 DEF Take
    <3> QED BY <2>2, <3>1 DEF QueueOther, Queue, OthersFail, JobDone
  <2>3. ASSUME NEW e \in Execs, Process(e) PROVE Emptied' /\ pushed' = pushed
    <3>1. CASE Resolve(e) \/ SendMail(e) BY <3>1 DEF Resolve, SendMail
    <3>2. CASE CheckUser(e) BY <3>2 DEF CheckUser
    <3>3. CASE Publish(e) \/ PublishNothing(e) BY <3>3 DEF Publish, PublishNothing
    <3> QED BY <2>3, <3>1, <3>2, <3>3 DEF Process, Send, SendRefused, Persist
  <2>4. ASSUME NEW e \in Execs, Fail(e) \/ ExpireDocument(e)
        PROVE Emptied' /\ pushed' = pushed
    BY <2>4 DEF Fail, ExpireDocument
  <2>5. CASE MarkAsRead \/ MarkAllAsRead
    BY <2>5 DEF MarkAsRead, MarkAllAsRead, MarkRead
  <2>7. CASE DeleteAccount \/ CleanUp \/ RemoveRow \/ Reconcile
    BY <2>7 DEF DeleteAccount, CleanUp, RemoveRow, Reconcile
  <2>6. CASE UNCHANGED vars
    BY <2>6 DEF vars
  <2> QED BY <2>1, <2>2, <2>3, <2>4, <2>5, <2>6, <2>7 DEF Next
<1>2. TypeOK /\ [Next]_vars => [PushesNothing]_vars
  BY <1>1 DEF PushesNothing
<1>3. TypeOK /\ Emptied /\ [Next]_vars => Emptied'
  BY <1>1
<1> QED BY <1>2, <1>3, TypeCorrect, PTL DEF Spec
=============================================================================
