----------------------- MODULE AccountDeletionProofs -----------------------
(***************************************************************************)
(* The safety of AccountDeletion, for any number of requests, any grace    *)
(* period and any number of attempts.                                      *)
(***************************************************************************)
EXTENDS AccountDeletion, TLAPS

\* One step on behalf of request p.
Step(p) ==
  \/ AskDeletion(p)
  \/ \E o \in {"ban", "soft"} : AskAdmin(p, o)
  \/ Request(p)
  \/ Abandon(p)

Deleting(p) == pc[p] \in {"job", "add", "ban", "purge"}

\* What holds whatever was given up: a job is asked for and leaves the days of
\* grace, and the worker only works on a job that is due.
Timely ==
  /\ job.state # "none" => asked # 0 /\ job.due >= asked + Grace
  /\ job.state = "active" <=> worker # "idle"
  /\ job.state = "active" => job.due <= day
  /\ asked <= day
  /\ \A p \in Requests : Deleting(p) => asked # 0
  /\ GraceIsGiven

\* While nothing was given up half-way: a request to delete that is in flight has
\* found, or queued, the job of its own day; past its ban the customer is banned;
\* a customer who is not banned has a job only through a request in flight.
Announced ==
  ~lapsed =>
    /\ \A p \in Requests : Deleting(p) =>
         deletedOn = 0 /\ (job.state # "none" => job.due = day + Grace)
    /\ \A p \in Requests : pc[p] \in {"ban", "purge"} => job.state # "none"
    /\ \A p \in Requests : pc[p] = "purge" => banned
    /\ job.state # "none" => banned \/ \E p \in Requests : pc[p] = "ban"
    /\ deletedOn # 0 \/ worker \in {"update", "clean"} => banned
    /\ worker = "clean" => deleted
    /\ \A p \in Requests : told[p] <= day + Grace
    /\ \A p \in Requests : job.state # "none" => told[p] <= job.due
    /\ NotBeforeAnnounced
    /\ NoLimbo

\* A request to delete is only followed where its job falls within the bound.
Fits == \A p \in Requests : Deleting(p) => day + Grace <= MaxDay
-----------------------------------------------------------------------------

\* The account, the job and the requests keep their types; no attempt exceeds
\* MaxAttempts and no job is due outside the days that count.
THEOREM TypeCorrect == Spec => []TypeOK
<1> USE DaysAssumption, MaxAttemptsAssumption
    DEF accountVars, requestVars, historyVars, Goto, NoJob, InFlight
<1>1. Init => TypeOK /\ Fits
  <2> SUFFICES ASSUME Init PROVE TypeOK /\ Fits
    OBVIOUS
  <2>1. job \in [state : {"none", "delayed", "active"}, due : 0..MaxDay,
                 tries : 0..(MaxAttempts - 1)]
    BY DEF Init
  <2>2. /\ banned \in BOOLEAN /\ deleted \in BOOLEAN /\ sessions \in BOOLEAN
        /\ notes \in BOOLEAN /\ lapsed \in BOOLEAN
    BY DEF Init
  <2>3. /\ pc \in [Requests -> {"new", "job", "add", "ban", "purge", "all", "done"}]
        /\ op \in [Requests -> {"none", "delete", "ban", "soft"}]
        /\ todo \in [Requests -> SUBSET {"update", "purge"}]
        /\ told \in [Requests -> 0..MaxDay]
    BY DEF Init
  <2>4. QED
    BY <2>1, <2>2, <2>3 DEF Init, TypeOK, Fits, Deleting
<1>2. TypeOK /\ Fits /\ [Next]_vars => TypeOK' /\ Fits'
  <2> SUFFICES ASSUME TypeOK, Fits, [Next]_vars PROVE TypeOK' /\ Fits'
    OBVIOUS
  <2>1. ASSUME NEW p \in Requests, Step(p) PROVE TypeOK' /\ Fits'
    <3>1. CASE AskDeletion(p)
      BY <3>1 DEF AskDeletion, TypeOK, Fits, Deleting
    <3>2. ASSUME NEW o \in {"ban", "soft"}, AskAdmin(p, o) PROVE TypeOK' /\ Fits'
      BY <3>2 DEF AskAdmin, TypeOK, Fits, Deleting
    <3>3. CASE FindJob(p)
      BY <3>3 DEF FindJob, TypeOK, Fits, Deleting
    <3>4. CASE AddJob(p)
      BY <3>4 DEF AddJob, TypeOK, Fits, Deleting
    <3>5. CASE BanSelf(p)
      BY <3>5 DEF BanSelf, TypeOK, Fits, Deleting
    <3>6. CASE PurgeSelf(p)
      <4>1. told' \in [Requests -> 0..MaxDay]
        BY <3>6 DEF PurgeSelf, TypeOK, Fits, Deleting
      <4>2. sessions' \in BOOLEAN
        BY <3>6 DEF PurgeSelf
      <4>3. QED
        BY <3>6, <4>1, <4>2 DEF PurgeSelf, TypeOK, Fits, Deleting
    <3>7. CASE AdminUpdate(p)
      BY <3>7 DEF AdminUpdate, AllDone, TypeOK, Fits, Deleting
    <3>8. CASE AdminPurge(p)
      BY <3>8 DEF AdminPurge, AllDone, TypeOK, Fits, Deleting
    <3>9. CASE Abandon(p)
      BY <3>9 DEF Abandon, TypeOK, Fits, Deleting
    <3>10. QED
      BY <2>1, <3>1, <3>2, <3>3, <3>4, <3>5, <3>6, <3>7, <3>8, <3>9 DEF Step, Request
  <2>2. CASE JobDue
    BY <2>2 DEF JobDue, TypeOK, Fits, Deleting
  <2>3. CASE JobRead
    BY <2>3 DEF JobRead, TypeOK, Fits, Deleting
  <2>4. CASE JobDelete
    BY <2>4 DEF JobDelete, Keep, TypeOK, Fits, Deleting
  <2>5. CASE JobClean
    <3>1. job' \in [state : {"none", "delayed", "active"}, due : 0..MaxDay,
                     tries : 0..(MaxAttempts - 1)]
      BY <2>5 DEF JobClean
    <3>2. QED
      BY <2>5, <3>1 DEF JobClean, Keep, TypeOK, Fits, Deleting
  <2>6. CASE JobFails
    <3>1. CASE /\ job.tries + 1 < MaxAttempts
               /\ job' = [job EXCEPT !.state = "delayed", !.tries = @ + 1]
               /\ UNCHANGED lapsed
      <4>1. job' \in [state : {"none", "delayed", "active"}, due : 0..MaxDay,
                       tries : 0..(MaxAttempts - 1)]
        <5>1. job.tries + 1 \in 0..(MaxAttempts - 1)
          BY <3>1 DEF TypeOK
        <5>2. QED
          BY <3>1, <5>1 DEF TypeOK
      <4>2. QED
        BY <2>6, <3>1, <4>1 DEF JobFails, Keep, TypeOK, Fits, Deleting
    <3>2. CASE job' = NoJob /\ lapsed' = TRUE
      BY <2>6, <3>2 DEF JobFails, Keep, TypeOK, Fits, Deleting
    <3>3. QED
      BY <2>6, <3>1, <3>2 DEF JobFails
  <2>7. CASE LogIn
    BY <2>7 DEF LogIn, TypeOK, Fits, Deleting
  <2>8. CASE Tick
    BY <2>8 DEF Tick, TypeOK, Fits, Deleting
  <2>9. CASE UNCHANGED vars
    BY <2>9 DEF vars, TypeOK, Fits, Deleting
  <2>10. QED
    BY <2>1, <2>2, <2>3, <2>4, <2>5, <2>6, <2>7, <2>8, <2>9 DEF Next, Step, Worker
<1>3. QED
  BY <1>1, <1>2, PTL DEF Spec

\* GraceIsGiven: whatever fails, the job deletes no account before the days of
\* grace since the first request are over.
THEOREM GraceIsAlwaysGiven == Spec => []Timely /\ []GraceIsGiven
<1> USE DaysAssumption, MaxAttemptsAssumption
    DEF accountVars, requestVars, historyVars, Goto, NoJob, InFlight
<1>1. Init => Timely
  BY DEF Init, Timely, Deleting, GraceIsGiven
<1>2. TypeOK /\ Timely /\ [Next]_vars => Timely'
  <2> SUFFICES ASSUME TypeOK, Timely, [Next]_vars PROVE Timely'
    OBVIOUS
  <2> USE DEF TypeOK
  <2>1. ASSUME NEW p \in Requests, Step(p) PROVE Timely'
    <3>1. CASE AskDeletion(p)
      <4>1. asked' # 0 /\ asked' <= day
        BY <3>1 DEF AskDeletion, Timely
      <4>2. asked # 0 => asked' = asked
        BY <3>1 DEF AskDeletion
      <4>3. QED
        BY <3>1, <4>1, <4>2 DEF AskDeletion, Timely, Deleting, GraceIsGiven
    <3>2. ASSUME NEW o \in {"ban", "soft"}, AskAdmin(p, o) PROVE Timely'
      BY <3>2 DEF AskAdmin, Timely, Deleting, GraceIsGiven
    <3>3. CASE FindJob(p)
      BY <3>3 DEF FindJob, Timely, Deleting, GraceIsGiven
    <3>4. CASE AddJob(p)
      BY <3>4 DEF AddJob, Timely, Deleting, GraceIsGiven
    <3>5. CASE BanSelf(p)
      BY <3>5 DEF BanSelf, Timely, Deleting, GraceIsGiven
    <3>6. CASE PurgeSelf(p)
      BY <3>6 DEF PurgeSelf, Timely, Deleting, GraceIsGiven
    <3>7. CASE AdminUpdate(p)
      BY <3>7 DEF AdminUpdate, AllDone, Timely, Deleting, GraceIsGiven
    <3>8. CASE AdminPurge(p)
      BY <3>8 DEF AdminPurge, AllDone, Timely, Deleting, GraceIsGiven
    <3>9. CASE Abandon(p)
      BY <3>9 DEF Abandon, Timely, Deleting, GraceIsGiven
    <3>10. QED
      BY <2>1, <3>1, <3>2, <3>3, <3>4, <3>5, <3>6, <3>7, <3>8, <3>9 DEF Step, Request
  <2>2. CASE JobDue
    BY <2>2 DEF JobDue, Timely, Deleting, GraceIsGiven
  <2>3. CASE JobRead
    BY <2>3 DEF JobRead, Timely, Deleting, GraceIsGiven
  <2>4. CASE JobDelete
    BY <2>4 DEF JobDelete, Keep, Timely, Deleting, GraceIsGiven
  <2>5. CASE JobClean
    BY <2>5 DEF JobClean, Keep, Timely, Deleting, GraceIsGiven
  <2>6. CASE JobFails
    <3>1. CASE /\ job.tries + 1 < MaxAttempts
               /\ job' = [job EXCEPT !.state = "delayed", !.tries = @ + 1]
               /\ UNCHANGED lapsed
      BY <2>6, <3>1 DEF JobFails, Keep, Timely, Deleting, GraceIsGiven
    <3>2. CASE job' = NoJob /\ lapsed' = TRUE
      BY <2>6, <3>2 DEF JobFails, Keep, Timely, Deleting, GraceIsGiven
    <3>3. QED
      BY <2>6, <3>1, <3>2 DEF JobFails
  <2>7. CASE LogIn
    BY <2>7 DEF LogIn, Timely, Deleting, GraceIsGiven
  <2>8. CASE Tick
    BY <2>8 DEF Tick, Timely, Deleting, GraceIsGiven
  <2>9. CASE UNCHANGED vars
    BY <2>9 DEF vars, Timely, Deleting, GraceIsGiven
  <2>10. QED
    BY <2>1, <2>2, <2>3, <2>4, <2>5, <2>6, <2>7, <2>8, <2>9 DEF Next, Step, Worker
<1>3. Timely => GraceIsGiven
  BY DEF Timely
<1>4. QED
  BY <1>1, <1>2, <1>3, TypeCorrect, PTL DEF Spec

\* NotEarlyUnlessLapsed: while no request was given up between its job and its
\* ban, and no job failed for good, the account is not deleted before the day
\* that was announced.
THEOREM AnnouncedDayIsKept == Spec => []Announced /\ []NotEarlyUnlessLapsed
<1> USE DaysAssumption, MaxAttemptsAssumption
    DEF accountVars, requestVars, historyVars, Goto, NoJob, InFlight
<1>1. Init => Announced
  BY DEF Init, Announced, Deleting, NotBeforeAnnounced, NoLimbo
<1>2. TypeOK /\ Timely /\ Announced /\ [Next]_vars => Announced'
  <2> SUFFICES ASSUME TypeOK, Timely, Announced, [Next]_vars PROVE Announced'
    OBVIOUS
  <2> USE DEF TypeOK
  <2>1. ASSUME NEW p \in Requests, Step(p) PROVE Announced'
    <3>1. CASE AskDeletion(p)
      BY <3>1 DEF AskDeletion, Timely, Announced, Deleting, NotBeforeAnnounced, NoLimbo
    <3>2. ASSUME NEW o \in {"ban", "soft"}, AskAdmin(p, o) PROVE Announced'
      BY <3>2 DEF AskAdmin, Timely, Announced, Deleting, NotBeforeAnnounced, NoLimbo
    <3>3. CASE FindJob(p)
      BY <3>3 DEF FindJob, Timely, Announced, Deleting, NotBeforeAnnounced, NoLimbo
    <3>4. CASE AddJob(p)
      BY <3>4 DEF AddJob, Timely, Announced, Deleting, NotBeforeAnnounced, NoLimbo
    <3>5. CASE BanSelf(p)
      BY <3>5 DEF BanSelf, Timely, Announced, Deleting, NotBeforeAnnounced, NoLimbo
    <3>6. CASE PurgeSelf(p)
      BY <3>6 DEF PurgeSelf, Timely, Announced, Deleting, NotBeforeAnnounced, NoLimbo
    <3>7. CASE AdminUpdate(p)
      BY <3>7 DEF AdminUpdate, AllDone, Timely, Announced, Deleting, NotBeforeAnnounced,
         NoLimbo
    <3>8. CASE AdminPurge(p)
      BY <3>8 DEF AdminPurge, AllDone, Timely, Announced, Deleting, NotBeforeAnnounced,
         NoLimbo
    <3>9. CASE Abandon(p)
      BY <3>9 DEF Abandon, Timely, Announced, Deleting, NotBeforeAnnounced, NoLimbo
    <3>10. QED
      BY <2>1, <3>1, <3>2, <3>3, <3>4, <3>5, <3>6, <3>7, <3>8, <3>9 DEF Step, Request
  <2>2. CASE JobDue
    BY <2>2 DEF JobDue, Timely, Announced, Deleting, NotBeforeAnnounced, NoLimbo
  <2>3. CASE JobRead
    BY <2>3 DEF JobRead, Timely, Announced, Deleting, NotBeforeAnnounced, NoLimbo
  <2>4. CASE JobDelete
    BY <2>4 DEF JobDelete, Keep, Timely, Announced, Deleting, NotBeforeAnnounced, NoLimbo
  <2>5. CASE JobClean
    BY <2>5 DEF JobClean, Keep, Timely, Announced, Deleting, NotBeforeAnnounced, NoLimbo
  <2>6. CASE JobFails
    BY <2>6 DEF JobFails, Keep, Timely, Announced, Deleting, NotBeforeAnnounced, NoLimbo
  <2>7. CASE LogIn
    BY <2>7 DEF LogIn, Timely, Announced, Deleting, NotBeforeAnnounced, NoLimbo
  <2>8. CASE Tick
    BY <2>8 DEF Tick, Timely, Announced, Deleting, NotBeforeAnnounced, NoLimbo
  <2>9. CASE UNCHANGED vars
    BY <2>9 DEF vars, Timely, Announced, Deleting, NotBeforeAnnounced, NoLimbo
  <2>10. QED
    BY <2>1, <2>2, <2>3, <2>4, <2>5, <2>6, <2>7, <2>8, <2>9 DEF Next, Step, Worker
<1>3. Announced => NotEarlyUnlessLapsed
  BY DEF Announced, NotEarlyUnlessLapsed, NotBeforeAnnounced
<1>4. QED
  BY <1>1, <1>2, <1>3, TypeCorrect, GraceIsAlwaysGiven, PTL DEF Spec

\* NoLimbo: a customer banned for deletion always has the job that will delete the
\* account, whoever asks for what and whatever attempt fails before the last.
THEOREM NobodyInLimbo == Spec => []NoLimbo
<1>1. Announced => NoLimbo
  BY DEF Announced, NoLimbo
<1> QED BY <1>1, AnnouncedDayIsKept, PTL

-----------------------------------------------------------------------------

\* An answer that names a day is the last thing its request does.
ToldIsDone == \A p \in Requests : told[p] # 0 => pc[p] = "done"

LEMMA ToldIsDoneHolds == Spec => []ToldIsDone
<1> USE DaysAssumption DEF accountVars, requestVars, historyVars, Goto, InFlight, ToldIsDone
<1>1. Init => ToldIsDone
  BY DEF Init
<1>2. TypeOK /\ ToldIsDone /\ [Next]_vars => ToldIsDone'
  <2> SUFFICES ASSUME TypeOK, ToldIsDone, [Next]_vars PROVE ToldIsDone'
    OBVIOUS
  <2> USE DEF TypeOK
  <2>1. ASSUME NEW p \in Requests, Step(p) PROVE ToldIsDone'
    <3>1. CASE AskDeletion(p)
      BY <3>1 DEF AskDeletion
    <3>2. ASSUME NEW o \in {"ban", "soft"}, AskAdmin(p, o) PROVE ToldIsDone'
      BY <3>2 DEF AskAdmin
    <3>3. CASE FindJob(p) \/ AddJob(p) \/ BanSelf(p) \/ PurgeSelf(p)
      BY <3>3 DEF FindJob, AddJob, BanSelf, PurgeSelf
    <3>4. CASE AdminUpdate(p) \/ AdminPurge(p)
      BY <3>4 DEF AdminUpdate, AdminPurge, AllDone
    <3>5. CASE Abandon(p)
      BY <3>5 DEF Abandon
    <3>6. QED
      BY <2>1, <3>1, <3>2, <3>3, <3>4, <3>5 DEF Step, Request
  <2>2. CASE Worker
    BY <2>2 DEF Worker, JobDue, JobRead, JobDelete, JobClean, Keep
  <2>3. CASE JobFails \/ LogIn \/ Tick
    BY <2>3 DEF JobFails, Keep, LogIn, Tick
  <2>4. CASE UNCHANGED vars
    BY <2>4 DEF vars
  <2>5. QED
    BY <2>1, <2>2, <2>3, <2>4 DEF Next, Step
<1>3. QED
  BY <1>1, <1>2, TypeCorrect, PTL DEF Spec

\* GracePromise: deleteAccount, the delayed job and the administrator's actions
\* implement DeletionPromise; each of their steps is one of its steps or changes
\* nothing the customer was promised.
THEOREM PromiseIsKept == Spec => GracePromise
<1> USE DaysAssumption DEF accountVars, requestVars, historyVars, Goto, NoJob, InFlight
<1> USE DEF Promise!vars
<1>1. Init => Promise!Init
  BY DEF Init, Promise!Init
<1>2. TypeOK /\ Timely /\ Announced /\ ToldIsDone /\ [Next]_vars
        => [Promise!Next]_(Promise!vars)
  <2> SUFFICES ASSUME TypeOK, Timely, Announced, ToldIsDone, [Next]_vars
               PROVE  Promise!Next \/ UNCHANGED Promise!vars
    OBVIOUS
  <2> USE DEF TypeOK
  <2>1. ASSUME NEW p \in Requests, Step(p) PROVE Promise!Next \/ UNCHANGED Promise!vars
    <3>1. CASE AskDeletion(p)
      <4>1. CASE asked = 0
        BY <3>1, <4>1 DEF AskDeletion, Promise!Next, Promise!Ask
      <4>2. CASE asked # 0
        BY <3>1, <4>2 DEF AskDeletion
      <4>3. QED
        BY <4>1, <4>2
    <3>2. ASSUME NEW o \in {"ban", "soft"}, AskAdmin(p, o)
          PROVE  UNCHANGED Promise!vars
      BY <3>2 DEF AskAdmin
    <3>3. CASE FindJob(p) \/ AddJob(p) \/ BanSelf(p)
      BY <3>3 DEF FindJob, AddJob, BanSelf
    <3>4. CASE PurgeSelf(p)
      <4>1. asked # 0 /\ told[p] = 0
        BY <3>4 DEF PurgeSelf, Timely, Deleting, ToldIsDone
      <4>2. deletedOn = 0 \/ lapsed
        BY <3>4 DEF PurgeSelf, Announced, Deleting
      <4>3. Promise!Announce(p)
        BY <3>4, <4>1, <4>2 DEF PurgeSelf, Promise!Announce
      <4>4. QED
        BY <4>3 DEF Promise!Next
    <3>5. CASE AdminUpdate(p) \/ AdminPurge(p)
      BY <3>5 DEF AdminUpdate, AdminPurge, AllDone
    <3>6. CASE Abandon(p)
      <4>1. CASE lapsed' = lapsed
        BY <3>6, <4>1 DEF Abandon
      <4>2. CASE lapsed' = TRUE
        BY <3>6, <4>2 DEF Abandon, Promise!Next, Promise!Lapse
      <4>3. QED
        BY <3>6, <4>1, <4>2 DEF Abandon
    <3>7. QED
      BY <2>1, <3>1, <3>2, <3>3, <3>4, <3>5, <3>6 DEF Step, Request
  <2>2. CASE JobDue \/ JobRead \/ JobClean
    BY <2>2 DEF JobDue, JobRead, JobClean, Keep
  <2>3. CASE JobDelete
    <3>1. CASE deletedOn # 0
      BY <2>3, <3>1 DEF JobDelete, Keep
    <3>2. CASE deletedOn = 0
      <4>1. job.state = "active" /\ job.due <= day
        BY <2>3 DEF JobDelete, Timely
      <4>2. asked # 0 /\ day >= asked + Grace
        BY <4>1 DEF Timely
      <4>3. lapsed \/ \A p \in Requests : told[p] <= day
        BY <4>1 DEF Announced
      <4>4. Promise!Delete
        BY <2>3, <3>2, <4>2, <4>3 DEF JobDelete, Keep, Promise!Delete
      <4>5. QED
        BY <4>4 DEF Promise!Next
    <3>3. QED
      BY <3>1, <3>2
  <2>4. CASE JobFails
    BY <2>4 DEF JobFails, Keep, Promise!Next, Promise!Lapse
  <2>5. CASE LogIn
    BY <2>5 DEF LogIn
  <2>6. CASE Tick
    BY <2>6 DEF Tick, Promise!Next, Promise!Pass
  <2>7. CASE UNCHANGED vars
    BY <2>7 DEF vars
  <2>8. QED
    BY <2>1, <2>2, <2>3, <2>4, <2>5, <2>6, <2>7 DEF Next, Step, Worker
<1>3. QED
  BY <1>1, <1>2, TypeCorrect, GraceIsAlwaysGiven, AnnouncedDayIsKept, ToldIsDoneHolds, PTL
     DEF Spec, GracePromise, Promise!Spec

\* Without a fault the day is kept and nobody is left in limbo, unconditionally: the
\* interleavings of requests, administrators, logins and the worker alone never
\* make the promise lapse.
THEOREM UnfailingIsOnTime ==
  ASSUME Faults = {}
  PROVE  Spec => []( /\ NotBeforeAnnounced
                     /\ banned /\ reason = "deletion" /\ ~deleted => job.state # "none")
<1> USE DEF accountVars, requestVars, historyVars
<1>1. Init => ~lapsed
  BY DEF Init
<1>2. ~lapsed /\ [Next]_vars => ~lapsed'
  BY DEF Next, vars, AskDeletion, AskAdmin, Request, FindJob, AddJob, BanSelf, PurgeSelf,
     AdminUpdate, AdminPurge, AllDone, Abandon, Worker, JobDue, JobRead, JobDelete,
     JobClean, JobFails, LogIn, Tick
<1>3. ~lapsed /\ NotEarlyUnlessLapsed /\ NoLimbo
        => /\ NotBeforeAnnounced
           /\ banned /\ reason = "deletion" /\ ~deleted => job.state # "none"
  BY DEF NotEarlyUnlessLapsed, NoLimbo
<1>4. QED
  BY <1>1, <1>2, <1>3, AnnouncedDayIsKept, NobodyInLimbo, PTL DEF Spec
=============================================================================
