-------------------------- MODULE AccountDeletion --------------------------
(***************************************************************************)
(* How one customer's account is closed: UserService.deleteAccount and the *)
(* delayed maintenance job it schedules (apps/api/src/modules/mobile/user),*)
(* and an administrator's CustomersService.ban and softDelete.  Every      *)
(* awaited query or queue command is an action.                            *)
(*                                                                         *)
(* The BullMQ job is external: at most one job has the customer's job id,  *)
(* it becomes due, a failed attempt is retried, and it is removed when it  *)
(* completes or has failed for the last time.  Time is counted in days; a  *)
(* request is answered, or given up, within its day.                       *)
(***************************************************************************)
EXTENDS Naturals

CONSTANTS
  Requests,     \* HTTP requests, each made at most once
  Grace,        \* ACCOUNT_DELETION_DELAY_DAYS
  MaxDay,       \* bound: the last day that is counted
  MaxAttempts,  \* BULL_DEFAULT_ATTEMPTS
  Faults        \* the faults the environment shows, out of FaultKinds

FaultKinds == {"crash", "jobFails"}

ASSUME FaultsAssumption == Faults \subseteq FaultKinds
ASSUME DaysAssumption == Grace \in Nat \ {0} /\ MaxDay \in Nat \ {0}
ASSUME MaxAttemptsAssumption == MaxAttempts \in Nat \ {0}

VARIABLES
  day,
  banned, reason, deleted,  \* customers.banned, banReason, deletedAt # null
  sessions,   \* the customer has rows in customer_sessions
  notes,      \* the customer has notifications or settings in MongoDB
  job,        \* the maintenance job with the customer's job id
  worker,     \* where DeleteUserAccountProcessor.process is
  pc, op, todo,  \* the requests: where they are, what they do, what Promise.all
                 \* has left to do
  told,       \* told[p]: scheduledDeletionAt in the answer to p, 0 if none
  asked,      \* history: the day of the first request to delete, 0 if none
  deletedOn,  \* history: the day the job first deleted the account, 0 if never
  lapsed      \* history: a deletion was given up half-way (see Abandon, JobFails)

accountVars == <<banned, reason, deleted, sessions>>
requestVars == <<pc, op, todo, told>>
historyVars == <<asked, deletedOn, lapsed>>
vars == <<day, accountVars, notes, job, worker, requestVars, historyVars>>

NoJob == [state |-> "none", due |-> 0, tries |-> 0]

-----------------------------------------------------------------------------

Init ==
  /\ day = 1
  /\ banned = FALSE /\ reason = "none" /\ deleted = FALSE
  /\ sessions = TRUE /\ notes = TRUE
  /\ job = NoJob
  /\ worker = "idle"
  /\ pc = [p \in Requests |-> "new"]
  /\ op = [p \in Requests |-> "none"]
  /\ todo = [p \in Requests |-> {}]
  /\ told = [p \in Requests |-> 0]
  /\ asked = 0 /\ deletedOn = 0 /\ lapsed = FALSE

InFlight(p) == pc[p] \notin {"new", "done"}
Goto(p, l)  == pc' = [pc EXCEPT ![p] = l]

-----------------------------------------------------------------------------
(* DELETE /user/delete-account.                                            *)

\* JwtStrategy lets the customer in; deleteAccount finds the row.
AskDeletion(p) ==
  /\ pc[p] = "new"
  /\ sessions /\ ~banned /\ ~deleted
  /\ day + Grace <= MaxDay
  /\ Goto(p, "job")
  /\ op' = [op EXCEPT ![p] = "delete"]
  /\ asked' = IF asked = 0 THEN day ELSE asked
  /\ UNCHANGED <<day, accountVars, notes, job, worker, todo, told, deletedOn, lapsed>>

\* getJob: a job that waits or runs already is kept, with the day it has.
FindJob(p) ==
  /\ pc[p] = "job"
  /\ Goto(p, IF job.state = "none" THEN "add" ELSE "ban")
  /\ UNCHANGED <<day, accountVars, notes, job, worker, op, todo, told, historyVars>>

\* Mutation: the job is added without its delay.
AddUndelayedJob(p) ==
  /\ pc[p] = "add"
  /\ job' = IF job.state = "none"
            THEN [state |-> "delayed", due |-> day, tries |-> 0] ELSE job
  /\ Goto(p, "ban")
  /\ UNCHANGED <<day, accountVars, notes, worker, op, todo, told, historyVars>>

\* queue.add: nothing happens if the job id is taken by now.
AddJob(p) ==
  /\ pc[p] = "add"
  /\ job' = IF job.state = "none"
            THEN [state |-> "delayed", due |-> day + Grace, tries |-> 0] ELSE job
  /\ Goto(p, "ban")
  /\ UNCHANGED <<day, accountVars, notes, worker, op, todo, told, historyVars>>

\* The UPDATE overwrites whatever ban and reason are there by now.
BanSelf(p) ==
  /\ pc[p] = "ban"
  /\ banned' = TRUE /\ reason' = "deletion"
  /\ Goto(p, "purge")
  /\ UNCHANGED <<day, deleted, sessions, notes, job, worker, op, todo, told, historyVars>>

\* Mutation: the day that is announced is one too late.
PurgeSelfTellingLate(p) ==
  /\ pc[p] = "purge"
  /\ sessions' = FALSE
  /\ Goto(p, "done")
  /\ told' = [told EXCEPT ![p] = day + Grace + 1]
  /\ UNCHANGED <<day, banned, reason, deleted, notes, job, worker, op, todo, historyVars>>

\* The sessions go, and the customer is told the day.
PurgeSelf(p) ==
  /\ pc[p] = "purge"
  /\ sessions' = FALSE
  /\ Goto(p, "done")
  /\ told' = [told EXCEPT ![p] = day + Grace]
  /\ UNCHANGED <<day, banned, reason, deleted, notes, job, worker, op, todo, historyVars>>

-----------------------------------------------------------------------------
(* An administrator's ban, or soft deletion, of the customer.              *)

AskAdmin(p, o) ==
  /\ pc[p] = "new"
  /\ o = "soft" => ~deleted
  /\ Goto(p, "all")
  /\ op' = [op EXCEPT ![p] = o]
  /\ todo' = [todo EXCEPT ![p] = {"update", "purge"}]
  /\ UNCHANGED <<day, accountVars, notes, job, worker, told, historyVars>>

AllDone(p, w) ==
  /\ pc[p] = "all"
  /\ w \in todo[p]
  /\ todo' = [todo EXCEPT ![p] = @ \ {w}]
  /\ Goto(p, IF todo[p] = {w} THEN "done" ELSE "all")
  /\ UNCHANGED <<day, notes, job, worker, op, told, historyVars>>

AdminUpdate(p) ==
  /\ AllDone(p, "update")
  /\ IF op[p] = "ban"
     THEN banned' = TRUE /\ reason' = "admin" /\ UNCHANGED deleted
     ELSE deleted' = TRUE /\ UNCHANGED <<banned, reason>>
  /\ UNCHANGED sessions

AdminPurge(p) ==
  /\ AllDone(p, "purge")
  /\ sessions' = FALSE
  /\ UNCHANGED <<banned, reason, deleted>>

-----------------------------------------------------------------------------
(* The worker.                                                             *)

Keep == UNCHANGED <<day, sessions, requestVars, asked>>

JobDue ==
  /\ job.state = "delayed" /\ job.due <= day
  /\ job' = [job EXCEPT !.state = "active"]
  /\ worker' = "read"
  /\ UNCHANGED <<accountVars, notes, day, requestVars, historyVars>>

\* Mutation: an account that is soft-deleted already is skipped.
JobReadUndeleted ==
  /\ worker = "read"
  /\ IF banned /\ reason = "deletion" /\ ~deleted
     THEN worker' = "update" /\ UNCHANGED job
     ELSE worker' = "idle" /\ job' = NoJob
  /\ UNCHANGED <<accountVars, notes, day, requestVars, historyVars>>

\* findFirst: an account that is not banned any more, or banned for another
\* reason, is skipped, and the job completes.
JobRead ==
  /\ worker = "read"
  /\ IF banned /\ reason = "deletion"
     THEN worker' = "update" /\ UNCHANGED job
     ELSE worker' = "idle" /\ job' = NoJob
  /\ UNCHANGED <<accountVars, notes, day, requestVars, historyVars>>

\* UPDATE ... SET deletedAt WHERE id, whatever was read.
JobDelete ==
  /\ worker = "update"
  /\ deleted' = TRUE
  /\ deletedOn' = IF deletedOn = 0 THEN day ELSE deletedOn
  /\ worker' = "clean"
  /\ UNCHANGED <<banned, reason, notes, job, lapsed>>
  /\ Keep

JobClean ==
  /\ worker = "clean"
  /\ notes' = FALSE
  /\ worker' = "idle"
  /\ job' = NoJob
  /\ UNCHANGED <<banned, reason, deleted, deletedOn, lapsed>>
  /\ Keep

\* Mutation: a job that failed is not retried.
JobFailsForGood ==
  /\ "jobFails" \in Faults
  /\ worker # "idle"
  /\ worker' = "idle"
  /\ job' = NoJob
  /\ UNCHANGED <<banned, reason, deleted, notes, deletedOn, lapsed>>
  /\ Keep

\* Mutation: one attempt too many.
JobFailsOnceMore ==
  /\ "jobFails" \in Faults
  /\ worker # "idle"
  /\ worker' = "idle"
  /\ IF job.tries < MaxAttempts
     THEN /\ job' = [job EXCEPT !.state = "delayed", !.tries = @ + 1]
          /\ UNCHANGED lapsed
     ELSE job' = NoJob /\ lapsed' = TRUE
  /\ UNCHANGED <<banned, reason, deleted, notes, deletedOn>>
  /\ Keep

\* A query of the processor throws, or the worker dies and the job stalls.
JobFails ==
  /\ "jobFails" \in Faults
  /\ worker # "idle"
  /\ worker' = "idle"
  /\ IF job.tries + 1 < MaxAttempts
     THEN /\ job' = [job EXCEPT !.state = "delayed", !.tries = @ + 1]
          /\ UNCHANGED lapsed
     ELSE job' = NoJob /\ lapsed' = TRUE
  /\ UNCHANGED <<banned, reason, deleted, notes, deletedOn>>
  /\ Keep

-----------------------------------------------------------------------------
(* The environment.                                                        *)

\* A query fails or the server goes down: the request is given up here.
Abandon(p) ==
  /\ "crash" \in Faults
  /\ InFlight(p)
  /\ lapsed' = (lapsed \/ pc[p] = "ban")
  /\ Goto(p, "done")
  /\ todo' = [todo EXCEPT ![p] = {}]
  /\ UNCHANGED <<day, accountVars, notes, job, worker, op, told, asked, deletedOn>>

\* The customer logs in again, if nothing closed the account.
LogIn ==
  /\ ~banned /\ ~deleted /\ ~sessions
  /\ sessions' = TRUE
  /\ UNCHANGED <<day, banned, reason, deleted, notes, job, worker, requestVars, historyVars>>

Tick ==
  /\ day < MaxDay
  /\ \A p \in Requests : ~InFlight(p)
  /\ day' = day + 1
  /\ UNCHANGED <<accountVars, notes, job, worker, requestVars, historyVars>>

-----------------------------------------------------------------------------

Request(p) ==
  \/ FindJob(p)
  \/ AddJob(p)
  \/ BanSelf(p)
  \/ PurgeSelf(p)
  \/ AdminUpdate(p)
  \/ AdminPurge(p)

Worker == JobDue \/ JobRead \/ JobDelete \/ JobClean

Next ==
  \/ \E p \in Requests : \/ AskDeletion(p)
                         \/ \E o \in {"ban", "soft"} : AskAdmin(p, o)
                         \/ Request(p)
                         \/ Abandon(p)
  \/ Worker
  \/ JobFails
  \/ LogIn
  \/ Tick

Spec == Init /\ [][Next]_vars

\* Node goes on with what it has begun, the workers take due jobs, days pass.
FairSpec ==
  /\ Spec
  /\ \A p \in Requests : WF_vars(Request(p))
  /\ WF_vars(Worker)
  /\ WF_vars(Tick)

-----------------------------------------------------------------------------

\* Type correctness; in particular a job is due within the days that count.
TypeOK ==
  /\ day \in 1..MaxDay
  /\ banned \in BOOLEAN /\ deleted \in BOOLEAN
  /\ sessions \in BOOLEAN /\ notes \in BOOLEAN /\ lapsed \in BOOLEAN
  /\ reason \in {"none", "admin", "deletion"}
  /\ job \in [state : {"none", "delayed", "active"}, due : 0..MaxDay,
              tries : 0..(MaxAttempts - 1)]
  /\ worker \in {"idle", "read", "update", "clean"}
  /\ pc \in [Requests -> {"new", "job", "add", "ban", "purge", "all", "done"}]
  /\ op \in [Requests -> {"none", "delete", "ban", "soft"}]
  /\ todo \in [Requests -> SUBSET {"update", "purge"}]
  /\ told \in [Requests -> 0..MaxDay]
  /\ asked \in 0..MaxDay /\ deletedOn \in 0..MaxDay

\* "Account is scheduled for deletion after 7 days": the job does not delete the
\* account before the day any answer gave.  The code does not keep this: see
\* NotEarlyUnlessLapsed.
NotBeforeAnnounced ==
  deletedOn # 0 => \A p \in Requests : told[p] <= deletedOn

\* ... it does when no request was given up between queueing its job and
\* banning the customer, and no job failed for the last time.
NotEarlyUnlessLapsed == ~lapsed => NotBeforeAnnounced

\* Whatever fails, the customer has the days of grace since the first request.
GraceIsGiven ==
  deletedOn # 0 => asked # 0 /\ deletedOn >= asked + Grace

\* Seen by the customer the deletion keeps DeletionPromise: it is asked for, it is
\* announced only before it happens, and it happens once, with its days of grace
\* over and, unless the promise lapsed, not before a day that was announced.
Promise == INSTANCE DeletionPromise
GracePromise == Promise!Spec

\* A customer who is banned for deletion is deleted, or a job is there that will
\* do it: nobody is locked out with nothing to finish the deletion.
NoLimbo ==
  ~lapsed /\ banned /\ reason = "deletion" /\ ~deleted => job.state # "none"

\* A deletion that was announced comes to its end, the MongoDB data included,
\* unless it lapses or an administrator's ban takes the place of its own.
DeletionCompletes ==
  (reason = "deletion" /\ ~lapsed)
    ~> (deletedOn # 0 /\ ~notes) \/ reason # "deletion" \/ lapsed
=============================================================================
