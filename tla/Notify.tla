------------------------------- MODULE Notify -------------------------------
(***************************************************************************)
(* The notifications of one customer, from the event to the inbox:         *)
(* NotificationRouterService reserves a dedupe key and queues jobs,        *)
(* NotificationsProcessor runs them with BullMQ's retries, pushes through  *)
(* FCM, stores a MongoDB document and announces it over the sockets;       *)
(* NotificationService marks documents read.  The deletion worker of       *)
(* module AccountDeletion deletes the documents of an account it has       *)
(* marked deleted, and the orphan reconciler those of a customer whose row *)
(* is gone: these are two different things, and the API does only the      *)
(* first.  A customer marked deleted is pushed to as before (CheckUser).   *)
(*                                                                         *)
(* The calls of routeEvent are those for one event of one order.  An       *)
(* execution <<j, t>> is the t-th attempt at job j; the document it stores *)
(* is named after it.  What a worker asks of presence, settings, devices   *)
(* and FCM is answered either way (see modules Realtime and AuthSession).  *)
(***************************************************************************)
EXTENDS Naturals, FiniteSets

CONSTANTS
  Calls,      \* calls of routeEvent; each queues a push job of its own name
  Notices,    \* push jobs of AuthService and UserService: no externalRef
  Promos,     \* promotional push jobs
  Mails,      \* promotional e-mail jobs
  Surfaces,   \* the in-app surfaces
  MaxTries,   \* attempts of a job (BULL_DEFAULT_ATTEMPTS)
  MaxRunning, \* bound: executions at once, over all instances of the server
  Workloads,  \* bound: the sets of jobs that are queued together
  MaxCuts,    \* bound: attempts cut off
  Faults,     \* the faults the environment shows, out of FaultKinds
  NoRef

FaultKinds == {"key", "error", "realtime"}
Jobs  == Calls \cup Notices \cup Promos \cup Mails
Others == Jobs \ Calls
Execs == Jobs \X (1..MaxTries)

ASSUME BoundsAssumption ==
  /\ MaxTries \in Nat \ {0}
  /\ MaxRunning \in Nat
  /\ MaxCuts \in Nat
ASSUME FaultsAssumption == Faults \subseteq FaultKinds
ASSUME KindsAssumption ==
  /\ Calls \cap (Notices \cup Promos \cup Mails) = {}
  /\ Notices \cap (Promos \cup Mails) = {}
  /\ Promos \cap Mails = {}
  /\ NoRef \notin Jobs \cup {"event"}
  /\ "event" \notin Jobs

VARIABLES
  key,      \* Redis: the dedupe key of the event is set
  call,     \* call[c]: where the call of routeEvent is
  job,      \* job[j]: the state of the job in the queue
  tries,    \* tries[j]: attempts begun
  pc,       \* pc[e]: where execution e is in the processor
  account,  \* the row of customers: there, marked deleted, or gone
  stored,   \* MongoDB: the executions whose document is there
  marks,    \* marks[e]: the surfaces on which that document is read
  created,  \* history: executions that ever stored a document
  pushed, told, \* history: executions that pushed, announced
  quiet,    \* history: executions that stored a document they were not to announce
  cut,      \* history: executions that failed or were overtaken by a retry
  lapsed    \* history: the key was lost or passed by (see OnePushPerEvent)

callVars  == <<key, call>>
queueVars == <<job, tries>>
inboxVars == <<stored, marks, created>>
histVars  == <<pushed, told, quiet, cut, lapsed>>
vars == <<callVars, queueVars, pc, account, inboxVars, histVars>>

PushSteps == {"check", "send", "persistSkip", "persist", "publish"}
MailSteps == {"resolve", "mail"}

-----------------------------------------------------------------------------

JobOf(e) == e[1]
Gone == account = "gone"
Running == {e \in Execs : pc[e] # "idle"}

\* externalRef: the router's is made of the dedupe key, a promotion's of the job.
RefOf(j) == IF j \in Calls THEN "event" ELSE IF j \in Promos THEN j ELSE NoRef
Ref == [e \in Execs |-> RefOf(JobOf(e))]
PersistOnSkip(e) == JobOf(e) \in Calls \cup Promos
InApp(e) == JobOf(e) \in Calls \cup Notices

\* The job addresses other customers in one Promise.all with this one.
Shared(j) == j \in Promos \cup Mails

\* e is the attempt the queue waits for, not one a failed batch left running.
Current(e) == job[e[1]] = "active" /\ tries[e[1]] = e[2]

Init ==
  /\ key = FALSE
  /\ call = [c \in Calls |-> "idle"]
  /\ job = [j \in Jobs |-> "none"]
  /\ tries = [j \in Jobs |-> 0]
  /\ pc = [e \in Execs |-> "idle"]
  /\ account = "open"
  /\ stored = {} /\ created = {}
  /\ marks = [e \in Execs |-> {}]
  /\ pushed = {} /\ told = {} /\ quiet = {} /\ cut = {}
  /\ lapsed = FALSE

-----------------------------------------------------------------------------
(* routeEvent.                                                             *)

\* Mutation: the key is read and set without NX.
ReserveAlways(c) ==
  /\ call[c] = "idle"
  /\ key' = TRUE
  /\ call' = [call EXCEPT ![c] = "reserved"]
  /\ UNCHANGED <<queueVars, pc, account, inboxVars, histVars>>

\* SET NX of the dedupe key; a call that does not get it stops here.
Reserve(c) ==
  /\ call[c] = "idle"
  /\ key' = TRUE
  /\ call' = [call EXCEPT ![c] = IF key THEN "over" ELSE "reserved"]
  /\ UNCHANGED <<queueVars, pc, account, inboxVars, histVars>>

\* Redis fails and the event is sent all the same; or the key was set seven
\* days ago and is gone, and this call sets it anew.
ReserveBlind(c) ==
  /\ "key" \in Faults
  /\ call[c] = "idle"
  /\ call' = [call EXCEPT ![c] = "reserved"]
  /\ lapsed' = TRUE
  /\ UNCHANGED <<key, queueVars, pc, account, inboxVars, pushed, told, quiet, cut>>

Queue(j) ==
  /\ job[j] = "none"
  /\ \E W \in Workloads : {x \in Jobs : job[x] # "none"} \cup {j} \subseteq W
  /\ job' = [job EXCEPT ![j] = "waiting"]
  /\ UNCHANGED <<tries, pc, account, inboxVars, histVars>>

\* sendPush for the resolved recipient.  sendEmail follows; its job runs as a
\* Mails job does, and a failure from here on changes nothing.
QueuePush(c) ==
  /\ call[c] = "reserved"
  /\ call' = [call EXCEPT ![c] = "over"]
  /\ Queue(c)
  /\ UNCHANGED key

\* There is no recipient, an awaited call throws or the server dies: the key stays.
CallEnds(c) ==
  /\ call[c] = "reserved"
  /\ call' = [call EXCEPT ![c] = "over"]
  /\ UNCHANGED <<key, queueVars, pc, account, inboxVars, histVars>>

QueueOther(j) ==
  /\ j \in Others
  /\ Queue(j)
  /\ UNCHANGED callVars

-----------------------------------------------------------------------------
(* The queue and the worker.                                               *)

Take(j) ==
  /\ job[j] = "waiting"
  /\ Cardinality(Running) < MaxRunning
  /\ job' = [job EXCEPT ![j] = "active"]
  /\ tries' = [tries EXCEPT ![j] = @ + 1]
  /\ pc' = [pc EXCEPT ![<<j, tries[j] + 1>>] =
               IF Shared(j) THEN "resolve" ELSE "check"]
  /\ UNCHANGED <<callVars, account, inboxVars, histVars>>

Goto(e, l) == pc' = [pc EXCEPT ![e] = l] /\ UNCHANGED queueVars

\* The handler of e returns.  That ends its job, unless others share it.
Finish(e) ==
  /\ pc' = [pc EXCEPT ![e] = "idle"]
  /\ job' = [job EXCEPT ![JobOf(e)] =
               IF Current(e) /\ ~Shared(JobOf(e)) THEN "done" ELSE @]
  /\ UNCHANGED tries

\* Mutation: attempts are not counted.
RetryForever(j) == job' = [job EXCEPT ![j] = "waiting"] /\ UNCHANGED tries

\* The attempt at job j fails: it is queued again while attempts are left.
Retry(j) ==
  /\ job' = [job EXCEPT ![j] = IF tries[j] < MaxTries THEN "waiting" ELSE "failed"]
  /\ UNCHANGED tries

\* An awaited call of e throws, or its server dies.
Fail(e) ==
  /\ "error" \in Faults
  /\ Cardinality(cut) < MaxCuts
  /\ pc[e] # "idle"
  /\ pc' = [pc EXCEPT ![e] = "idle"]
  /\ IF Current(e) THEN Retry(JobOf(e)) ELSE UNCHANGED queueVars
  /\ cut' = cut \cup {e}
  /\ UNCHANGED <<callVars, account, inboxVars, pushed, told, quiet, lapsed>>

\* Another recipient's handler rejects: Promise.all fails the job at once and
\* leaves this customer's handler running.
OthersFail(j) ==
  /\ "error" \in Faults
  /\ Cardinality(cut) < MaxCuts
  /\ Shared(j)
  /\ job[j] = "active"
  /\ Retry(j)
  /\ cut' = cut \cup {<<j, tries[j]>>}
  /\ UNCHANGED <<callVars, pc, account, inboxVars, pushed, told, quiet, lapsed>>

\* Every recipient's handler has returned.
JobDone(j) ==
  /\ Shared(j)
  /\ job[j] = "active"
  /\ pc[<<j, tries[j]>>] = "idle"
  /\ job' = [job EXCEPT ![j] = "done"]
  /\ UNCHANGED <<callVars, tries, pc, account, inboxVars, histVars>>

-----------------------------------------------------------------------------
(* processSendPush.                                                        *)

\* resolvePromoPushUserIds, resolvePromoEmailRecipients: the customer is one of
\* those addressed, or is not (banned, or not asked for), or has no row.
Resolve(e) ==
  /\ pc[e] = "resolve"
  /\ \/ ~Gone /\ Goto(e, IF JobOf(e) \in Mails THEN "mail" ELSE "check")
     \/ Finish(e)
  /\ UNCHANGED <<callVars, account, inboxVars, histVars>>

SendMail(e) ==
  /\ pc[e] = "mail"
  /\ Finish(e)
  /\ UNCHANGED <<callVars, account, inboxVars, histVars>>

\* isSurfacePresent: the customer looks at a surface, so nothing is pushed.
Suppress(e) == Goto(e, "persist")

\* Mutation: the router's pushes are dropped as those of AuthService are.
SkipUnstored(e) == Finish(e)

\* handleSkip: pushes are switched off, or no active device has a token.
Skip(e) == IF PersistOnSkip(e) THEN Goto(e, "persistSkip") ELSE Finish(e)

\* The row is asked for, not whether it is marked deleted.  What is read between
\* the user and the push is answered either way.
CheckUser(e) ==
  /\ pc[e] = "check"
  /\ IF Gone THEN Finish(e) ELSE Suppress(e) \/ Skip(e) \/ Goto(e, "send")
  /\ UNCHANGED <<callVars, account, inboxVars, histVars>>

Send(e) ==
  /\ pc[e] = "send"
  /\ Goto(e, "persist")
  /\ pushed' = pushed \cup {e}
  /\ UNCHANGED <<callVars, account, inboxVars, told, quiet, cut, lapsed>>

\* FCM refuses; a token it does not know any more is deactivated (AuthSession).
SendRefused(e) ==
  /\ pc[e] = "send"
  /\ Goto(e, "persist")
  /\ UNCHANGED <<callVars, account, inboxVars, histVars>>

\* The document of e goes in; unless its push was skipped it is announced next.
Create(e) ==
  /\ stored' = stored \cup {e} /\ created' = created \cup {e}
  /\ IF pc[e] = "persist" /\ InApp(e) THEN Goto(e, "publish") ELSE Finish(e)
  /\ quiet' = IF pc[e] = "persistSkip" THEN quiet \cup {e} ELSE quiet

\* Mutation: there is no unique index on externalRef.
PersistAgain(e) ==
  /\ pc[e] \in {"persist", "persistSkip"}
  /\ Create(e)
  /\ UNCHANGED <<callVars, account, marks, pushed, told, cut, lapsed>>

\* Mutation: a duplicate is announced as well.
PersistTelling(e) ==
  /\ pc[e] \in {"persist", "persistSkip"}
  /\ IF Ref[e] # NoRef /\ \E g \in stored : Ref[g] = Ref[e]
     THEN Goto(e, "publish") /\ UNCHANGED <<stored, created, quiet>>
     ELSE Create(e)
  /\ UNCHANGED <<callVars, account, marks, pushed, told, cut, lapsed>>

\* Notification.create under the unique index on externalRef; a duplicate is
\* swallowed, and then nothing is announced.
Persist(e) ==
  /\ pc[e] \in {"persist", "persistSkip"}
  /\ IF Ref[e] # NoRef /\ \E g \in stored : Ref[g] = Ref[e]
     THEN Finish(e) /\ UNCHANGED <<stored, created, quiet>>
     ELSE Create(e)
  /\ UNCHANGED <<callVars, account, marks, pushed, told, cut, lapsed>>

\* publishNewEvents.
Publish(e) ==
  /\ pc[e] = "publish"
  /\ Finish(e)
  /\ told' = told \cup {e}
  /\ UNCHANGED <<callVars, account, inboxVars, pushed, quiet, cut, lapsed>>

\* publishNewEvents in a process whose gateway has not called initialize yet.
PublishNothing(e) ==
  /\ "realtime" \in Faults
  /\ pc[e] = "publish"
  /\ Finish(e)
  /\ quiet' = quiet \cup {e}
  /\ UNCHANGED <<callVars, account, inboxVars, pushed, told, cut, lapsed>>

-----------------------------------------------------------------------------
(* The inbox, and the other writers of what the worker reads.              *)

\* markAsRead on one document, markAllAsRead on those not read yet.
MarkRead(D, f) ==
  /\ D # {}
  /\ marks' = [e \in Execs |-> IF e \in D THEN marks[e] \cup {f} ELSE marks[e]]
  /\ UNCHANGED <<callVars, queueVars, pc, account, stored, created, histVars>>

\* The documents shown on the in-app surface f that have not been read there.
Unread(f) == {e \in stored : InApp(e) /\ f \notin marks[e]}

MarkAsRead == \E f \in Surfaces : \E e \in Unread(f) : MarkRead({e}, f)
MarkAllAsRead == \E f \in Surfaces : MarkRead(Unread(f), f)

\* MongoDB ends a document fifteen days after it went in: its job is long over.
ExpireDocument(e) ==
  /\ e \in stored
  /\ pc[e] = "idle" /\ job[JobOf(e)] \in {"done", "failed"}
  /\ stored' = stored \ {e}
  /\ marks' = [marks EXCEPT ![e] = {}]
  /\ UNCHANGED <<callVars, queueVars, pc, account, created, histVars>>

\* DeleteUserAccountProcessor sets deletedAt (when it comes to that is the matter
\* of module AccountDeletion).
DeleteAccount ==
  /\ account = "open"
  /\ account' = "deleted"
  /\ UNCHANGED <<callVars, queueVars, pc, inboxVars, histVars>>

\* cleanupMongoNotifications, at each attempt of the deletion job, one that finds no
\* row included, or at none: the documents go, and the settings beside them.
CleanUp ==
  /\ account # "open"
  /\ stored # {}
  /\ stored' = {}
  /\ marks' = [e \in Execs |-> {}]
  /\ UNCHANGED <<callVars, queueVars, pc, account, created, histVars>>

\* An operator deletes the row: no statement of the API does, but processSendPush
\* and the reconciler ask whether it is there.
RemoveRow ==
  /\ ~Gone
  /\ account' = "gone"
  /\ UNCHANGED <<callVars, queueVars, pc, inboxVars, histVars>>

\* Mutation: documents without an externalRef are passed over.
ReconcileReferred ==
  /\ Gone
  /\ stored' = {e \in stored : Ref[e] = NoRef}
  /\ stored' # stored
  /\ marks' = [e \in Execs |-> IF e \in stored' THEN marks[e] ELSE {}]
  /\ UNCHANGED <<callVars, queueVars, pc, account, created, histVars>>

\* reconcileNotifications: find, ask which recipients have a row, deleteMany; a row
\* that is gone never comes back.
Reconcile ==
  /\ Gone
  /\ stored # {}
  /\ stored' = {}
  /\ marks' = [e \in Execs |-> {}]
  /\ UNCHANGED <<callVars, queueVars, pc, account, created, histVars>>

-----------------------------------------------------------------------------

Route(c) == Reserve(c) \/ ReserveBlind(c) \/ QueuePush(c) \/ CallEnds(c)

Process(e) ==
  \/ Resolve(e) \/ SendMail(e) \/ CheckUser(e) \/ Send(e) \/ SendRefused(e)
  \/ Persist(e) \/ Publish(e) \/ PublishNothing(e)

Next ==
  \/ \E c \in Calls : Route(c)
  \/ \E j \in Jobs : QueueOther(j) \/ Take(j) \/ OthersFail(j) \/ JobDone(j)
  \/ \E e \in Execs : Process(e) \/ Fail(e) \/ ExpireDocument(e)
  \/ MarkAsRead \/ MarkAllAsRead
  \/ DeleteAccount \/ CleanUp \/ RemoveRow \/ Reconcile

Spec == Init /\ [][Next]_vars

\* A worker takes what is queued and goes on with what it runs, and the
\* reconciler runs every night; nothing makes a call or a client go on.
Fairness ==
  /\ \A j \in Jobs : SF_vars(Take(j)) /\ WF_vars(JobDone(j))
  /\ \A e \in Execs : WF_vars(Process(e))
  /\ WF_vars(Reconcile)

FairSpec == Spec /\ Fairness

-----------------------------------------------------------------------------

\* Type correctness: an execution is only in flight for a job that has begun it,
\* and only executions that a job began have stored, pushed or announced.
TypeOK ==
  /\ key \in BOOLEAN
  /\ call \in [Calls -> {"idle", "reserved", "over"}]
  /\ job \in [Jobs -> {"none", "waiting", "active", "done", "failed"}]
  /\ tries \in [Jobs -> 0..MaxTries]
  /\ pc \in [Execs -> {"idle"} \cup PushSteps \cup MailSteps]
  /\ account \in {"open", "deleted", "gone"}
  /\ stored \in SUBSET Execs
  /\ created \in SUBSET Execs
  /\ marks \in [Execs -> SUBSET Surfaces]
  /\ pushed \in SUBSET Execs
  /\ told \in SUBSET Execs
  /\ quiet \in SUBSET Execs
  /\ cut \in SUBSET Execs
  /\ lapsed \in BOOLEAN

\* The pipeline keeps what Inbox promises under every interleaving, retry and
\* overtaken batch: one document per externalRef, announced once, read for good.
Promise == INSTANCE Inbox WITH
  Docs <- Execs, closed <- account # "open",
  delivered <- created, announced <- told

InboxPromise == Promise!Spec

\* An event is pushed at most once, in spite of repeated calls and retries,
\* until an attempt is cut off or the dedupe key has lapsed or was passed by.
OnePushPerEvent ==
  ~lapsed => \A e, g \in pushed :
    /\ Ref[e] = "event" /\ Ref[g] = "event"
    /\ e \notin cut /\ g \notin cut
    => e = g

\* A document with in-app surfaces is announced by the attempt that stored it,
\* and by no other.  One whose push was skipped, that was stored by a process with
\* no sockets yet, or whose attempt was cut off after storing it, never is; and
\* everything announced was there.
AnnouncedByItsAttempt ==
  /\ told \subseteq created \ quiet
  /\ \A e \in created \ (quiet \cup cut) :
       InApp(e) /\ pc[e] # "publish" => e \in told

\* A call that queued its push gets its document into the inbox, over the retries
\* and whatever the account's deletion is at, unless the row goes or all attempts
\* fail.
EventReachesInbox ==
  \A c \in Calls :
    job[c] = "waiting" ~>
      Gone \/ job[c] = "failed" \/ (\E e \in stored : Ref[e] = "event")

\* "Orphan cleanup is handled by a scheduled reconciler job" (README.md:292): no
\* document of a customer without a row is left in the end, those included that
\* attempts under way store after the row has gone.
OrphansAreDeleted == <>[]Gone => <>[](stored = {})
=============================================================================
