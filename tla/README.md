# A TLA+ model of the starter pack's API

The repository is a NestJS monorepo: one API (`apps/api`), packages it is built
from (`packages/db`, `jobs`, `realtime-core`, `mongodb`, `otp`, `storage`,
`email`) and a documentation site. The API keeps its state in PostgreSQL
(through Drizzle), MongoDB (notifications), Redis (caches, locks, presence,
idempotency records) and BullMQ queues. Almost no handler runs in a database
transaction, so two requests, a worker and a crash meet between any two awaited
statements. That is what these modules are about: *an action is one awaited
statement or command, with all the code up to the next one*.

All paths below are relative to the repository; `A/` is `apps/api/src/`.

## 1. The system

| Component | State it keeps | Operations | Hard behaviour | What makes it correct |
|---|---|---|---|---|
| Customer sessions: `AuthService`, `AuthSessionService` (`A/modules/auth`) | `customers`, `user_device`, `customer_sessions` | login, refresh, logout, device lookup, single-session enforcement | 6 to 9 statements per login, none in a transaction; other writers of `user_device` | one live mobile session; no tokens for a closed account; a deleted session stays deleted; a token that was replaced is refused |
| `JwtStrategy`, guards | none (reads sessions and actors) | validate | reads are stale by the time the handler writes | an expired session or a closed account is refused |
| `VerificationTokenService`, OTP flows of `AuthService` | `verification` | create, consume by token or OTP, mark consumed | delete-then-insert, check-then-mark, lost attempt counts | a code works once, for its target, within its attempts |
| `UserService.deleteAccount`, `DeleteUserAccountProcessor` | `customers`, a delayed BullMQ job, MongoDB data | ask, run job, retry | days between request and effect; crash between job and ban | the grace period; no ban without a job; the deletion completes |
| `CustomersService`, `TeamService` | `customers`, `admin_users`, `account` | create, update, ban, soft delete | closing an account races with its sessions | as above |
| Roles and permissions (`A/modules/role*`, `permissions`, `RoleGuard`, the seed) | `role`, `permission`, `role_permission`, `admin_sessions` | assign, update, delete, check; log in, refresh | tokens carry a role that changes later; two transactions on one role | a request is authorised by current rights after a refresh; a ban reaches every session |
| Idempotency keys (`A/common/idempotency`) | a Redis record per key | begin, commitSuccess, commitFailure | TTL, crash, failing commands, GET then SET | at most one effect per key, none forgotten; replays match |
| `RedisCacheService` (`A/services/redis`) | cache entries, locks | getOrSetWithLock, invalidate, invalidatePattern | unowned lock, stale refill after invalidation | one loader at a time; no stale value stays |
| `IpThrottlerGuard` | a counter per address | canActivate | INCR and EXPIRE are two commands | a limit that ends |
| Realtime (`packages/realtime-core`, `A/services/realtime`) | a presence key per user, two kinds of room keys, metrics | connect, disconnect, join, leave, locate; ask who is present | several sockets and handlers per user, two commands per update, TTLs | a socket that is gone is forgotten; a push is suppressed only for who looks |
| Notifications (`A/modules/notifications`, `A/modules/notification`, router, orphan reconciler) | MongoDB documents, dedupe keys, queue jobs | route, send push, mark read, reconcile | retries, duplicates, batches overtaken by their retry | an event is pushed once, stored once, announced by who stored it; no documents of a customer who is not there |
| Queues (`A/services/bullmq`, `packages/jobs`) | BullMQ | register, enqueue | external | retries are safe |
| Storage, email, OTP/SMS, firebase, nepse, pagination, swagger, docs site | files or nothing | I/O and formatting | none, or outside the process | - |

**Interaction.** A login calls `AuthSessionService`, which shares `user_device`
with the push worker and with `syncMobilePushToken`. Closing an account
(deletion job, admin ban, soft delete) writes `customers` and deletes sessions
while logins and refreshes are in flight. The push worker asks the realtime keys
whether the customer looks at a surface, and announces what it has stored over the
sockets. The deletion job marks the row of `customers` and deletes the documents itself; the
orphan reconciler deletes those of customers without a row, which no statement of the API
brings about. The guards believe the role in an access token, which team and role administration
change under it. Requests and workers communicate
through BullMQ jobs; servers share state through Redis.

`PROJECT.json` lists every component with its status, and the hazards at the
lines where they bite.

## 2. The modules

| Module | Models | Composes |
|---|---|---|
| `AuthSession` | logins, refreshes and every other writer of the sessions of one customer | |
| `AuthSessionProofs` | its theorems | `AuthSession` |
| `AtMostOnce` | abstract: what an idempotency key promises its clients | |
| `Idempotency` | the interceptor, the service and the Redis record of one key | implements `AtMostOnce` |
| `IdempotencyProofs` | its theorems, the refinement among them | `Idempotency` |
| `DeletionPromise` | abstract: what a customer who asks for deletion is promised | |
| `AccountDeletion` | self-deletion, its delayed job and worker, admin ban and soft deletion of one customer | implements `DeletionPromise` |
| `AccountDeletionProofs` | its theorems, the refinement among them | `AccountDeletion` |
| `OneTimeCode` | abstract: what a customer is promised of a code or a link | |
| `Verification` | creation and confirmation of one customer's codes and links | implements `OneTimeCode` |
| `VerificationProofs` | its theorems, the refinement among them | `Verification` |
| `ActivityCache` | one cached query over the activity log, its lock and its invalidation | |
| `ActivityCacheProofs` | its theorems | `ActivityCache` |
| `Realtime` | the sockets of one customer, their handlers, and what Redis remembers of them | |
| `RealtimeProofs` | its theorems | `Realtime` |
| `Inbox` | abstract: what the pipeline promises to one customer's inbox | |
| `Notify` | one event's calls, jobs of every kind with their attempts, documents and read marks of one customer | implements `Inbox` |
| `NotifyProofs` | its theorems, the refinement among them | `Notify` |
| `Access` | roles, their permissions, team members, their sessions and tokens, the seed, one guarded request | |
| `AccessProofs` | its theorems | `Access` |
| `MC*` | small instances (symmetry) | their module |

### AuthSession

One customer. `device` and `active` are the rows of `user_device`, `state`, `on`
and `token` those of `customer_sessions` (`expired` is `expiresAt` in the past,
`token` names which minted refresh token the stored hash is of). `pc` is where
each request in flight is; `dev`, `row`, `sess`, `others`, `todo` are the
locals its later statements use, so a value read before an await is used as it
was read. The actions of a login follow `validatePasswordCredentials` ->
`issueAuthResult` -> `findOrCreateDevice` -> `invalidateDeviceSessions` ->
`enforceSingleMobileSession` (its two `Promise.all` statements in either order)
-> the INSERT. `FindDevice` picks *any* row with the device id, since
`LIMIT 1` does and nothing makes the pair unique. The statements of ban, soft
delete and account deletion are separate actions, because each can be delayed
past anything else; `AccountDeletion` has those handlers whole.

Three history variables: `alone` (no other login or refresh overlapped this
one), `cut` (the account was closed when it began), `lapsed` (see below).

The schema says mobile sessions are single. The code does not keep that, and
`SingleUnlessLapsed` says exactly until when it does: `lapsed` is set (1) when a
login inserts a session although another login or refresh overlapped it, (2)
when an overlapped refresh revives a session that was expired meanwhile, (3)
when a push rejection clears `isActive`, (4) when a login is given up between
its two enforcing statements. Everything else (logouts, expiry, token sync,
bans, abandoned requests elsewhere) is shown harmless to the rule.

### AtMostOnce and Idempotency

The abstract key takes one effect and hands out answers of effects made for the asker's
payload, until it lapses. The concrete one is `GET`, `SET NX EX`, `GET`, handler, `GET`,
`SETEX` or `GET`, `DEL`, one action per command; a command can fail before or after Redis
applied it, the server can stop anywhere, and the two TTLs expire. The handler is external
and taken to be atomic: it takes effect and returns, or throws without effect. No controller
of the repository uses the decorator, and for one that throws halfway `commitFailure` would
free the key of half an effect. `lapsed` is set when a handler outlives its PENDING record,
when an effect could not be recorded, and when the day of a record is over. The refinement
maps nothing but `rec`, `pc` and `holder` away.

### DeletionPromise and AccountDeletion

One customer, time in days. A request asks (`AskDeletion`), looks for the job,
adds it, bans, purges; the worker reads, soft-deletes, cleans MongoDB; an
attempt can fail anywhere and is retried `MaxAttempts` times. The BullMQ job
(`JobDue`, `JobFails`) is external, modelled from the options the code passes
(`jobId`, `delay`, `removeOnComplete`, `removeOnFail`) and the queue's default
attempts.

The abstract deletion is asked for, announced to each request, and happens once: never
before the grace of the *first* request is over, and, until `lapsed`, not before any
day that was announced. The mapping keeps `day`, `asked`, `told`, `deletedOn` and
`lapsed` and forgets the account, the job and the requests.

### OneTimeCode and Verification

One customer and one purpose (every statement filters by purpose, so purposes do
not meet). `value` and `verified` are the two columns of the contact, `state`,
`target` and `attempts` the records; a record stands for its link token and its
code, so a client that presents a secret presents a record, or `NoRecord` for a
wrong one. Creation is `Ask`, `Clear`, `Insert`; confirmation is `ConsumeByToken`
or `ConsumeByOtp`, then `Miss`, or `Lookup` (e-mail only), `Apply`, `Mark`.
`held` and `seen` are what a request read before its awaits. `Edit` is the two
operations that write a contact and leave `...Verified` alone.

The code checks `consumedAt` in one statement and writes it in another, after the
effect; the attempts are read and written back; creation deletes and then
inserts. What survives is stated with history variables: `raced` (two
confirmations of the record overlapped, or one was cut short between its effect
or its wrong guess and the write that records it), `crossed` (another creation
was under way at the last clearing), `edited`.

The abstract code is sent once to one contact, used once, guessed wrong `MaxAttempts`
times at most, and using it is the only way to become verified, except as far as the
code was `disturbed` or the contact `edited`. The mapping takes `raced` for `disturbed`
and forgets the rows, the expiries and what requests hold.

### ActivityCache

One key of `RedisCacheService` over the activity log, whose size stands for its
content: an answer is the number of records it saw. A reader is `Get`, `Lock`,
`Load`, `Store`, `Release`, and polls while the lock is taken; a call that
records an activity is `CreateRecord`, `Scan`, `DeleteKeys`. Every command can fail,
calls can be cut short, both TTLs run out. The lock is a bare key, as in the
code: whoever deletes it deletes whoever's it is. `lapsed` says that it expired
under a loader (and is reset when the last loader is gone); `tainted` that an entry
is stale and nobody will delete it, which takes a loader overtaken by a whole
invalidation, or an invalidation that failed.

### Realtime

One customer's `Sockets`, under one of three guards: `jwt`, which leaves the
user on the HTTP request and never on `socket.data`; `disabled` (`WS_AUTH_DISABLED`);
and `owner`, the guard the e2e suite installs. `presence` is the set of ids with a
presence key, `room[f]` and `hold[s]` are the two keys of
`NotificationRoomPresenceService`, `counted` and `activeCount` the metrics. Message
handlers are slots `h` with their locals `sock`, `surf`, `seen` (what a GET
answered): `MarkRead`/`MarkWrite`, `UnmarkRead`/`Unmark`, `Locate`/`LocateWrite`.
`handleDisconnect` starts `clearSocket` and `markOffline` without waiting for either:
`closing[s]` is what is left of them. `Connect` opens the socket at once, `Accept` and
`Reject` are what `handleConnection` comes to later. `Ask`, `AskExists`, `AskRemove` are
the push worker's `isSurfacePresent`; they are there because the question removes sockets
from the room sets under everybody else, and no property reads its answer. A step issues
its Redis command with it, since a server sends its commands in order over one connection.
Every command can fail (`Accept`, `HandlerFails`, `OfflineFails`, `ClearFails`,
`AskFails`), and of a pipeline a part may have run. `Crash` ends every handler and leaves
Redis alone; every key can expire at any time, whatever its TTL.

Three history variables say when nothing is promised: `loose` (events of the socket
overlapped; it left a room by `leave_room`, which knows nothing of marks, however orderly;
`unmarkPresent` or `clearSocket` failed, which the gateway only logs; or the server died),
`raced` (the socket closed while its token was validated), `stray` (the presence key
outlives the sockets: it was written after the socket had closed, it is not the key that
`markOffline` deletes, `markOffline` failed, or the server died).

### Inbox and Notify

The abstract inbox delivers a document once, never has two with one reference, announces
a document once and while it is there, keeps read marks, and empties only once the account
is closed. `Notify` is the code: `routeEvent` is `Reserve` (`SET NX`), `QueuePush` or
`CallEnds`; a job is taken, attempted and retried up to `MaxTries`; an execution
`<<j, t>>` is one attempt, goes through `check`, `send`, `persist` or `persistSkip`,
`publish`, and names the document it stores. Promotions address several customers in
one `Promise.all`: `OthersFail` is another recipient's rejection, which fails the job
at once and leaves this customer's handler running beside the retry. `Calls` are
pushes of the router (an `externalRef` made of the dedupe key, stored even if
skipped), `Notices` those of `AuthService` and `UserService` (no `externalRef`, dropped if
skipped), `Promos` and `Mails` the promotions. What presence, settings, devices and FCM
answer is free. `PublishNothing` is `publishNewEvents` in a process whose gateway has not
called `initialize` yet (the fault `realtime`).

`account` is the row of `customers`: `open`, `deleted` (the deletion job has set
`deletedAt`) or `gone`. The two closed states are different things. A customer marked
deleted is pushed to and stored for as before, because `processSendPush` and the promotions
ask for the row and not for `deletedAt`; `CleanUp` is the `deleteMany` of the deletion job,
at each of its attempts. Only of a row that is gone do `CheckUser` and `Reconcile` take
notice, and since no statement of the API removes one, `RemoveRow` is an operator's.
`Reconcile` is one step: a row that is gone never comes back, so what the reconciler has
read stays true. The mapping to `Inbox` takes both states for closed.
 `lapsed` says that the dedupe key was lost or
passed by, `cut` which attempts failed or were overtaken, `quiet` which documents were
stored with their push skipped or could not be announced.

### Access

`name`, `known`, `grants`, `roleOf`, `team`, `banned`, `accounts`, `live` are the tables; an
access token is `<<session, role>>`, in `logins` or `refreshes` while it is being made and
in `tokens` until it expires. A request is validated, passes `RoleGuard`, runs its
handler (`rq`). `assignPermissionsToRole` is the transaction that is taken apart here:
`Begin` takes the snapshot of its DELETE, which then waits for rows that another
transaction has deleted and does not see rows committed meanwhile (READ COMMITTED);
`Commit` inserts. The other transactions of the code (`TeamService.create`, registration,
`CustomersService.create`) insert rows that nobody can refer to before the commit: the first
is one step (`CreateMember`), and customers are there when `AuthSession` and the other
modules of one customer begin. A ban is two statements in parallel. The seed goes
statement by statement (`SeedPerms`, `SeedRoles`, `SeedFind`, `SeedLinks`, `SeedUser`,
`SeedAccount`), passes over a role it does not find any more and stops when that is
`superadmin`, may stop between any two and may be run again beside everything else.
History: `stale` (tokens read before their owner's role changed), `rq.calm` (nothing
changed under this request), `raced` (sessions that may outlive a ban), `crossed` and
`mixed` (overlapping assignments and the roles they, or the seed, wrote last), `last`.

## 3. The runs

| Run | Bounds | What it shows |
|---|---|---|
| `auth_session` | 2 requests, 2 devices, 2 rows, 2 sessions, 2 tokens per session; pushes and abandoned requests; symmetry over all four sets | `TypeOK`, `SingleUnlessLapsed`, `EnforcementReach`, `ClosedAccountGetsNoTokens`, `NoResurrection` |
| `auth_session_push` | 1 request, pushes | *violation* of `SingleMobileSession`: a rejected push, then a login elsewhere |
| `idempotency` | 3 attempts, 2 payloads, all faults | `OneEffectUnlessLapsed`, `AnswersMatch`, `EffectsStayKnown`, `RecordedStays`, `PromiseKept` (refinement) |
| `account_deletion` | 3 requests, grace 2, 5 days, 2 attempts, all faults | `NotEarlyUnlessLapsed`, `NoLimbo`, `GracePromise` (refinement), `DeletionCompletes` (liveness) |
| `account_deletion_early` | the same with crashes only | *violation* of `NotBeforeAnnounced`: crash after queueing the job, second request a day later |
| `verification` | 2 requests, 2 records, 2 contacts, 2 attempts; edits and abandoned requests; symmetry over the three sets | `UsedOnceUnlessRaced`, `OneRecordUnlessCrossed`, `VerifiedUnlessEdited`, `CodePromise` (refinement, with the bound on wrong guesses) |
| `verification_used` | the same | *violation* of `UsedOnce`: two confirmations read the record before either marks it |
| `activity_cache` | 3 readers, 2 writers, all faults | `OneLoaderUnlessLapsed`, `FreshUnlessTainted`, `CallsEnd` (liveness) |
| `realtime` | 2 sockets (one sends room messages, one locations), 1 surface, 2 message handlers at once, the three guards, failing commands, crashes, TTLs | `SuppressesOnlyJoined`, `OfflineAfterLast`, `CountsOpenSockets`, `ClosedIsForgotten` (liveness) |
| `realtime_offline` | the same under the guard `jwt` | *violation* of `OfflineAfterDisconnect`: connect, validate, disconnect |
| `notify` | 2 calls for one event, or 1 notice, or 1 promotion, or 1 mail; 2 attempts, 2 at once, 2 cuts, all faults; 1 surface | `OnePushPerEvent`, `AnnouncedByItsAttempt`, `InboxPromise` (refinement), `EventReachesInbox`, `OrphansAreDeleted` (liveness) |
| `access` | 2 members, 3 role ids, the 2 role names of the seed, 2 permissions, 1 session id, 2 assignments (symmetric), 3 changes | `AllowedByRole`, `BannedUnlessRaced`, `AssignedTogether` |

Every run checks its module's `TypeOK` too, the violations excepted.

**Why the bounds are enough to be interesting.** Two requests are what every race
of the session code needs (each pair of statements of two handlers interleaves),
and two devices, rows and sessions give one of each that is "own" and one that
is "other"; duplicate rows of one device occur. A third idempotency attempt is
needed for a late failure of one attempt to hit a record that another wrote
while a third replays. Three requests on an account let a crashed request, its
retry and an administrator meet; five days hold two grace periods that overlap.
Two requests on two records
let a creation overtake a confirmation, and two attempts tell a lost count from a
refused guess; a record id is used once, so a behaviour of `verification` sees two
creations. Three readers are needed for the late `DEL` of one to free the lock of
a second for a third; two writers for one to delete what the other has let go
stale. Two sockets are
what tells a key per user from a key per socket, and two handlers on one socket let a
join overtake a leave or a disconnection overtake both; giving each socket one kind of
message keeps the run small and loses no race, since room keys are per socket and
the location only matters to the presence key, which both sockets share. Two calls
and two attempts let a repeated call meet a retry; the kinds of job share no state but
the inbox, where documents of different kinds never collide, hence `Workloads`; two cuts
let both attempts of a job fail, or one be overtaken by the other. Three role ids are
the two of the seed and one more, so a role can be removed and another created under
its name, or the other role renamed to it before the seed runs again; three changes put two of them around a login and a third inside it. One
session id suffices since sessions never interact but through tables the run has.
The theorems remove the bounds from the safety properties.

The bounds that are not the code's: a session is not refreshed beyond `MaxToken` mints;
no deletion is asked for that falls after `MaxDay`; at most `MaxInFlight` message
handlers, and `MaxRunning` attempts, run at once; `MaxCuts` attempts are cut off;
`Workloads` are the sets of jobs queued together; `MaxChanges` changes are made to roles
and members. `MaxAttempts` and `MaxTries` are the queue's own setting
(`BULL_DEFAULT_ATTEMPTS`, 4 by default).

**Deadlock** is not checked: every model may stop, since no client has to ask.

**Fairness.** `ActivityCache!FairSpec` assumes that Node continues the readers and writers
it has started (weak fairness; a crash is an action that ends them) and that Redis drops a
lock whose TTL is over. `AccountDeletion!FairSpec` assumes the same for requests, that workers take due jobs and that days pass.
`Realtime!FairSpec` assumes that handlers once begun go on and that Redis ends
every key (the TTLs are written with each key); `Notify!FairSpec` that a worker goes
on with what it runs, takes what is queued (strongly, since a free slot comes and
goes), and that the reconciler runs again (its cron).
Nothing makes a client ask, a fault happen, or a command fail.

## 4. What is proved

TLAPS checks, for every value of the constants, every safety property and every action
property that a passing run checks, the four refinements, and the results below that go
beyond the runs. `PROJECT.json` lists the theorems; the others are lemmas.

### The properties of the runs, and their invariants

* `AuthSessionProofs`: types; a conjunction `Shape` of what each program point
  knows of its locals; `ReachInv`, the strengthening of `EnforcementReach` that
  follows an undisturbed login from its device lookup to its INSERT; `LapseInv`,
  the strengthening of `SingleUnlessLapsed`, whose heart is `Covered`: until the
  rule lapses every live mobile session is on an active row, or on one a login
  in flight has switched off and is about to purge. Then the closed-account and no-resurrection theorems.
* `IdempotencyProofs`: types, `Recorded` (answers and records name effects of the
  same payload), `Held` (until the key lapses only its holder is past `begin`), and from
  them that an effect is on record or its attempt still holds the key
  (`EffectsStayKnown`).
* `AccountDeletionProofs`: types (with `Fits`, which keeps days within the bound),
  `Timely` (a job is due at least the grace after the first request) and
  `Announced` (the job a request in flight has found is of its own day; without
  a lapse a customer with a job is banned, or about to be), and from it that a customer
  banned for deletion has a job (`NobodyInLimbo`).
* `VerificationProofs`: types (with what each program point knows of the record it
  holds); for `EffectOnce` the invariant that an unraced record has been spent once
  at most, and only if it is consumed, expired, gone or in the hands of the one request
  that is about to mark it; for `GuessesCounted` that an unraced record's
  guesses are its attempts, until it is gone; for `OneRecord` that, without a crossing,
  a creation past its clearing is alone with no record stored; and `VerifiedByCode`.
* `ActivityCacheProofs`: types, `OneLoader` and `Fresh`; the last two are inductive
  as they stand, since `lapsed` and `tainted` say when they are suspended.
* `RealtimeProofs`: types with `HandlerKnown` (a handler's socket has connected and has a
  user); `Indexed` (which sockets the metrics count, with the arithmetic of the counter);
  for `SuppressionIsEarned` the invariant `Tidy`, which follows the marks of a socket
  handled one event at a time through the GET and the write of its one handler; for
  `LastMarksOffline` that a key that is not stray is an open socket's, or about to be
  deleted by the right `markOffline`.
* `NotifyProofs`: types with `Counted` (attempts against the job's state); `Staged` and
  `Begun`, what an attempt has done at each of its steps, and from them
  `AnnouncementsMatch` (an attempt announces what it stored, and does unless skipped, cut
  off or in a process without sockets); for `PushedOnce` the invariant `KeyHeld`: until a lapse one call
  at most has won the key, and an attempt begins only after those before it were cut.
* `AccessProofs`: `Tables` and `Processes` (types, and the foreign and unique keys),
  `Placed`; `BanHolds` (from either half of a ban on, what the other half may miss has
  raced); `Crossing` (an assignment that is not crossed sees every row of its role, so its
  commit leaves just what it chose); `Fresh`, which ties a token that is not stale to its
  owner's role, and a calm request to its token.

### The refinements

Each is a theorem `PromiseIsKept`: initial states map to initial states, and one step
per action says which abstract step or stutter it is.

| Module | Implements | Steps that are not stutters |
|---|---|---|
| `Idempotency` | `AtMostOnce` | `Ask`, `TakeEffect`, `Answer`, `Lapse` |
| `AccountDeletion` | `DeletionPromise` | `Ask`, `Announce`, `Delete`, `Lapse`, `Pass` |
| `Verification` | `OneTimeCode` | `Send`, `GuessWrong`, `Use`, `Disturb`, `Edit` |
| `Notify` | `Inbox` | `Deliver`, `Announce`, `Read`, `Expire`, `Close`, `Empty` |

### How exact the lapses are

Many properties hold *unless* a history variable says that something happened. A
history variable that is set too readily would make such a property hollow, so
theorems show that it stays unset in the absence of what it names, and the
property then holds with no condition. The hypotheses are either on the faults a
behaviour may have or an assumption `[]P` on its interleavings; each is
satisfied by behaviours that reach the interesting states.

| Theorem | Without ... | Holds unconditionally |
|---|---|---|
| `SerialRequestsKeepSingleSession` | faults and overlapping logins or refreshes | `SingleMobileSession`, which `auth_session_push` violates |
| `FaultlessKeyHoldsOnce` | faults | one effect per key |
| `EffectIsAnswered` | crashes and Redis errors | who took effect gets the answer of that effect |
| `UnfailingIsOnTime` | faults | `NotBeforeAnnounced`, which `account_deletion_early` violates, and no limbo |
| `OneByOneKeepsLimits` | abandoned and overlapping confirmations | `UsedOnce`, which `verification_used` violates, and the bound on guesses |
| `PromptLoadersAreAlone`, `EntriesMoveForward` | callbacks slower than the lock | one loader; no entry replaced by an older one |
| `FreshWhenNotOvertaken` | errors, stops, overtaken loaders | the entry is newest or about to be deleted |
| `FaultlessEventPushedOnce` | faults | one push per event |
| `OrderlySocketsGoOffline` | failing Redis commands, crashes, sockets that close unaccepted, unknown or with a handler in flight | `OfflineAfterDisconnect`, which `realtime_offline` violates; only open sockets are counted |
| `UnmetBansReachAll` | failing statements of a ban, logins under way at one | the banned have no session |
| `SerialAssignmentsReplace` | overlapping assignments to a role | no right that neither the last assignment nor the seed gives |

Unconditional as well: `OneAnswerForAll` (clients of a key that has not lapsed get one
answer), `NothingInvented` (cached answers are never of more records than were written),
`RepeatsPushNothing` (repeated calls push nothing while the key is held, whatever attempts
are cut off), `DocumentsAreUnique`, `GraceIsAlwaysGiven` and `SpentTokensStaySpent`. One
is about the code as deployed: `JwtSocketsAreStrangers` says that under the guard `jwt` no
socket ever counts for a surface, so no push is ever suppressed, and that only its expiry
takes the presence of a customer away (`realtime_offline` is one behaviour of it).

### Finality

Statements that a state once reached is never left, of the form
`[](P => []P)` with the action properties that make it matter:

* `ShutOutForGood`: a closed account whose older requests have ended gets no session.
* `GoneForGood`, `ForgottenForGood`: a socket that is closed and settled, a customer whose
  last key is gone, do not come back.
* `EmptiedForGood`: once the row of the customer is gone and no attempt is past its look-up
  of it, an empty inbox stays empty, and nothing is pushed for it, though jobs are still
  queued and retried. Of a customer who is only marked deleted this is false.
* `BanIsFinal`: a member whose ban is through stays shut out, of refreshes under way and
  tokens not yet expired too.

They are the safety half of `ClosedIsForgotten` and `OrphansAreDeleted`, and for accounts
and bans what an administrator relies on.

### Assumptions, and what is model-checked only

The assumptions on constants are only those the modules state: the null values are not
elements of the sets they are the null of, the grace and the attempts are
positive, the kinds of job are disjoint, the seed knows the name `superadmin`. A theorem
about fewer faults says so in its ASSUME.

The liveness properties (`DeletionCompletes`, `CallsEnd`, `ClosedIsForgotten`,
`EventReachesInbox`, `OrphansAreDeleted`) are model-checked only: liveness under fairness is
out of the prover's reach. The four violations are counterexamples.

## 5. What is not modelled

* The credential checks behind a login, `fcmToken`, response headers and logs; listing,
  pagination and filters, which only read. `DEFAULT_EXPIRY_MS` of
  `packages/otp/src/otp-service.ts:16` is 60 minutes where its comment says 15;
  `VerificationTokenService` always passes its own expiry.
* Of `verification`, the purposes `phone_registration` (created, never consumed) and
  `phone_login` (consumed, never created); of the activity service, `findById`, whose key
  nothing invalidates, and that a page and its count come from two parallel queries.
* Of realtime, the zone and store indices of `PresenceManager` (`validate` names neither,
  so they stay empty), and event history: nothing calls `saveRoomEvent`
  (`realtime.service.ts:183`), so what `notification:sync` replays is always empty.
* Of notifications, e-mail templates, the sizes of batches, other customers than the one,
  and a dedupe key whose event was never queued: `Notify` has that step (`CallEnds`), and
  the code's choice is to lose the event (`notification-router.service.ts:67`).
* Of roles, `AccessGuard` and `FeatureGuard`, which import a module the repository does not
  have; profile columns and the password hash of a team member.
* `IpThrottlerGuard` (`ip-throttler.guard.ts:72`): INCR and EXPIRE are two commands, and a
  stop between them leaves a counter that never ends. No other component reads it.
* Storage, e-mail, SMS, firebase and nepse clients are I/O; the queues' registration,
  swagger, configuration, migrations and the documentation site keep no state that
  outlives a call. They are most of the repository's lines.

## 6. Plan

What is left, in order of what matters most:

1. More proofs: that the settled states of `Realtime` and `Notify` stay settled while
   *other* customers act (it takes the compositions below), and `AuthSession` as an
   implementation of an abstract session store.
2. Compositions: `AuthSession` with `AccountDeletion` (one customer, whole handlers),
   `Notify` with `Realtime`, where the worker's question and the announcement fall
   between a customer's join and the disconnection.
3. `Throttle`: the counter and its expiry.
4. The settings and listing operations of the inbox; the profile and password operations
   of `UserService`, which write single rows.

Smaller things met on the way, each at its line: presence and room keys are not renewed
while a socket stays open (`presence-manager.ts:29`,
`notification-room-presence.service.ts:46`); two joins of one socket overwrite each
other's room list (line 44 there); a rejected push clears a token that may be newer
(`notifications.processor.ts:353`); a team member's password is written before the rest of
the row (`team.service.ts:222`); `RoleService.update` looks for a duplicate name among the
rows with its own id, and only the unique index refuses one (`role.service.ts:102`); two
refreshes that overlap with one token both succeed, and the tokens of all but the last are
refused later (`auth.service.ts:528`); a customer marked deleted is still pushed to, and
what is stored for him after the clean-up of the deletion job stays its fifteen days
(`notifications.processor.ts:116`).
