--------------------------- MODULE ActivityCache ---------------------------
(***************************************************************************)
(* The audit log and its cache: ActivityRecordService writes the log and   *)
(* invalidates, ActivityService reads it through                           *)
(* RedisCacheService.getOrSet (apps/api/src/services).                     *)
(*                                                                         *)
(* One cached query.  An answer is the number of log records it was made   *)
(* from.  The scans for the patterns of the list and of the analytics run  *)
(* in parallel and delete different keys, so the one that finds this key   *)
(* is modelled; the other only delays the end of the call.                 *)
(***************************************************************************)
EXTENDS Naturals

CONSTANTS
  Readers,  \* calls of findAll or getAnalyticsOverview
  Writers,  \* calls of recordActivity
  Faults,   \* what the environment shows, out of FaultKinds
  None      \* no entry, no answer

FaultKinds == {"error", "stop", "slow"}

ASSUME FaultsAssumption == Faults \subseteq FaultKinds
ASSUME NoneAssumption == None \notin Nat
ASSUME CallsAssumption == Readers \cap Writers = {}

Calls == Readers \cup Writers

VARIABLES
  log,      \* how many records the collection has
  cache,    \* the key: the answer it holds, or None
  lock,     \* the key lock:<key> exists
  pc,       \* calls: next command; "done" once answered, failed or cut short
  loaded,   \* readers: what the callback returned
  lapsed,   \* history: the lock expired while a loader held it
  tainted   \* history: the entry was stored by a loader that a record had overtaken, or
            \* a call that recorded one did not get to delete it

vars == <<log, cache, lock, pc, loaded, lapsed, tainted>>

-----------------------------------------------------------------------------

Init ==
  /\ log = 0 /\ cache = None /\ lock = FALSE
  /\ pc = [c \in Calls |-> IF c \in Readers THEN "get" ELSE "create"]
  /\ loaded = [c \in Readers |-> None]
  /\ lapsed = FALSE /\ tainted = FALSE

\* Between the acquisition of the lock and its release.
Loading == {c \in Readers : pc[c] \in {"load", "store", "release"}}

\* Between the insertion of a record and the DEL of the key.
Invalidating == {c \in Writers : pc[c] \in {"scan", "del"}}

Goto(c, l) == pc' = [pc EXCEPT ![c] = l]

\* A loader goes; with the last one nobody is left to hold a lapsed lock.
Leave(c) == lapsed' = (lapsed /\ Loading # {c})

\* The last call that would have deleted a stale entry does not.
Neglect(c) ==
  tainted' = (tainted \/ (Invalidating = {c} /\ cache \notin {None, log}))

-----------------------------------------------------------------------------
(* Readers.                                                                *)

\* GET: a hit is the answer.  An error counts as a miss (fallbackOnError).
Get(c) ==
  /\ pc[c] = "get"
  /\ \/ Goto(c, IF cache = None THEN "lock" ELSE "done")
     \/ "error" \in Faults /\ Goto(c, "lock")
  /\ UNCHANGED <<log, cache, lock, loaded, lapsed, tainted>>

\* Mutation: the lock is taken without NX.
LockAnyway(c) ==
  /\ pc[c] = "lock"
  /\ lock' = TRUE
  /\ Goto(c, "load")
  /\ UNCHANGED <<log, cache, loaded, lapsed, tainted>>

\* SET lock NX: who does not get it sleeps and begins again.
Lock(c) ==
  /\ pc[c] = "lock"
  /\ lock' = TRUE
  /\ Goto(c, IF lock THEN "get" ELSE "load")
  /\ UNCHANGED <<log, cache, loaded, lapsed, tainted>>

\* ... its error ends the call, whether Redis has set the key or not.
LockFails(c) ==
  /\ pc[c] = "lock"
  /\ "error" \in Faults
  /\ lock' = TRUE \/ UNCHANGED lock
  /\ Goto(c, "done")
  /\ UNCHANGED <<log, cache, loaded, lapsed, tainted>>

\* Mutation: an error of the callback counts as an answer.
LoadAnything(c) ==
  /\ pc[c] = "load"
  /\ loaded' = [loaded EXCEPT ![c] = log] \/ ("error" \in Faults /\ UNCHANGED loaded)
  /\ Goto(c, "store")
  /\ UNCHANGED <<log, cache, lock, lapsed, tainted>>

\* The callback reads the collection; when it throws, the lock is released.
Load(c) ==
  /\ pc[c] = "load"
  /\ \/ loaded' = [loaded EXCEPT ![c] = log] /\ Goto(c, "store")
     \/ "error" \in Faults /\ Goto(c, "release") /\ UNCHANGED loaded
  /\ UNCHANGED <<log, cache, lock, lapsed, tainted>>

\* SETEX; an error is logged and the answer given all the same.
Store(c) ==
  /\ pc[c] = "store"
  /\ \/ /\ cache' = loaded[c]
        /\ tainted' = (loaded[c] # log /\ Invalidating = {})
     \/ "error" \in Faults /\ UNCHANGED <<cache, tainted>>
  /\ Goto(c, "release")
  /\ UNCHANGED <<log, lock, loaded, lapsed>>

\* DEL lock, whoever holds it by now.
Release(c) ==
  /\ pc[c] = "release"
  /\ \/ lock' = FALSE
     \/ "error" \in Faults /\ UNCHANGED lock
  /\ Goto(c, "done") /\ Leave(c)
  /\ UNCHANGED <<log, cache, loaded, tainted>>

-----------------------------------------------------------------------------
(* Writers.                                                                *)

\* AuditLog.create; an error is logged and nothing is invalidated.
CreateRecord(c) ==
  /\ pc[c] = "create"
  /\ \/ log' = log + 1 /\ Goto(c, "scan")
     \/ "error" \in Faults /\ Goto(c, "done") /\ UNCHANGED log
  /\ UNCHANGED <<cache, lock, loaded, lapsed, tainted>>

\* SCAN: the page this key is on, which finds it or not.
Scan(c) ==
  /\ pc[c] = "scan"
  /\ Goto(c, IF cache = None THEN "done" ELSE "del")
  /\ UNCHANGED <<log, cache, lock, loaded, lapsed, tainted>>

\* Mutation: nothing is deleted.
KeepKeys(c) ==
  /\ pc[c] = "del"
  /\ Goto(c, "done")
  /\ UNCHANGED <<log, cache, lock, loaded, lapsed, tainted>>

\* DEL of the keys found.
DeleteKeys(c) ==
  /\ pc[c] = "del"
  /\ cache' = None
  /\ tainted' = FALSE
  /\ Goto(c, "done")
  /\ UNCHANGED <<log, lock, loaded, lapsed>>

\* SCAN or DEL fails, which is logged: the entry stays.
InvalidationFails(c) ==
  /\ pc[c] \in {"scan", "del"}
  /\ "error" \in Faults
  /\ Goto(c, "done")
  /\ Neglect(c)
  /\ UNCHANGED <<log, cache, lock, loaded, lapsed>>

-----------------------------------------------------------------------------
(* The environment.                                                        *)

\* The TTL of the entry is over.
EntryExpires ==
  /\ cache # None
  /\ cache' = None
  /\ tainted' = FALSE
  /\ UNCHANGED <<log, lock, pc, loaded, lapsed>>

\* Mutation: the lock is set without EX.
LockStays == lock /\ FALSE /\ UNCHANGED vars

\* The ten seconds of the lock are over: only with "slow" while its loader runs.
LockExpires ==
  /\ lock
  /\ "slow" \in Faults \/ Loading = {}
  /\ lock' = FALSE
  /\ lapsed' = (Loading # {})
  /\ UNCHANGED <<log, cache, pc, loaded, tainted>>

\* The server stops in the middle of the call.
Stop(c) ==
  /\ "stop" \in Faults
  /\ pc[c] # "done"
  /\ Goto(c, "done") /\ Leave(c)
  /\ Neglect(c)
  /\ UNCHANGED <<log, cache, lock, loaded>>

-----------------------------------------------------------------------------

Reader(c) == Get(c) \/ Lock(c) \/ LockFails(c) \/ Load(c) \/ Store(c) \/ Release(c)

Writer(c) == CreateRecord(c) \/ Scan(c) \/ DeleteKeys(c) \/ InvalidationFails(c)

Next ==
  \/ \E c \in Readers : Reader(c)
  \/ \E c \in Writers : Writer(c)
  \/ \E c \in Calls : Stop(c)
  \/ EntryExpires \/ LockExpires

Spec == Init /\ [][Next]_vars

\* Node continues what it has started, and Redis drops a lock whose time is over.
FairSpec ==
  /\ Spec
  /\ \A c \in Readers : WF_vars(Reader(c))
  /\ \A c \in Writers : WF_vars(Writer(c))
  /\ WF_vars(LockExpires)

-----------------------------------------------------------------------------

\* Type correctness: an answer that is stored was loaded.
TypeOK ==
  /\ log \in Nat /\ cache \in Nat \cup {None} /\ lock \in BOOLEAN
  /\ pc \in [Calls -> {"get", "lock", "load", "store", "release",
                       "create", "scan", "del", "done"}]
  /\ loaded \in [Readers -> Nat \cup {None}]
  /\ \A c \in Readers : pc[c] = "store" => loaded[c] # None
  /\ lapsed \in BOOLEAN /\ tainted \in BOOLEAN

\* One reader at a time loads the answer, and holds the lock, until the lock of a
\* slow one expires; that lets the late DEL take the lock of its successor away, and
\* the rule holds again once all of them are gone.
OneLoaderUnlessLapsed ==
  ~lapsed => /\ \A c, d \in Loading : c = d
             /\ Loading # {} => lock

\* What the cache holds is the newest answer, or a call that recorded what is
\* missing is still going to delete it, unless a loader was overtaken by a record
\* and stored its answer after the key had been looked for.
FreshUnlessTainted ==
  cache \in {None, log} \/ Invalidating # {} \/ tainted

\* Every reader is answered, or gets an error, also when a loader stopped with the
\* lock in its hands.
CallsEnd == \A c \in Readers : <>(pc[c] = "done")
=============================================================================
