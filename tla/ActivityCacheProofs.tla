------------------------ MODULE ActivityCacheProofs ------------------------
(* Theorems of ActivityCache, for any number of readers and writers. *)
EXTENDS ActivityCache, TLAPS

\* Types are preserved.
LEMMA TypeStep == TypeOK /\ [Next]_vars => TypeOK'
<1> SUFFICES ASSUME TypeOK, [Next]_vars PROVE TypeOK'
  OBVIOUS
<1> USE DEF TypeOK, Calls, Goto
<1>1. ASSUME NEW c \in Readers, Reader(c) PROVE TypeOK'
  <2>1. CASE Get(c) BY <2>1, CallsAssumption DEF Get
  <2>2. CASE Lock(c) BY <2>2, CallsAssumption DEF Lock
  <2>3. CASE LockFails(c) BY <2>3, CallsAssumption DEF LockFails
  <2>4. CASE Load(c) BY <2>4, NoneAssumption, CallsAssumption DEF Load
  <2>5. CASE Store(c) BY <2>5, CallsAssumption DEF Store
  <2>6. CASE Release(c) BY <2>6, CallsAssumption DEF Release, Leave
  <2> QED BY <1>1, <2>1, <2>2, <2>3, <2>4, <2>5, <2>6 DEF Reader
<1>2. ASSUME NEW c \in Writers, Writer(c) PROVE TypeOK'
  <2>1. CASE CreateRecord(c) BY <2>1, CallsAssumption DEF CreateRecord
  <2>2. CASE Scan(c) BY <2>2, CallsAssumption DEF Scan
  <2>3. CASE DeleteKeys(c) BY <2>3, CallsAssumption DEF DeleteKeys
  <2>4. CASE InvalidationFails(c) BY <2>4, CallsAssumption DEF InvalidationFails, Neglect
  <2> QED BY <1>2, <2>1, <2>2, <2>3, <2>4 DEF Writer
<1>3. ASSUME NEW c \in Calls, Stop(c) PROVE TypeOK'
  <2>1. lapsed' \in BOOLEAN BY <1>3 DEF Stop, Leave
  <2>2. tainted' \in BOOLEAN BY <1>3 DEF Stop, Neglect
  <2> QED BY <1>3, <2>1, <2>2 DEF Stop
<1>4. CASE EntryExpires BY <1>4 DEF EntryExpires
<1>5. CASE LockExpires BY <1>5 DEF LockExpires
<1>6. CASE UNCHANGED vars BY <1>6 DEF vars
<1> QED BY <1>1, <1>2, <1>3, <1>4, <1>5, <1>6 DEF Next

\* The state of ActivityService's readers, ActivityRecordService's writers and the
\* two Redis keys is of the types TypeOK gives it; an answer is only stored loaded.
THEOREM TypeCorrect == Spec => []TypeOK
<1>1. Init => TypeOK
  <2> SUFFICES ASSUME Init PROVE TypeOK
    OBVIOUS
  <2>1. log \in Nat /\ cache \in Nat \cup {None} /\ loaded \in [Readers -> Nat \cup {None}]
    BY DEF Init
  <2>2. /\ pc \in [Calls -> {"get", "create"}]
        /\ \A c \in Readers : pc[c] # "store"
    BY DEF Init, Calls
  <2>3. lock \in BOOLEAN /\ lapsed \in BOOLEAN /\ tainted \in BOOLEAN
    BY DEF Init
  <2> QED BY <2>1, <2>2, <2>3 DEF TypeOK
<1> QED BY <1>1, TypeStep, PTL DEF Spec

-----------------------------------------------------------------------------

\* The rule of the lock is its own induction hypothesis.
LEMMA LoaderStep ==
  TypeOK /\ OneLoaderUnlessLapsed /\ [Next]_vars => OneLoaderUnlessLapsed'
<1> SUFFICES ASSUME TypeOK, OneLoaderUnlessLapsed, [Next]_vars
             PROVE  OneLoaderUnlessLapsed'
  OBVIOUS
<1> USE DEF OneLoaderUnlessLapsed, Loading, TypeOK, Calls, Goto
<1>1. ASSUME NEW c \in Readers, Reader(c) PROVE OneLoaderUnlessLapsed'
  <2>1. CASE Get(c) BY <2>1 DEF Get
  <2>2. CASE Lock(c) BY <2>2 DEF Lock
  <2>3. CASE LockFails(c) BY <2>3 DEF LockFails
  <2>4. CASE Load(c) BY <2>4 DEF Load
  <2>5. CASE Store(c) BY <2>5 DEF Store
  <2>6. CASE Release(c) BY <2>6 DEF Release, Leave
  <2> QED BY <1>1, <2>1, <2>2, <2>3, <2>4, <2>5, <2>6 DEF Reader
<1>2. ASSUME NEW c \in Writers, Writer(c) PROVE OneLoaderUnlessLapsed'
  BY <1>2, CallsAssumption DEF Writer, CreateRecord, Scan, DeleteKeys, InvalidationFails
<1>3. ASSUME NEW c \in Calls, Stop(c) PROVE OneLoaderUnlessLapsed'
  BY <1>3 DEF Stop, Leave
<1>4. CASE EntryExpires BY <1>4 DEF EntryExpires
<1>5. CASE LockExpires BY <1>5 DEF LockExpires
<1>6. CASE UNCHANGED vars BY <1>6 DEF vars
<1> QED BY <1>1, <1>2, <1>3, <1>4, <1>5, <1>6 DEF Next

\* getOrSetWithLock runs one callback at a time, with the lock in place, until the
\* lock of a slow one expires.
THEOREM OneLoader == Spec => []OneLoaderUnlessLapsed
<1>1. Init => OneLoaderUnlessLapsed
  BY DEF Init, OneLoaderUnlessLapsed, Loading, Calls
<1> QED BY <1>1, TypeCorrect, LoaderStep, PTL DEF Spec

-----------------------------------------------------------------------------

\* A stale entry has a call that will delete it, or was left over by one of the
\* steps that taint it.
LEMMA FreshStep ==
  TypeOK /\ FreshUnlessTainted /\ [Next]_vars => FreshUnlessTainted'
<1> SUFFICES ASSUME TypeOK, FreshUnlessTainted, [Next]_vars
             PROVE  FreshUnlessTainted'
  OBVIOUS
<1> USE DEF FreshUnlessTainted, Invalidating, TypeOK, Calls, Goto
<1>1. ASSUME NEW c \in Readers, Reader(c) PROVE FreshUnlessTainted'
  <2>1. CASE Store(c) BY <2>1, CallsAssumption DEF Store
  <2>2. CASE Get(c) \/ Lock(c) \/ LockFails(c) \/ Load(c) \/ Release(c)
    BY <2>2, CallsAssumption DEF Get, Lock, LockFails, Load, Release
  <2> QED BY <1>1, <2>1, <2>2 DEF Reader
<1>2. ASSUME NEW c \in Writers, Writer(c) PROVE FreshUnlessTainted'
  <2>1. CASE CreateRecord(c) BY <2>1 DEF CreateRecord
  <2>2. CASE Scan(c) BY <2>2 DEF Scan
  <2>3. CASE DeleteKeys(c) BY <2>3 DEF DeleteKeys
  <2>4. CASE InvalidationFails(c) BY <2>4 DEF InvalidationFails, Neglect
  <2> QED BY <1>2, <2>1, <2>2, <2>3, <2>4 DEF Writer
<1>3. ASSUME NEW c \in Calls, Stop(c) PROVE FreshUnlessTainted'
  <2>1. CASE cache \in {None, log} BY <1>3, <2>1 DEF Stop
  <2>2. CASE tainted BY <1>3, <2>2 DEF Stop, Neglect
  <2>3. CASE cache \notin {None, log} /\ ~tainted
    <3>1. PICK w \in Invalidating : TRUE BY <2>3
    <3>2. CASE Invalidating = {c} BY <1>3, <2>3, <3>2 DEF Stop, Neglect
    <3>3. CASE Invalidating # {c}
      <4>1. PICK d \in Invalidating : d # c BY <3>1, <3>3
      <4>2. d \in Invalidating' BY <1>3, <4>1 DEF Stop
      <4> QED BY <4>2
    <3> QED BY <3>2, <3>3
  <2> QED BY <2>1, <2>2, <2>3
<1>4. CASE EntryExpires BY <1>4 DEF EntryExpires
<1>5. CASE LockExpires BY <1>5 DEF LockExpires
<1>6. CASE UNCHANGED vars BY <1>6 DEF vars
<1> QED BY <1>1, <1>2, <1>3, <1>4, <1>5, <1>6 DEF Next

\* A cached list or analytics answer is the newest, or about to be deleted, unless a
\* loader was overtaken or an invalidation did not happen.
THEOREM Fresh == Spec => []FreshUnlessTainted
<1>1. Init => FreshUnlessTainted BY DEF Init, FreshUnlessTainted
<1> QED BY <1>1, TypeCorrect, FreshStep, PTL DEF Spec
-----------------------------------------------------------------------------

\* An entry, and an answer a loader is about to store, was made from records the
\* collection has.
NotAhead ==
  /\ cache # None => cache <= log
  /\ \A c \in Readers : loaded[c] # None => loaded[c] <= log

\* Nothing is invented: whatever fails, no reader is shown more than was recorded.
THEOREM NothingInvented == Spec => []NotAhead
<1>1. Init => NotAhead
  BY DEF Init, NotAhead
<1>2. TypeOK /\ NotAhead /\ [Next]_vars => NotAhead'
  <2> SUFFICES ASSUME TypeOK, NotAhead, [Next]_vars PROVE NotAhead'
    OBVIOUS
  <2> USE NoneAssumption DEF NotAhead, TypeOK, Goto
  <2>1. ASSUME NEW c \in Readers, Reader(c) PROVE NotAhead'
    <3>1. CASE Load(c) BY <3>1 DEF Load
    <3>2. CASE Store(c) BY <3>2 DEF Store
    <3> QED
      BY <2>1, <3>1, <3>2 DEF Reader, Get, Lock, LockFails, Release
  <2>2. ASSUME NEW c \in Writers, Writer(c) PROVE NotAhead'
    BY <2>2 DEF Writer, CreateRecord, Scan, DeleteKeys, InvalidationFails
  <2>3. CASE EntryExpires \/ LockExpires \/ \E c \in Calls : Stop(c)
    BY <2>3 DEF EntryExpires, LockExpires, Stop
  <2>4. CASE UNCHANGED vars BY <2>4 DEF vars
  <2> QED BY <2>1, <2>2, <2>3, <2>4 DEF Next
<1> QED BY <1>1, <1>2, TypeCorrect, PTL DEF Spec

\* One loader, and it holds the lock.
OneLoaderAlways ==
  /\ \A c, d \in Loading : c = d
  /\ Loading # {} => lock

\* The rule of the lock has no condition when no callback outlives its ten seconds:
\* errors and stopped servers do not break it.
THEOREM PromptLoadersAreAlone ==
  ASSUME "slow" \notin Faults
  PROVE  Spec => []OneLoaderAlways
<1>1. Init => ~lapsed
  BY DEF Init
<1>2. ~lapsed /\ [Next]_vars => ~lapsed'
  BY DEF Next, Reader, Writer, Get, Lock, LockFails, Load, Store, Release, Leave,
     CreateRecord, Scan, DeleteKeys, InvalidationFails, Stop, EntryExpires, LockExpires,
     vars
<1>3. OneLoaderUnlessLapsed /\ ~lapsed => OneLoaderAlways
  BY DEF OneLoaderUnlessLapsed, OneLoaderAlways
<1> QED BY <1>1, <1>2, <1>3, OneLoader, PTL DEF Spec

\* A loader that is about to store has seen whatever the entry was made from.
StoresNewer ==
  \A c \in Readers : pc[c] = "store" /\ cache # None => cache <= loaded[c]

\* An entry is replaced only by one that knows as much.
MovesForward == cache # None /\ cache' # None => cache' >= cache

\* ... so a reader that was shown a record is not shown an entry without it that
\* took the other's place.  With "slow" the late loader of a lapsed lock would.
THEOREM EntriesMoveForward ==
  ASSUME "slow" \notin Faults
  PROVE  Spec => [][MovesForward]_vars
<1> USE NoneAssumption DEF TypeOK, Goto
<1>1. Init => StoresNewer
  BY DEF Init, StoresNewer
<1>2. TypeOK /\ NotAhead /\ OneLoaderAlways /\ StoresNewer /\ [Next]_vars => StoresNewer'
  <2> SUFFICES ASSUME TypeOK, NotAhead, OneLoaderAlways, StoresNewer, [Next]_vars
               PROVE  StoresNewer'
    OBVIOUS
  <2> USE DEF StoresNewer, Calls
  <2>1. ASSUME NEW c \in Readers, Reader(c) PROVE StoresNewer'
    <3>1. CASE Load(c)
      BY <3>1 DEF Load, NotAhead
    <3>2. CASE Store(c)
      <4>1. \A d \in Readers : pc[d] = "store" => d = c
        BY <3>2 DEF Store, OneLoaderAlways, Loading
      <4> QED BY <3>2, <4>1 DEF Store
    <3>3. CASE Get(c) \/ Lock(c) \/ LockFails(c) \/ Release(c)
      BY <3>3 DEF Get, Lock, LockFails, Release
    <3> QED BY <2>1, <3>1, <3>2, <3>3 DEF Reader
  <2>2. ASSUME NEW c \in Writers, Writer(c) PROVE StoresNewer'
    BY <2>2 DEF Writer, CreateRecord, Scan, DeleteKeys, InvalidationFails
  <2>3. CASE EntryExpires \/ LockExpires \/ \E c \in Calls : Stop(c)
    BY <2>3 DEF EntryExpires, LockExpires, Stop
  <2>4. CASE UNCHANGED vars BY <2>4 DEF vars
  <2> QED BY <2>1, <2>2, <2>3, <2>4 DEF Next
<1>3. TypeOK /\ StoresNewer /\ [Next]_vars => [MovesForward]_vars
  BY DEF StoresNewer, MovesForward, Next, Reader, Writer, Get, Lock, LockFails, Load, Store,
     Release, CreateRecord, Scan, DeleteKeys, InvalidationFails, Stop, EntryExpires,
     LockExpires, vars
<1> QED
  BY <1>1, <1>2, <1>3, TypeCorrect, NothingInvented, PromptLoadersAreAlone, PTL DEF Spec

\* No record was inserted between a loader's query and its SETEX.
NotOvertaken == \A c \in Readers : pc[c] = "store" => loaded[c] = log

\* When no call fails half-way and no loader is overtaken, an entry is the newest
\* answer or a call is under way that deletes it: the two are all that can leave a
\* stale entry for the whole of its TTL.
THEOREM FreshWhenNotOvertaken ==
  ASSUME "error" \notin Faults, "stop" \notin Faults
  PROVE  Spec /\ []NotOvertaken => [](cache \in {None, log} \/ Invalidating # {})
<1>1. Init => ~tainted
  BY DEF Init
<1>2. NotOvertaken /\ ~tainted /\ [Next]_vars => ~tainted'
  BY DEF NotOvertaken, Next, Reader, Writer, Get, Lock, LockFails, Load, Store, Release,
     CreateRecord, Scan, DeleteKeys, InvalidationFails, Stop, EntryExpires, LockExpires,
     vars
<1>3. FreshUnlessTainted /\ ~tainted => cache \in {None, log} \/ Invalidating # {}
  BY DEF FreshUnlessTainted
<1> QED BY <1>1, <1>2, <1>3, Fresh, PTL DEF Spec
=============================================================================
