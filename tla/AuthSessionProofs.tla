------------------------- MODULE AuthSessionProofs -------------------------
(***************************************************************************)
(* The safety properties of AuthSession for any number of requests,        *)
(* devices, rows and sessions.                                             *)
(***************************************************************************)
EXTENDS AuthSession, TLAPS

Holding == {"count", "touch", "touchReplace", "replace", "others", "enforce"}
Reading == {"actor", "refreshProfile", "rotate"}

\* A request that runs alone is the only one in flight.
AloneMeansAlone ==
  \A p, q \in Requests : alone[p] => pc[p] # "idle" /\ (q # p => pc[q] = "idle")

\* What the program counter says of a request's locals.
Locals(p) ==
  /\ pc[p] \in {"device", "newDevice"} => dev[p] # NoDevice
  /\ pc[p] \in Holding => row[p] \in Rows /\ device[row[p]] # NoDevice
  /\ pc[p] = "insert" /\ row[p] # NoRow => device[row[p]] # NoDevice
  /\ pc[p] \in {"idle", "profile", "device", "newDevice"} \cup RefreshSteps => row[p] = NoRow
  /\ pc[p] \notin {"enforce", "insert"} => others[p] = {}
  /\ pc[p] = "insert" /\ row[p] = NoRow => others[p] = {}
  /\ pc[p] = "enforce" => todo[p] # {}
  /\ row[p] \notin others[p]
  /\ pc[p] \in RefreshSteps => sess[p] \in Sessions

\* An active row, and the row of a session, exist; a session that has a row does.
RowsExist ==
  /\ \A r \in Rows : active[r] => device[r] # NoDevice
  /\ \A s \in Sessions : Mobile(s) => Present(s) /\ device[on[s]] # NoDevice

CutIsClosed == \A p \in Requests : cut[p] => Closed

Shape ==
  /\ AloneMeansAlone
  /\ \A p \in Requests : Locals(p)
  /\ RowsExist
  /\ CutIsClosed

\* What a mobile login that runs alone has achieved at each of its steps.
Reached(p) ==
  alone[p] =>
    /\ pc[p] \in {"touch", "others"} => \A s \in LiveMobile : on[s] # row[p]
    /\ pc[p] = "enforce" => \A s \in LiveMobile :
         on[s] # row[p] /\ ("purge" \notin todo[p] => on[s] \notin others[p])
    /\ pc[p] = "insert" => \A s \in LiveMobile : on[s] \notin others[p] \cup {row[p]}

ReachInv == \A p \in Requests : Reached(p)

\* Until the rule has lapsed: a live mobile session sits on an active row, or
\* some login in flight is about to delete it;
Covered ==
  \A s \in LiveMobile :
    active[on[s]] \/ \E q \in Requests : HalfEnforced(q) /\ on[s] \in others[q]

\* ... nothing is left on rows whose sessions a login in flight deleted;
Purged ==
  \A p \in Requests, s \in Sessions :
    pc[p] = "enforce" /\ "purge" \notin todo[p] => on[s] \notin others[p]

\* ... the row an undisturbed login holds is active, and the other rows with a
\* live session are among those it is about to enforce on;
LoginKnows(p) ==
  alone[p] =>
    /\ pc[p] \in {"replace", "others", "enforce", "insert"} /\ row[p] # NoRow => active[row[p]]
    /\ pc[p] \in {"enforce", "insert"} /\ row[p] # NoRow =>
         \A s \in LiveMobile : on[s] \in others[p] \cup {row[p]}

\* ... and an undisturbed refresh holds the only session that can be live.
RefreshKnows(p) ==
  alone[p] /\ pc[p] \in Reading /\ Mobile(sess[p]) =>
    active[on[sess[p]]] /\ \A s \in LiveMobile : s = sess[p]

LapseInv ==
  ~lapsed =>
    /\ SingleMobileSession
    /\ Covered
    /\ Purged
    /\ \A p \in Requests : LoginKnows(p)
    /\ \A p \in Requests : RefreshKnows(p)
-----------------------------------------------------------------------------

\* Every variable keeps its type through every step of the handlers.
THEOREM TypeCorrect == Spec => []TypeOK
<1> USE NullsAssumption
        DEF LoginSteps, RefreshSteps, accountVars, deviceVars, sessionVars, localVars,
            AccountType, DeviceType, SessionType, RequestType, EffectType
<1>1. Init => TypeOK
  <2> USE DEF Init
  <2>1. Init => AccountType /\ DeviceType
    OBVIOUS
  <2>2. Init => SessionType
    OBVIOUS
  <2>3. Init => RequestType
    OBVIOUS
  <2>4. Init => EffectType
    OBVIOUS
  <2>5. QED
    BY <2>1, <2>2, <2>3, <2>4 DEF TypeOK
<1>2. TypeOK /\ [Next]_vars => TypeOK'
  <2> SUFFICES ASSUME TypeOK, [Next]_vars PROVE TypeOK'
    OBVIOUS
  <2> USE DEF TypeOK, Goto, Finish, Begin, Remove, Present
  <2>1. ASSUME NEW p \in Requests, Login(p) PROVE TypeOK'
    <3>1. ASSUME NEW d \in Devices \cup {NoDevice}, StartLogin(p, d) PROVE TypeOK'
      <4>1. AccountType' /\ DeviceType'
        BY <3>1 DEF StartLogin
      <4>2. SessionType'
        BY <3>1 DEF StartLogin
      <4>3. RequestType'
        BY <3>1 DEF StartLogin
      <4>4. EffectType'
        BY <3>1 DEF StartLogin, Closed
      <4>5. QED
        BY <4>1, <4>2, <4>3, <4>4
    <3>2. CASE LoginProfile(p)
      <4>1. AccountType' /\ DeviceType'
        BY <3>2 DEF LoginProfile
      <4>2. SessionType'
        BY <3>2 DEF LoginProfile
      <4>3. RequestType'
        BY <3>2 DEF LoginProfile
      <4>4. EffectType'
        BY <3>2 DEF LoginProfile
      <4>5. QED
        BY <4>1, <4>2, <4>3, <4>4
    <3>3. CASE FindDevice(p)
      BY <3>3 DEF FindDevice
    <3>4. ASSUME NEW r \in Rows, InsertDevice(p, r) PROVE TypeOK'
      BY <3>4 DEF InsertDevice
    <3>5. CASE CountSessions(p)
      BY <3>5 DEF CountSessions
    <3>6. CASE TouchDevice(p)
      BY <3>6 DEF TouchDevice
    <3>7. CASE ReplaceSessions(p)
      BY <3>7 DEF ReplaceSessions
    <3>8. CASE SelectOthers(p)
      BY <3>8 DEF SelectOthers
    <3>9. CASE Deactivate(p)
      BY <3>9 DEF Deactivate, EnforceDone
    <3>10. CASE PurgeOthers(p)
      BY <3>10 DEF PurgeOthers, EnforceDone
    <3>11. ASSUME NEW s \in Sessions, InsertSession(p, s) PROVE TypeOK'
      BY <3>11 DEF InsertSession
    <3>12. QED
      BY <2>1, <3>1, <3>2, <3>3, <3>4, <3>5, <3>6, <3>7, <3>8, <3>9, <3>10, <3>11 DEF Login
  <2>2. ASSUME NEW p \in Requests, Refresh(p) PROVE TypeOK'
    <3>1. ASSUME NEW s \in Sessions, NEW t \in {0, token[s]}, StartRefresh(p, s, t)
          PROVE  TypeOK'
      <4>1. AccountType' /\ DeviceType'
        BY <3>1 DEF StartRefresh
      <4>2. SessionType'
        BY <3>1 DEF StartRefresh
      <4>3. RequestType'
        BY <3>1 DEF StartRefresh
      <4>4. EffectType'
        BY <3>1 DEF StartRefresh, Closed
      <4>5. QED
        BY <4>1, <4>2, <4>3, <4>4
    <3>2. CASE DropSession(p)
      BY <3>2 DEF DropSession
    <3>3. CASE FindActor(p)
      BY <3>3 DEF FindActor
    <3>4. CASE RefreshProfile(p)
      <4>1. AccountType' /\ DeviceType'
        BY <3>4 DEF RefreshProfile
      <4>2. SessionType'
        BY <3>4 DEF RefreshProfile
      <4>3. RequestType'
        <5>1. CASE Closed
          BY <3>4, <5>1 DEF RefreshProfile
        <5>2. CASE ~Closed
          BY <3>4, <5>2 DEF RefreshProfile
        <5>3. QED
          BY <5>1, <5>2
      <4>4. EffectType'
        BY <3>4 DEF RefreshProfile
      <4>5. QED
        BY <4>1, <4>2, <4>3, <4>4
    <3>5. CASE Rotate(p)
      <4>1. AccountType' /\ DeviceType'
        BY <3>5 DEF Rotate
      <4>2. SessionType'
        BY <3>5 DEF Rotate
      <4>3. RequestType'
        BY <3>5 DEF Rotate
      <4>4. EffectType'
        BY <3>5 DEF Rotate
      <4>5. QED
        BY <4>1, <4>2, <4>3, <4>4
    <3>6. QED
      BY <2>2, <3>1, <3>2, <3>3, <3>4, <3>5 DEF Refresh
  <2>3. ASSUME NEW p \in Requests, Abandon(p) PROVE TypeOK'
    BY <2>3 DEF Abandon
  <2>4. CASE Others
    <3>1. ASSUME NEW s \in Sessions, Logout(s) \/ Expire(s) PROVE TypeOK'
      BY <3>1 DEF Logout, Expire
    <3>2. ASSUME NEW r \in Rows, SyncPushToken(r) \/ PushRejected(r) PROVE TypeOK'
      BY <3>2 DEF SyncPushToken, PushRejected
    <3>3. CASE BanUpdate \/ SoftDeleteUpdate \/ PurgeSessions
      <4>1. BanUpdate => TypeOK'
        BY DEF BanUpdate
      <4>2. SoftDeleteUpdate => TypeOK'
        BY DEF SoftDeleteUpdate
      <4>3. PurgeSessions => TypeOK'
        BY DEF PurgeSessions
      <4>4. QED
        BY <3>3, <4>1, <4>2, <4>3
    <3>4. QED
      BY <2>4, <3>1, <3>2, <3>3 DEF Others
  <2>5. CASE UNCHANGED vars
    BY <2>5 DEF vars
  <2> QED
    BY <2>1, <2>2, <2>3, <2>4, <2>5 DEF Next
<1>3. QED
  BY <1>1, <1>2, PTL DEF Spec

-----------------------------------------------------------------------------

\* The counters, rows and history variables agree with each other at every step
\* of the handlers: the facts the other proofs rest on.
THEOREM ShapeHolds == Spec => []Shape
<1> USE NullsAssumption
        DEF LoginSteps, RefreshSteps, accountVars, deviceVars, sessionVars, localVars
<1>1. Init => Shape
  BY DEF Init, Shape, AloneMeansAlone, Locals, RowsExist, CutIsClosed, Mobile, Holding
<1>2. TypeOK /\ Shape /\ [Next]_vars => Shape'
  <2> SUFFICES ASSUME TypeOK, Shape, [Next]_vars PROVE Shape'
    OBVIOUS
  <2> USE DEF TypeOK, DeviceType, SessionType, RequestType, EffectType, Shape, Goto,
    Finish, Begin, Remove, Present, Mobile, InFlight
  <2>1. ASSUME NEW p \in Requests, Login(p) PROVE Shape'
    <3>1. ASSUME NEW d \in Devices \cup {NoDevice}, StartLogin(p, d) PROVE Shape'
      BY <3>1 DEF StartLogin, AloneMeansAlone, Locals, RowsExist, Holding, CutIsClosed
    <3>2. CASE LoginProfile(p)
      BY <3>2 DEF LoginProfile, AloneMeansAlone, Locals, RowsExist, Holding, CutIsClosed,
         Closed
    <3>3. CASE FindDevice(p)
      BY <3>3 DEF FindDevice, AloneMeansAlone, Locals, RowsExist, Holding, CutIsClosed,
         Closed
    <3>4. ASSUME NEW r \in Rows, InsertDevice(p, r) PROVE Shape'
      BY <3>4 DEF InsertDevice, AloneMeansAlone, Locals, RowsExist, CutIsClosed, Closed
    <3>5. CASE CountSessions(p)
      BY <3>5 DEF CountSessions, AloneMeansAlone, Locals, RowsExist, Holding, CutIsClosed,
         Closed
    <3>6. CASE TouchDevice(p)
      BY <3>6 DEF TouchDevice, AloneMeansAlone, Locals, RowsExist, Holding, CutIsClosed,
         Closed
    <3>7. CASE ReplaceSessions(p)
      BY <3>7 DEF ReplaceSessions, AloneMeansAlone, Locals, RowsExist, Holding,
         CutIsClosed, Closed
    <3>8. CASE SelectOthers(p)
      <4>1. AloneMeansAlone'
        BY <3>8 DEF SelectOthers, AloneMeansAlone
      <4>2. \A q \in Requests : Locals(q)'
        BY <3>8 DEF SelectOthers, Locals, RowsExist, Holding
      <4>3. RowsExist'
        BY <3>8 DEF SelectOthers, RowsExist
      <4>4. CutIsClosed'
        BY <3>8 DEF SelectOthers, CutIsClosed, Closed
      <4>5. QED
        BY <4>1, <4>2, <4>3, <4>4
    <3>9. CASE Deactivate(p)
      BY <3>9 DEF Deactivate, EnforceDone, AloneMeansAlone, Locals, RowsExist, Holding,
         CutIsClosed, Closed
    <3>10. CASE PurgeOthers(p)
      BY <3>10 DEF PurgeOthers, EnforceDone, AloneMeansAlone, Locals, RowsExist, Holding,
         CutIsClosed, Closed
    <3>11. ASSUME NEW s \in Sessions, InsertSession(p, s) PROVE Shape'
      BY <3>11 DEF InsertSession, AloneMeansAlone, Locals, RowsExist, Holding,
         CutIsClosed, Closed
    <3>12. QED
      BY <2>1, <3>1, <3>2, <3>3, <3>4, <3>5, <3>6, <3>7, <3>8, <3>9, <3>10, <3>11 DEF Login
  <2>2. ASSUME NEW p \in Requests, Refresh(p) PROVE Shape'
    <3>1. ASSUME NEW s \in Sessions, NEW t \in {0, token[s]}, StartRefresh(p, s, t) PROVE
      Shape'
      BY <3>1 DEF StartRefresh, AloneMeansAlone, Locals, RowsExist, Holding, CutIsClosed,
         Closed
    <3>2. CASE DropSession(p)
      BY <3>2 DEF DropSession, AloneMeansAlone, Locals, RowsExist, Holding, CutIsClosed,
         Closed
    <3>3. CASE FindActor(p)
      BY <3>3 DEF FindActor, AloneMeansAlone, Locals, RowsExist, Holding, CutIsClosed,
         Closed
    <3>4. CASE RefreshProfile(p)
      BY <3>4 DEF RefreshProfile, AloneMeansAlone, Locals, RowsExist, Holding,
         CutIsClosed, Closed
    <3>5. CASE Rotate(p)
      BY <3>5 DEF Rotate, AloneMeansAlone, Locals, RowsExist, Holding, CutIsClosed, Closed
    <3>6. QED
      BY <2>2, <3>1, <3>2, <3>3, <3>4, <3>5 DEF Refresh
  <2>3. ASSUME NEW p \in Requests, Abandon(p) PROVE Shape'
    BY <2>3 DEF Abandon, AloneMeansAlone, Locals, RowsExist, Holding, CutIsClosed, Closed
  <2>4. CASE Others
    <3>1. ASSUME NEW s \in Sessions, Logout(s) PROVE Shape'
      BY <3>1 DEF Logout, AloneMeansAlone, Locals, RowsExist, CutIsClosed, Closed
    <3>2. ASSUME NEW s \in Sessions, Expire(s) PROVE Shape'
      BY <3>2 DEF Expire, AloneMeansAlone, Locals, RowsExist, CutIsClosed, Closed
    <3>3. ASSUME NEW r \in Rows, SyncPushToken(r) PROVE Shape'
      BY <3>3 DEF SyncPushToken, AloneMeansAlone, Locals, RowsExist, CutIsClosed, Closed
    <3>4. ASSUME NEW r \in Rows, PushRejected(r) PROVE Shape'
      BY <3>4 DEF PushRejected, AloneMeansAlone, Locals, RowsExist, CutIsClosed, Closed
    <3>5. CASE BanUpdate
      BY <3>5 DEF BanUpdate, AloneMeansAlone, Locals, RowsExist, CutIsClosed, Closed
    <3>6. CASE SoftDeleteUpdate
      BY <3>6 DEF SoftDeleteUpdate, AloneMeansAlone, Locals, RowsExist, CutIsClosed, Closed
    <3>7. CASE PurgeSessions
      BY <3>7 DEF PurgeSessions, AloneMeansAlone, Locals, RowsExist, CutIsClosed, Closed
    <3>8. QED
      BY <2>4, <3>1, <3>2, <3>3, <3>4, <3>5, <3>6, <3>7 DEF Others
  <2>5. CASE UNCHANGED vars
    BY <2>5 DEF vars, AloneMeansAlone, Locals, RowsExist, CutIsClosed, Closed
  <2> QED
    BY <2>1, <2>2, <2>3, <2>4, <2>5 DEF Next
<1>3. QED
  BY <1>1, <1>2, TypeCorrect, PTL DEF Spec

\* EnforcementReach: a mobile login that nothing overlapped inserts its session
\* when no live one is left on the rows it could see.
THEOREM UndisturbedLoginReaches == Spec => []ReachInv /\ []EnforcementReach
<1> USE NullsAssumption
        DEF LoginSteps, RefreshSteps, accountVars, deviceVars, sessionVars, localVars
<1>1. Init => ReachInv
  BY DEF Init, ReachInv, Reached
<1>2. TypeOK /\ Shape /\ ReachInv /\ [Next]_vars => ReachInv'
  <2> SUFFICES ASSUME TypeOK, Shape, ReachInv, [Next]_vars PROVE ReachInv'
    OBVIOUS
  <2> USE DEF TypeOK, DeviceType, SessionType, RequestType, EffectType, Shape, Goto,
    Finish, Begin, Remove, Present, Mobile, InFlight
  <2>1. ASSUME NEW p \in Requests, Login(p) PROVE ReachInv'
    <3>1. ASSUME NEW d \in Devices \cup {NoDevice}, StartLogin(p, d) PROVE ReachInv'
      BY <3>1 DEF StartLogin, ReachInv, Reached
    <3>2. CASE LoginProfile(p)
      BY <3>2 DEF LoginProfile, ReachInv, Reached, LiveMobile, Locals
    <3>3. CASE FindDevice(p)
      BY <3>3 DEF FindDevice, ReachInv, Reached, LiveMobile
    <3>4. ASSUME NEW r \in Rows, InsertDevice(p, r) PROVE ReachInv'
      BY <3>4 DEF InsertDevice, ReachInv, Reached, LiveMobile, RowsExist
    <3>5. CASE CountSessions(p)
      BY <3>5 DEF CountSessions, ReachInv, Reached, LiveMobile
    <3>6. CASE TouchDevice(p)
      BY <3>6 DEF TouchDevice, ReachInv, Reached, LiveMobile
    <3>7. CASE ReplaceSessions(p)
      BY <3>7 DEF ReplaceSessions, ReachInv, Reached, LiveMobile
    <3>8. CASE SelectOthers(p)
      BY <3>8 DEF SelectOthers, ReachInv, Reached, LiveMobile
    <3>9. CASE Deactivate(p)
      BY <3>9 DEF Deactivate, EnforceDone, ReachInv, Reached, LiveMobile
    <3>10. CASE PurgeOthers(p)
      BY <3>10 DEF PurgeOthers, EnforceDone, ReachInv, Reached, LiveMobile
    <3>11. ASSUME NEW s \in Sessions, InsertSession(p, s) PROVE ReachInv'
      BY <3>11 DEF InsertSession, ReachInv, Reached, AloneMeansAlone
    <3>12. QED
      BY <2>1, <3>1, <3>2, <3>3, <3>4, <3>5, <3>6, <3>7, <3>8, <3>9, <3>10, <3>11 DEF Login
  <2>2. ASSUME NEW p \in Requests, Refresh(p) PROVE ReachInv'
    <3>1. ASSUME NEW s \in Sessions, NEW t \in {0, token[s]}, StartRefresh(p, s, t) PROVE
      ReachInv'
      BY <3>1 DEF StartRefresh, ReachInv, Reached
    <3>2. CASE DropSession(p)
      BY <3>2 DEF DropSession, ReachInv, Reached, LiveMobile
    <3>3. CASE FindActor(p)
      BY <3>3 DEF FindActor, ReachInv, Reached, LiveMobile
    <3>4. CASE RefreshProfile(p)
      BY <3>4 DEF RefreshProfile, ReachInv, Reached, LiveMobile
    <3>5. CASE Rotate(p)
      BY <3>5 DEF Rotate, ReachInv, Reached, AloneMeansAlone
    <3>6. QED
      BY <2>2, <3>1, <3>2, <3>3, <3>4, <3>5 DEF Refresh
  <2>3. ASSUME NEW p \in Requests, Abandon(p) PROVE ReachInv'
    BY <2>3 DEF Abandon, ReachInv, Reached, LiveMobile
  <2>4. CASE Others
    <3>1. ASSUME NEW s \in Sessions, Logout(s) PROVE ReachInv'
      BY <3>1 DEF Logout, ReachInv, Reached, LiveMobile
    <3>2. ASSUME NEW s \in Sessions, Expire(s) PROVE ReachInv'
      BY <3>2 DEF Expire, ReachInv, Reached, LiveMobile
    <3>3. ASSUME NEW r \in Rows, SyncPushToken(r) PROVE ReachInv'
      BY <3>3 DEF SyncPushToken, ReachInv, Reached, LiveMobile
    <3>4. ASSUME NEW r \in Rows, PushRejected(r) PROVE ReachInv'
      BY <3>4 DEF PushRejected, ReachInv, Reached, LiveMobile
    <3>5. CASE BanUpdate
      BY <3>5 DEF BanUpdate, ReachInv, Reached, LiveMobile
    <3>6. CASE SoftDeleteUpdate
      BY <3>6 DEF SoftDeleteUpdate, ReachInv, Reached, LiveMobile
    <3>7. CASE PurgeSessions
      BY <3>7 DEF PurgeSessions, ReachInv, Reached, LiveMobile
    <3>8. QED
      BY <2>4, <3>1, <3>2, <3>3, <3>4, <3>5, <3>6, <3>7 DEF Others
  <2>5. CASE UNCHANGED vars
    BY <2>5 DEF vars, ReachInv, Reached, LiveMobile
  <2> QED
    BY <2>1, <2>2, <2>3, <2>4, <2>5 DEF Next
<1>3. ReachInv => EnforcementReach
  BY DEF ReachInv, Reached, EnforcementReach
<1>4. QED
  BY <1>1, <1>2, <1>3, TypeCorrect, ShapeHolds, PTL DEF Spec

\* What keeps live sessions covered is kept by a step that leaves the sessions,
\* the active rows and the half-done enforcements it relies on.
CoverKept ==
  /\ \A q \in Requests : HalfEnforced(q) => HalfEnforced(q)' /\ others'[q] = others[q]
  /\ \A s \in LiveMobile' : s \in LiveMobile /\ on'[s] = on[s]
  /\ \A r \in Rows : active[r] => active'[r]
LEMMA KeptCoverCovers == TypeOK /\ Covered /\ CoverKept => Covered'
<1> SUFFICES ASSUME TypeOK, Covered, CoverKept, NEW s \in LiveMobile'
             PROVE  active'[on'[s]] \/ \E q \in Requests : HalfEnforced(q)' /\ on'[s] \in
               others'[q]
  BY DEF Covered
<1>1. s \in LiveMobile /\ on'[s] = on[s] /\ on[s] \in Rows
  BY DEF CoverKept, LiveMobile, Mobile, TypeOK, SessionType
<1>2. CASE active[on[s]]
  BY <1>1, <1>2 DEF CoverKept
<1>3. ASSUME NEW q \in Requests, HalfEnforced(q), on[s] \in others[q]
      PROVE  HalfEnforced(q)' /\ on'[s] \in others'[q]
  BY <1>1, <1>3 DEF CoverKept
<1>4. QED
  BY <1>1, <1>2, <1>3 DEF Covered

\* SingleUnlessLapsed: one live mobile session at most, for every number of
\* devices, requests and sessions, until one of the three known lapses.
THEOREM SingleSessionUntilLapsed == Spec => []SingleUnlessLapsed
<1> USE NullsAssumption
        DEF LoginSteps, RefreshSteps, accountVars, deviceVars, sessionVars, localVars
<1>1. Init => LapseInv
  BY DEF Init, LapseInv, SingleMobileSession, Covered, Purged, LoginKnows, RefreshKnows,
     LiveMobile
<1>2. TypeOK /\ Shape /\ ReachInv /\ LapseInv /\ [Next]_vars => LapseInv'
  <2> SUFFICES ASSUME TypeOK, Shape, ReachInv, LapseInv, [Next]_vars PROVE LapseInv'
    OBVIOUS
  <2> USE DEF TypeOK, DeviceType, SessionType, RequestType, EffectType, Shape, Goto,
    Finish, Begin, Remove, Present, Mobile, InFlight
  <2>1. ASSUME NEW p \in Requests, Login(p) PROVE LapseInv'
    <3>1. ASSUME NEW d \in Devices \cup {NoDevice}, StartLogin(p, d) PROVE LapseInv'
      <4>1. ~lapsed' => SingleMobileSession' /\ Purged' /\ \A q \in Requests :
        LoginKnows(q)' /\ RefreshKnows(q)'
        BY <3>1 DEF StartLogin, LapseInv, Purged, LoginKnows, RefreshKnows, Reading,
           SingleMobileSession, LiveMobile
      <4>2. ~lapsed' => Covered'
        <5>1. CoverKept
          BY <3>1 DEF StartLogin, CoverKept, HalfEnforced, LiveMobile
        <5>2. QED
          BY <3>1, <5>1, KeptCoverCovers DEF StartLogin, LapseInv
      <4>3. QED
        BY <4>1, <4>2 DEF LapseInv
    <3>2. CASE LoginProfile(p)
      <4>1. ~lapsed' => SingleMobileSession' /\ Purged' /\ \A q \in Requests :
        LoginKnows(q)' /\ RefreshKnows(q)'
        BY <3>2 DEF LoginProfile, LapseInv, Purged, LoginKnows, RefreshKnows, Reading,
           SingleMobileSession, LiveMobile, Locals, RowsExist, Holding, ReachInv
      <4>2. ~lapsed' => Covered'
        <5>1. CoverKept
          BY <3>2 DEF LoginProfile, CoverKept, HalfEnforced, LiveMobile
        <5>2. QED
          BY <3>2, <5>1, KeptCoverCovers DEF LoginProfile, LapseInv
      <4>3. QED
        BY <4>1, <4>2 DEF LapseInv
    <3>3. CASE FindDevice(p)
      <4>1. ~lapsed' => SingleMobileSession' /\ Purged' /\ \A q \in Requests :
        LoginKnows(q)' /\ RefreshKnows(q)'
        BY <3>3 DEF FindDevice, LapseInv, Purged, LoginKnows, RefreshKnows, Reading,
           SingleMobileSession, LiveMobile
      <4>2. ~lapsed' => Covered'
        <5>1. CoverKept
          BY <3>3 DEF FindDevice, CoverKept, HalfEnforced, LiveMobile
        <5>2. QED
          BY <3>3, <5>1, KeptCoverCovers DEF FindDevice, LapseInv
      <4>3. QED
        BY <4>1, <4>2 DEF LapseInv
    <3>4. ASSUME NEW r \in Rows, InsertDevice(p, r) PROVE LapseInv'
      <4>1. ~lapsed' => SingleMobileSession'
        BY <3>4 DEF InsertDevice, LapseInv, SingleMobileSession, LiveMobile
      <4>2. ~lapsed' => Covered'
        <5>1. CoverKept
          BY <3>4 DEF InsertDevice, CoverKept, HalfEnforced, LiveMobile
        <5>2. QED
          BY <3>4, <5>1, KeptCoverCovers DEF InsertDevice, LapseInv
      <4>3. ~lapsed' => Purged'
        BY <3>4 DEF InsertDevice, LapseInv, Purged
      <4>4. ~lapsed' => \A q \in Requests : LoginKnows(q)'
        BY <3>4 DEF InsertDevice, LapseInv, LoginKnows, LiveMobile
      <4>5. ~lapsed' => \A q \in Requests : RefreshKnows(q)'
        BY <3>4 DEF InsertDevice, LapseInv, RefreshKnows, Reading, LiveMobile
      <4>6. QED
        BY <4>1, <4>2, <4>3, <4>4, <4>5 DEF LapseInv
    <3>5. CASE CountSessions(p)
      <4>1. ~lapsed' => SingleMobileSession' /\ Purged' /\ \A q \in Requests :
        LoginKnows(q)' /\ RefreshKnows(q)'
        BY <3>5 DEF CountSessions, LapseInv, Purged, LoginKnows, RefreshKnows, Reading,
           SingleMobileSession, LiveMobile
      <4>2. ~lapsed' => Covered'
        <5>1. CoverKept
          BY <3>5 DEF CountSessions, CoverKept, HalfEnforced, LiveMobile
        <5>2. QED
          BY <3>5, <5>1, KeptCoverCovers DEF CountSessions, LapseInv
      <4>3. QED
        BY <4>1, <4>2 DEF LapseInv
    <3>6. CASE TouchDevice(p)
      <4>1. ~lapsed' => SingleMobileSession' /\ Purged' /\ \A q \in Requests :
        LoginKnows(q)' /\ RefreshKnows(q)'
        BY <3>6 DEF TouchDevice, LapseInv, Purged, LoginKnows, RefreshKnows, Reading,
           SingleMobileSession, LiveMobile
      <4>2. ~lapsed' => Covered'
        <5>1. CoverKept
          BY <3>6 DEF TouchDevice, CoverKept, HalfEnforced, LiveMobile
        <5>2. QED
          BY <3>6, <5>1, KeptCoverCovers DEF TouchDevice, LapseInv
      <4>3. QED
        BY <4>1, <4>2 DEF LapseInv
    <3>7. CASE ReplaceSessions(p)
      <4>1. ~lapsed' => SingleMobileSession' /\ Purged' /\ \A q \in Requests :
        LoginKnows(q)' /\ RefreshKnows(q)'
        BY <3>7 DEF ReplaceSessions, LapseInv, Purged, LoginKnows, RefreshKnows, Reading,
           SingleMobileSession, LiveMobile
      <4>2. ~lapsed' => Covered'
        <5>1. CoverKept
          BY <3>7 DEF ReplaceSessions, CoverKept, HalfEnforced, LiveMobile
        <5>2. QED
          BY <3>7, <5>1, KeptCoverCovers DEF ReplaceSessions, LapseInv
      <4>3. QED
        BY <4>1, <4>2 DEF LapseInv
    <3>8. CASE SelectOthers(p)
      <4>1. ~lapsed' => SingleMobileSession' /\ Purged' /\ \A q \in Requests :
        LoginKnows(q)' /\ RefreshKnows(q)'
        BY <3>8 DEF SelectOthers, LapseInv, Covered, Purged, LoginKnows, RefreshKnows,
           Reading, SingleMobileSession, LiveMobile, AloneMeansAlone, Locals, RowsExist
      <4>2. ~lapsed' => Covered'
        <5>1. CoverKept
          BY <3>8 DEF SelectOthers, CoverKept, HalfEnforced, LiveMobile
        <5>2. QED
          BY <3>8, <5>1, KeptCoverCovers DEF SelectOthers, LapseInv
      <4>3. QED
        BY <4>1, <4>2 DEF LapseInv
    <3>9. CASE Deactivate(p)
      <4>1. ~lapsed' => SingleMobileSession' /\ Purged' /\ \A q \in Requests :
        LoginKnows(q)' /\ RefreshKnows(q)'
        BY <3>9 DEF Deactivate, EnforceDone, LapseInv, Purged, LoginKnows, RefreshKnows,
           Reading, SingleMobileSession, LiveMobile, AloneMeansAlone, Locals
      <4>2. ~lapsed' => Covered'
        <5> SUFFICES ASSUME ~lapsed, NEW s \in LiveMobile', s \in LiveMobile, on'[s] = on[s]
                     PROVE  active'[on[s]] \/ \E q \in Requests : HalfEnforced(q)' /\
                       on[s] \in others'[q]
          BY <3>9 DEF Deactivate, EnforceDone, Covered, LiveMobile
        <5>1. CASE on[s] \in others[p]
          <6>1. todo[p] # {"deactivate"}
            BY <3>9, <5>1 DEF Deactivate, EnforceDone, LapseInv, Purged, LiveMobile
          <6>2. HalfEnforced(p)' /\ others'[p] = others[p]
            BY <3>9, <6>1 DEF Deactivate, EnforceDone, HalfEnforced
          <6>3. QED
            BY <5>1, <6>2
        <5>2. CASE on[s] \notin others[p] /\ active[on[s]]
          BY <3>9, <5>2 DEF Deactivate, LiveMobile
        <5>3. ASSUME NEW q \in Requests, HalfEnforced(q), on[s] \in others[q]
              PROVE  HalfEnforced(q)' /\ on[s] \in others'[q]
          BY <3>9, <5>3 DEF Deactivate, EnforceDone, HalfEnforced
        <5>4. QED
          BY <5>1, <5>2, <5>3 DEF LapseInv, Covered
      <4>3. QED
        BY <4>1, <4>2 DEF LapseInv
    <3>10. CASE PurgeOthers(p)
      <4>1. ~lapsed' => SingleMobileSession' /\ Purged' /\ \A q \in Requests :
        LoginKnows(q)' /\ RefreshKnows(q)'
        BY <3>10 DEF PurgeOthers, EnforceDone, LapseInv, Purged, LoginKnows, RefreshKnows,
           Reading, SingleMobileSession, LiveMobile, AloneMeansAlone, RowsExist
      <4>2. ~lapsed' => Covered'
        BY <3>10 DEF PurgeOthers, EnforceDone, LapseInv, Covered, SingleMobileSession,
           LiveMobile, AloneMeansAlone, Locals, RowsExist, Holding, HalfEnforced
      <4>3. QED
        BY <4>1, <4>2 DEF LapseInv
    <3>11. ASSUME NEW s \in Sessions, InsertSession(p, s) PROVE LapseInv'
      <4> SUFFICES ASSUME ~lapsed' PROVE LapseInv'
        BY DEF LapseInv
      <4>0. ~lapsed /\ (row[p] = NoRow \/ alone[p])
        BY <3>11 DEF InsertSession, AccountType
      <4>1. row[p] # NoRow => LiveMobile = {} /\ LiveMobile' = {s} /\ on'[s] = row[p]
        <5>1. row[p] # NoRow => LiveMobile = {}
          BY <3>11, <4>0 DEF InsertSession, LapseInv, LoginKnows, ReachInv, Reached
        <5>2. QED
          BY <3>11, <5>1 DEF InsertSession, LiveMobile
      <4>2. row[p] = NoRow => LiveMobile' = LiveMobile /\ \A x \in LiveMobile : on'[x] =
        on[x]
        BY <3>11 DEF InsertSession, LiveMobile
      <4>3. SingleMobileSession'
        BY <4>0, <4>1, <4>2 DEF LapseInv, SingleMobileSession
      <4>4. Covered'
        <5>1. CASE row[p] = NoRow
          <6>1. CoverKept
            BY <3>11, <4>2, <5>1 DEF InsertSession, CoverKept, HalfEnforced
          <6>2. QED
            BY <4>0, <6>1, KeptCoverCovers DEF LapseInv
        <5>2. CASE row[p] # NoRow
          <6>1. active[row[p]] /\ active' = active
            BY <3>11, <4>0, <5>2 DEF InsertSession, LapseInv, LoginKnows
          <6>2. QED
            BY <4>1, <5>2, <6>1 DEF Covered
        <5>3. QED
          BY <5>1, <5>2
      <4>5. Purged'
        <5>1. \A q \in Requests : pc'[q] = "enforce" => q # p /\ pc[q] = "enforce" /\
          row[p] = NoRow
          BY <3>11, <4>0 DEF InsertSession, AloneMeansAlone
        <5>2. \A q \in Requests : NoRow \notin others[q]
          OBVIOUS
        <5>3. QED
          BY <3>11, <4>0, <5>1, <5>2 DEF InsertSession, LapseInv, Purged
      <4>6. \A q \in Requests : LoginKnows(q)'
        BY <3>11, <4>0 DEF InsertSession, LoginKnows, AloneMeansAlone
      <4>7. \A q \in Requests : RefreshKnows(q)'
        BY <3>11, <4>0, <4>2 DEF InsertSession, RefreshKnows, AloneMeansAlone
      <4>8. QED
        BY <4>3, <4>4, <4>5, <4>6, <4>7 DEF LapseInv
    <3>12. QED
      BY <2>1, <3>1, <3>2, <3>3, <3>4, <3>5, <3>6, <3>7, <3>8, <3>9, <3>10, <3>11 DEF Login
  <2>2. ASSUME NEW p \in Requests, Refresh(p) PROVE LapseInv'
    <3>1. ASSUME NEW s \in Sessions, NEW t \in {0, token[s]}, StartRefresh(p, s, t) PROVE
      LapseInv'
      <4>1. ~lapsed' => SingleMobileSession' /\ Purged' /\ \A q \in Requests :
        LoginKnows(q)' /\ RefreshKnows(q)'
        BY <3>1 DEF StartRefresh, LapseInv, Covered, Purged, LoginKnows, RefreshKnows,
           Reading, SingleMobileSession, LiveMobile, Locals
      <4>2. ~lapsed' => Covered'
        <5>1. CoverKept
          BY <3>1 DEF StartRefresh, CoverKept, HalfEnforced, LiveMobile
        <5>2. QED
          BY <3>1, <5>1, KeptCoverCovers DEF StartRefresh, LapseInv
      <4>3. QED
        BY <4>1, <4>2 DEF LapseInv
    <3>2. CASE DropSession(p)
      <4>1. ~lapsed' => SingleMobileSession' /\ Purged' /\ \A q \in Requests :
        LoginKnows(q)' /\ RefreshKnows(q)'
        BY <3>2 DEF DropSession, LapseInv, Purged, LoginKnows, RefreshKnows,
           SingleMobileSession, LiveMobile, AloneMeansAlone
      <4>2. ~lapsed' => Covered'
        <5>1. CoverKept
          BY <3>2 DEF DropSession, CoverKept, HalfEnforced, LiveMobile
        <5>2. QED
          BY <3>2, <5>1, KeptCoverCovers DEF DropSession, LapseInv
      <4>3. QED
        BY <4>1, <4>2 DEF LapseInv
    <3>3. CASE FindActor(p)
      <4>1. ~lapsed' => SingleMobileSession' /\ Purged' /\ \A q \in Requests :
        LoginKnows(q)' /\ RefreshKnows(q)'
        BY <3>3 DEF FindActor, LapseInv, Purged, LoginKnows, RefreshKnows, Reading,
           SingleMobileSession, LiveMobile
      <4>2. ~lapsed' => Covered'
        <5>1. CoverKept
          BY <3>3 DEF FindActor, CoverKept, HalfEnforced, LiveMobile
        <5>2. QED
          BY <3>3, <5>1, KeptCoverCovers DEF FindActor, LapseInv
      <4>3. QED
        BY <4>1, <4>2 DEF LapseInv
    <3>4. CASE RefreshProfile(p)
      <4>1. ~lapsed' => SingleMobileSession' /\ Purged' /\ \A q \in Requests :
        LoginKnows(q)' /\ RefreshKnows(q)'
        BY <3>4 DEF RefreshProfile, LapseInv, Purged, LoginKnows, RefreshKnows, Reading,
           SingleMobileSession, LiveMobile, Holding, HalfEnforced, Reached
      <4>2. ~lapsed' => Covered'
        <5>1. CoverKept
          BY <3>4 DEF RefreshProfile, CoverKept, HalfEnforced, LiveMobile
        <5>2. QED
          BY <3>4, <5>1, KeptCoverCovers DEF RefreshProfile, LapseInv
      <4>3. QED
        BY <4>1, <4>2 DEF LapseInv
    <3>5. CASE Rotate(p)
      <4> SUFFICES ASSUME ~lapsed' PROVE LapseInv'
        BY DEF LapseInv
      <4> DEFINE s == sess[p]
      <4>0. ~lapsed /\ (state[s] = "expired" /\ Mobile(s) => alone[p])
        BY <3>5 DEF Rotate, AccountType
      <4>1. \/ LiveMobile' = LiveMobile
            \/ LiveMobile' = {s} /\ active[on[s]]
        <5>1. CASE state[s] = "expired" /\ Mobile(s)
          <6>1. active[on[s]] /\ \A x \in LiveMobile : x = s
            BY <3>5, <4>0, <5>1 DEF Rotate, LapseInv, RefreshKnows, Reading
          <6>2. LiveMobile' = LiveMobile \cup {s}
            BY <3>5, <5>1 DEF Rotate, LiveMobile, Locals
          <6>3. QED
            BY <6>1, <6>2
        <5>2. CASE ~(state[s] = "expired" /\ Mobile(s))
          BY <3>5, <5>2 DEF Rotate, LiveMobile
        <5>3. QED
          BY <5>1, <5>2
      <4>2. SingleMobileSession'
        BY <4>0, <4>1 DEF LapseInv, SingleMobileSession
      <4>3. Covered'
        <5>1. \A q \in Requests : HalfEnforced(q) => HalfEnforced(q)' /\ others'[q] =
          others[q]
          BY <3>5 DEF Rotate, HalfEnforced
        <5>2. on' = on /\ active' = active
          BY <3>5 DEF Rotate
        <5>3. CASE LiveMobile' = LiveMobile
          <6>1. CoverKept
            BY <5>1, <5>2, <5>3 DEF CoverKept
          <6>2. QED
            BY <4>0, <6>1, KeptCoverCovers DEF LapseInv
        <5>4. CASE LiveMobile' = {s} /\ active[on[s]]
          BY <5>2, <5>4 DEF Covered
        <5>5. QED
          BY <4>1, <5>3, <5>4
      <4>4. Purged'
        BY <3>5, <4>0 DEF Rotate, LapseInv, Purged
      <4>5. \A q \in Requests : LoginKnows(q)'
        BY <3>5, <4>0 DEF Rotate, LoginKnows, AloneMeansAlone
      <4>6. \A q \in Requests : RefreshKnows(q)'
        BY <3>5, <4>0, <4>1 DEF Rotate, RefreshKnows, AloneMeansAlone
      <4>7. QED
        BY <4>2, <4>3, <4>4, <4>5, <4>6 DEF LapseInv
    <3>6. QED
      BY <2>2, <3>1, <3>2, <3>3, <3>4, <3>5 DEF Refresh
  <2>3. ASSUME NEW p \in Requests, Abandon(p) PROVE LapseInv'
    <3>0. lapsed => lapsed'
      BY <2>3 DEF Abandon, HalfEnforced, AccountType
    <3>1. ~lapsed' => SingleMobileSession' /\ Purged' /\ \A q \in Requests :
      LoginKnows(q)' /\ RefreshKnows(q)'
      BY <2>3, <3>0 DEF Abandon, LapseInv, Purged, LoginKnows, RefreshKnows,
         SingleMobileSession, LiveMobile
    <3>2. ~lapsed' => Covered'
      <4>1. HalfEnforced(p) => lapsed'
        BY <2>3 DEF Abandon, AccountType
      <4>2. ~HalfEnforced(p) => CoverKept
        BY <2>3 DEF Abandon, CoverKept, HalfEnforced, LiveMobile
      <4>3. QED
        BY <3>0, <4>1, <4>2, KeptCoverCovers DEF LapseInv
    <3>3. QED
      BY <3>1, <3>2 DEF LapseInv
  <2>4. CASE Others
    <3>1. ASSUME NEW s \in Sessions, Logout(s) PROVE LapseInv'
      <4>1. ~lapsed' => SingleMobileSession' /\ Purged' /\ \A q \in Requests :
        LoginKnows(q)' /\ RefreshKnows(q)'
        BY <3>1 DEF Logout, LapseInv, Purged, LoginKnows, RefreshKnows, Reading,
           SingleMobileSession, LiveMobile, Locals
      <4>2. ~lapsed' => Covered'
        <5>1. CoverKept
          BY <3>1 DEF Logout, CoverKept, HalfEnforced, LiveMobile
        <5>2. QED
          BY <3>1, <5>1, KeptCoverCovers DEF Logout, LapseInv
      <4>3. QED
        BY <4>1, <4>2 DEF LapseInv
    <3>2. ASSUME NEW s \in Sessions, Expire(s) PROVE LapseInv'
      <4>1. ~lapsed' => SingleMobileSession' /\ Purged' /\ \A q \in Requests :
        LoginKnows(q)' /\ RefreshKnows(q)'
        BY <3>2 DEF Expire, LapseInv, Purged, LoginKnows, RefreshKnows,
           SingleMobileSession, LiveMobile
      <4>2. ~lapsed' => Covered'
        <5>1. CoverKept
          BY <3>2 DEF Expire, CoverKept, HalfEnforced, LiveMobile
        <5>2. QED
          BY <3>2, <5>1, KeptCoverCovers DEF Expire, LapseInv
      <4>3. QED
        BY <4>1, <4>2 DEF LapseInv
    <3>3. ASSUME NEW r \in Rows, SyncPushToken(r) PROVE LapseInv'
      <4>1. ~lapsed' => SingleMobileSession' /\ Purged' /\ \A q \in Requests :
        LoginKnows(q)' /\ RefreshKnows(q)'
        BY <3>3 DEF SyncPushToken, LapseInv, Purged, LoginKnows, RefreshKnows,
           SingleMobileSession, LiveMobile
      <4>2. ~lapsed' => Covered'
        <5>1. CoverKept
          BY <3>3 DEF SyncPushToken, CoverKept, HalfEnforced, LiveMobile
        <5>2. QED
          BY <3>3, <5>1, KeptCoverCovers DEF SyncPushToken, LapseInv
      <4>3. QED
        BY <4>1, <4>2 DEF LapseInv
    <3>4. ASSUME NEW r \in Rows, PushRejected(r) PROVE LapseInv'
      <4>1. ~lapsed' => SingleMobileSession' /\ Purged' /\ \A q \in Requests :
        LoginKnows(q)' /\ RefreshKnows(q)'
        BY <3>4 DEF PushRejected
      <4>2. ~lapsed' => Covered'
        BY <3>4 DEF PushRejected
      <4>3. QED
        BY <4>1, <4>2 DEF LapseInv
    <3>5. CASE BanUpdate
      <4>1. ~lapsed' => SingleMobileSession' /\ Purged' /\ \A q \in Requests :
        LoginKnows(q)' /\ RefreshKnows(q)'
        BY <3>5 DEF BanUpdate, LapseInv, Purged, LoginKnows, RefreshKnows,
           SingleMobileSession, LiveMobile
      <4>2. ~lapsed' => Covered'
        <5>1. CoverKept
          BY <3>5 DEF BanUpdate, CoverKept, HalfEnforced, LiveMobile
        <5>2. QED
          BY <3>5, <5>1, KeptCoverCovers DEF BanUpdate, LapseInv
      <4>3. QED
        BY <4>1, <4>2 DEF LapseInv
    <3>6. CASE SoftDeleteUpdate
      <4>1. ~lapsed' => SingleMobileSession' /\ Purged' /\ \A q \in Requests :
        LoginKnows(q)' /\ RefreshKnows(q)'
        BY <3>6 DEF SoftDeleteUpdate, LapseInv, Purged, LoginKnows, RefreshKnows,
           SingleMobileSession, LiveMobile
      <4>2. ~lapsed' => Covered'
        <5>1. CoverKept
          BY <3>6 DEF SoftDeleteUpdate, CoverKept, HalfEnforced, LiveMobile
        <5>2. QED
          BY <3>6, <5>1, KeptCoverCovers DEF SoftDeleteUpdate, LapseInv
      <4>3. QED
        BY <4>1, <4>2 DEF LapseInv
    <3>7. CASE PurgeSessions
      <4>1. ~lapsed' => SingleMobileSession' /\ Purged' /\ \A q \in Requests :
        LoginKnows(q)' /\ RefreshKnows(q)'
        BY <3>7 DEF PurgeSessions, LapseInv, Purged, LoginKnows, RefreshKnows, Reading,
           SingleMobileSession, LiveMobile, Locals
      <4>2. ~lapsed' => Covered'
        <5>1. CoverKept
          BY <3>7 DEF PurgeSessions, CoverKept, HalfEnforced, LiveMobile
        <5>2. QED
          BY <3>7, <5>1, KeptCoverCovers DEF PurgeSessions, LapseInv
      <4>3. QED
        BY <4>1, <4>2 DEF LapseInv
    <3>8. QED
      BY <2>4, <3>1, <3>2, <3>3, <3>4, <3>5, <3>6, <3>7 DEF Others
  <2>5. CASE UNCHANGED vars
    <3>1. ~lapsed' => SingleMobileSession' /\ Purged' /\ \A q \in Requests :
      LoginKnows(q)' /\ RefreshKnows(q)'
      BY <2>5 DEF vars, LapseInv, Purged, LoginKnows, RefreshKnows, SingleMobileSession,
         LiveMobile
    <3>2. ~lapsed' => Covered'
      <4>1. CoverKept
        BY <2>5 DEF vars, CoverKept, HalfEnforced, LiveMobile
      <4>2. QED
        BY <2>5, <4>1, KeptCoverCovers DEF vars, LapseInv
    <3>3. QED
      BY <3>1, <3>2 DEF LapseInv
  <2> QED
    BY <2>1, <2>2, <2>3, <2>4, <2>5 DEF Next
<1>3. LapseInv => SingleUnlessLapsed
  BY DEF LapseInv, SingleUnlessLapsed
<1>4. QED
  BY <1>1, <1>2, <1>3, TypeCorrect, ShapeHolds, UndisturbedLoginReaches, PTL DEF Spec

\* ClosedAccountGetsNoTokens: a request that begins after a ban or a soft
\* deletion never reaches a step that writes a session.
THEOREM ClosedAccountIsRefused == Spec => []ClosedAccountGetsNoTokens
<1> USE NullsAssumption
        DEF LoginSteps, RefreshSteps, accountVars, deviceVars, sessionVars, localVars
<1>1. Init => ClosedAccountGetsNoTokens
  BY DEF Init, ClosedAccountGetsNoTokens
<1>2. TypeOK /\ Shape /\ ClosedAccountGetsNoTokens /\ [Next]_vars =>
  ClosedAccountGetsNoTokens'
  <2> SUFFICES ASSUME TypeOK, Shape, ClosedAccountGetsNoTokens, [Next]_vars PROVE
    ClosedAccountGetsNoTokens'
    OBVIOUS
  <2> USE DEF TypeOK, DeviceType, SessionType, RequestType, EffectType, Shape, Goto,
    Finish, Begin, Remove, Present, Mobile, InFlight
  <2>1. ASSUME NEW p \in Requests, Login(p) PROVE ClosedAccountGetsNoTokens'
    <3>1. ASSUME NEW d \in Devices \cup {NoDevice}, StartLogin(p, d) PROVE
      ClosedAccountGetsNoTokens'
      BY <3>1 DEF StartLogin, ClosedAccountGetsNoTokens
    <3>2. CASE LoginProfile(p)
      BY <3>2 DEF LoginProfile, ClosedAccountGetsNoTokens, CutIsClosed
    <3>3. CASE FindDevice(p)
      BY <3>3 DEF FindDevice, ClosedAccountGetsNoTokens
    <3>4. ASSUME NEW r \in Rows, InsertDevice(p, r) PROVE ClosedAccountGetsNoTokens'
      BY <3>4 DEF InsertDevice, ClosedAccountGetsNoTokens
    <3>5. CASE CountSessions(p)
      BY <3>5 DEF CountSessions, ClosedAccountGetsNoTokens
    <3>6. CASE TouchDevice(p)
      BY <3>6 DEF TouchDevice, ClosedAccountGetsNoTokens
    <3>7. CASE ReplaceSessions(p)
      BY <3>7 DEF ReplaceSessions, ClosedAccountGetsNoTokens
    <3>8. CASE SelectOthers(p)
      BY <3>8 DEF SelectOthers, ClosedAccountGetsNoTokens
    <3>9. CASE Deactivate(p)
      BY <3>9 DEF Deactivate, EnforceDone, ClosedAccountGetsNoTokens
    <3>10. CASE PurgeOthers(p)
      BY <3>10 DEF PurgeOthers, EnforceDone, ClosedAccountGetsNoTokens
    <3>11. ASSUME NEW s \in Sessions, InsertSession(p, s) PROVE ClosedAccountGetsNoTokens'
      BY <3>11 DEF InsertSession, ClosedAccountGetsNoTokens
    <3>12. QED
      BY <2>1, <3>1, <3>2, <3>3, <3>4, <3>5, <3>6, <3>7, <3>8, <3>9, <3>10, <3>11 DEF Login
  <2>2. ASSUME NEW p \in Requests, Refresh(p) PROVE ClosedAccountGetsNoTokens'
    <3>1. ASSUME NEW s \in Sessions, NEW t \in {0, token[s]}, StartRefresh(p, s, t) PROVE
      ClosedAccountGetsNoTokens'
      BY <3>1 DEF StartRefresh, ClosedAccountGetsNoTokens
    <3>2. CASE DropSession(p)
      BY <3>2 DEF DropSession, ClosedAccountGetsNoTokens
    <3>3. CASE FindActor(p)
      BY <3>3 DEF FindActor, ClosedAccountGetsNoTokens
    <3>4. CASE RefreshProfile(p)
      BY <3>4 DEF RefreshProfile, ClosedAccountGetsNoTokens, CutIsClosed
    <3>5. CASE Rotate(p)
      BY <3>5 DEF Rotate, ClosedAccountGetsNoTokens
    <3>6. QED
      BY <2>2, <3>1, <3>2, <3>3, <3>4, <3>5 DEF Refresh
  <2>3. ASSUME NEW p \in Requests, Abandon(p) PROVE ClosedAccountGetsNoTokens'
    BY <2>3 DEF Abandon, ClosedAccountGetsNoTokens
  <2>4. CASE Others
    <3>1. ASSUME NEW s \in Sessions, Logout(s) PROVE ClosedAccountGetsNoTokens'
      BY <3>1 DEF Logout, ClosedAccountGetsNoTokens
    <3>2. ASSUME NEW s \in Sessions, Expire(s) PROVE ClosedAccountGetsNoTokens'
      BY <3>2 DEF Expire, ClosedAccountGetsNoTokens
    <3>3. ASSUME NEW r \in Rows, SyncPushToken(r) PROVE ClosedAccountGetsNoTokens'
      BY <3>3 DEF SyncPushToken, ClosedAccountGetsNoTokens
    <3>4. ASSUME NEW r \in Rows, PushRejected(r) PROVE ClosedAccountGetsNoTokens'
      BY <3>4 DEF PushRejected, ClosedAccountGetsNoTokens
    <3>5. CASE BanUpdate
      BY <3>5 DEF BanUpdate, ClosedAccountGetsNoTokens
    <3>6. CASE SoftDeleteUpdate
      BY <3>6 DEF SoftDeleteUpdate, ClosedAccountGetsNoTokens
    <3>7. CASE PurgeSessions
      BY <3>7 DEF PurgeSessions, ClosedAccountGetsNoTokens
    <3>8. QED
      BY <2>4, <3>1, <3>2, <3>3, <3>4, <3>5, <3>6, <3>7 DEF Others
  <2>5. CASE UNCHANGED vars
    BY <2>5 DEF vars, ClosedAccountGetsNoTokens
  <2> QED
    BY <2>1, <2>2, <2>3, <2>4, <2>5 DEF Next
<1>3. QED
  BY <1>1, <1>2, TypeCorrect, ShapeHolds, PTL DEF Spec

\* NoResurrection: no step brings a deleted session back, so a refresh in flight
\* cannot undo a logout, a purge or another device's login.
THEOREM DeletedStaysDeleted == Spec => NoResurrection
<1> USE DEF LoginSteps, RefreshSteps, accountVars, deviceVars, sessionVars, localVars
<1>1. TypeOK /\ [Next]_vars => [KeepsDeleted]_state
  <2> SUFFICES ASSUME TypeOK, [Next]_vars PROVE KeepsDeleted
    OBVIOUS
  <2> USE DEF KeepsDeleted, TypeOK, SessionType, Finish, Remove, Present
  <2>1. ASSUME NEW p \in Requests, Login(p) PROVE KeepsDeleted
    <3>1. ASSUME NEW d \in Devices \cup {NoDevice}, StartLogin(p, d) PROVE KeepsDeleted
      BY <3>1 DEF StartLogin
    <3>2. CASE LoginProfile(p)
      BY <3>2 DEF LoginProfile
    <3>3. CASE FindDevice(p)
      BY <3>3 DEF FindDevice
    <3>4. ASSUME NEW r \in Rows, InsertDevice(p, r) PROVE KeepsDeleted
      BY <3>4 DEF InsertDevice
    <3>5. CASE CountSessions(p)
      BY <3>5 DEF CountSessions
    <3>6. CASE TouchDevice(p)
      BY <3>6 DEF TouchDevice
    <3>7. CASE ReplaceSessions(p)
      BY <3>7 DEF ReplaceSessions
    <3>8. CASE SelectOthers(p)
      BY <3>8 DEF SelectOthers
    <3>9. CASE Deactivate(p)
      BY <3>9 DEF Deactivate
    <3>10. CASE PurgeOthers(p)
      BY <3>10 DEF PurgeOthers
    <3>11. ASSUME NEW s \in Sessions, InsertSession(p, s) PROVE KeepsDeleted
      BY <3>11 DEF InsertSession
    <3>12. QED
      BY <2>1, <3>1, <3>2, <3>3, <3>4, <3>5, <3>6, <3>7, <3>8, <3>9, <3>10, <3>11 DEF Login
  <2>2. ASSUME NEW p \in Requests, Refresh(p) PROVE KeepsDeleted
    <3>1. ASSUME NEW s \in Sessions, NEW t \in {0, token[s]}, StartRefresh(p, s, t) PROVE
      KeepsDeleted
      BY <3>1 DEF StartRefresh
    <3>2. CASE DropSession(p)
      BY <3>2 DEF DropSession
    <3>3. CASE FindActor(p)
      BY <3>3 DEF FindActor
    <3>4. CASE RefreshProfile(p)
      BY <3>4 DEF RefreshProfile
    <3>5. CASE Rotate(p)
      BY <3>5 DEF Rotate
    <3>6. QED
      BY <2>2, <3>1, <3>2, <3>3, <3>4, <3>5 DEF Refresh
  <2>3. ASSUME NEW p \in Requests, Abandon(p) PROVE KeepsDeleted
    BY <2>3 DEF Abandon
  <2>4. CASE Others
    <3>1. ASSUME NEW s \in Sessions, Logout(s) PROVE KeepsDeleted
      BY <3>1 DEF Logout
    <3>2. ASSUME NEW s \in Sessions, Expire(s) PROVE KeepsDeleted
      BY <3>2 DEF Expire
    <3>3. ASSUME NEW r \in Rows, SyncPushToken(r) PROVE KeepsDeleted
      BY <3>3 DEF SyncPushToken
    <3>4. ASSUME NEW r \in Rows, PushRejected(r) PROVE KeepsDeleted
      BY <3>4 DEF PushRejected
    <3>5. CASE BanUpdate
      BY <3>5 DEF BanUpdate
    <3>6. CASE SoftDeleteUpdate
      BY <3>6 DEF SoftDeleteUpdate
    <3>7. CASE PurgeSessions
      BY <3>7 DEF PurgeSessions
    <3>8. QED
      BY <2>4, <3>1, <3>2, <3>3, <3>4, <3>5, <3>6, <3>7 DEF Others
  <2>5. CASE UNCHANGED vars
    BY <2>5 DEF vars
  <2> QED
    BY <2>1, <2>2, <2>3, <2>4, <2>5 DEF Next
<1>2. QED
  BY <1>1, TypeCorrect, PTL DEF Spec, NoResurrection

-----------------------------------------------------------------------------

\* Every request in flight was begun when no other was, and saw none begin.
Serial == \A p \in Requests : pc[p] # "idle" => alone[p]

\* The unconditional promise, SingleMobileSession, where it can be kept: if
\* nothing fails and no login or refresh overlaps another, at most one mobile
\* session is live, whatever logouts, bans, expiries and purges come between.
\* Overlap, a push rejection and a login given up half-way are therefore all the
\* ways in which the rule lapses.
THEOREM SerialRequestsKeepSingleSession ==
  ASSUME Faults = {}
  PROVE  Spec /\ []Serial => []SingleMobileSession
<1> USE DEF LoginSteps, RefreshSteps, accountVars, deviceVars, sessionVars, localVars
<1>1. Init => ~lapsed
  BY DEF Init
<1>2. TypeOK /\ Serial /\ ~lapsed /\ [Next]_vars => ~lapsed'
  <2> SUFFICES ASSUME TypeOK, Serial, ~lapsed, [Next]_vars PROVE ~lapsed'
    OBVIOUS
  <2>1. ASSUME NEW p \in Requests, Login(p) PROVE ~lapsed'
    <3>1. ASSUME NEW s \in Sessions, InsertSession(p, s) PROVE ~lapsed'
      BY <3>1 DEF InsertSession, Serial
    <3>2. QED
      BY <2>1, <3>1 DEF Login, StartLogin, Begin, LoginProfile, FindDevice, InsertDevice,
         CountSessions, TouchDevice, ReplaceSessions, SelectOthers, Deactivate,
         PurgeOthers, EnforceDone
  <2>2. ASSUME NEW p \in Requests, Refresh(p) PROVE ~lapsed'
    <3>1. CASE Rotate(p)
      BY <3>1 DEF Rotate, Serial
    <3>2. QED
      BY <2>2, <3>1 DEF Refresh, StartRefresh, Begin, DropSession, FindActor, RefreshProfile
  <2>3. ASSUME NEW p \in Requests, Abandon(p) PROVE ~lapsed'
    BY <2>3 DEF Abandon
  <2>4. CASE Others
    BY <2>4 DEF Others, Logout, Expire, SyncPushToken, PushRejected, BanUpdate,
       SoftDeleteUpdate, PurgeSessions
  <2>5. CASE UNCHANGED vars
    BY <2>5 DEF vars
  <2> QED
    BY <2>1, <2>2, <2>3, <2>4, <2>5 DEF Next
<1>3. SingleUnlessLapsed /\ ~lapsed => SingleMobileSession
  BY DEF SingleUnlessLapsed
<1>4. QED
  BY <1>1, <1>2, <1>3, TypeCorrect, SingleSessionUntilLapsed, PTL DEF Spec

\* A token that was rotated away is never the current one of its session again,
\* not even when refreshes overlap: the stored token only moves on to a later one,
\* until the session is gone for good.
MovesOn == \A s \in Sessions : Present(s) => token'[s] >= token[s] \/ state'[s] = "deleted"
THEOREM SpentTokensStaySpent == Spec => [][MovesOn]_vars
<1> USE DEF LoginSteps, RefreshSteps, accountVars, deviceVars, sessionVars, localVars
<1>1. TypeOK /\ [Next]_vars => [MovesOn]_vars
  <2> SUFFICES ASSUME TypeOK, [Next]_vars PROVE MovesOn
    OBVIOUS
  <2> USE DEF MovesOn, Present, TypeOK, SessionType
  <2>1. ASSUME NEW S \in SUBSET Sessions, Remove(S) PROVE MovesOn
    BY <2>1 DEF Remove
  <2>2. ASSUME UNCHANGED token PROVE MovesOn
    BY <2>2
  <2>3. ASSUME NEW p \in Requests, Login(p) PROVE MovesOn
    <3>1. ASSUME NEW s \in Sessions, InsertSession(p, s) PROVE MovesOn
      BY <3>1 DEF InsertSession
    <3>2. CASE PurgeOthers(p)
      BY <2>1, <3>2 DEF PurgeOthers
    <3>3. QED
      BY <2>2, <2>3, <3>1, <3>2 DEF Login, StartLogin, LoginProfile, FindDevice,
         InsertDevice, CountSessions, TouchDevice, ReplaceSessions, SelectOthers, Deactivate
  <2>4. ASSUME NEW p \in Requests, Refresh(p) PROVE MovesOn
    <3>1. CASE Rotate(p)
      BY <3>1 DEF Rotate
    <3>2. CASE DropSession(p)
      BY <3>2 DEF DropSession, Remove
    <3>3. QED
      BY <2>2, <2>4, <3>1, <3>2 DEF Refresh, StartRefresh, FindActor, RefreshProfile
  <2>5. ASSUME NEW p \in Requests, Abandon(p) PROVE MovesOn
    BY <2>2, <2>5 DEF Abandon
  <2>6. CASE Others
    <3>1. ASSUME NEW s \in Sessions, Logout(s) PROVE MovesOn
      BY <2>1, <3>1 DEF Logout
    <3>2. CASE PurgeSessions
      BY <2>1, <3>2 DEF PurgeSessions
    <3>3. QED
      BY <2>2, <2>6, <3>1, <3>2 DEF Others, Expire, SyncPushToken, PushRejected, BanUpdate,
         SoftDeleteUpdate
  <2>7. CASE UNCHANGED vars
    BY <2>2, <2>7 DEF vars
  <2>8. QED
    BY <2>3, <2>4, <2>5, <2>6, <2>7 DEF Next
<1>2. QED
  BY <1>1, TypeCorrect, PTL DEF Spec

\* The account is closed, its sessions are gone, and no login is past the last
\* test of its profile: what a ban or a deletion is meant to end in.
ShutOut ==
  /\ Closed
  /\ \A s \in Sessions : ~Present(s)
  /\ \A p \in Requests : pc[p] \notin LoginSteps \ {"profile"}

\* Once a closed account is shut out it stays so: no request in flight, a refresh
\* that is about to rotate included, brings a session back.  Only a login that is
\* past its test when the purge runs can outlive the purge.
THEOREM ShutOutForGood == Spec => [](ShutOut => []ShutOut)
<1> USE NullsAssumption
        DEF LoginSteps, RefreshSteps, accountVars, deviceVars, sessionVars, localVars
<1>1. TypeOK /\ Shape /\ ShutOut /\ [Next]_vars => ShutOut'
  <2> SUFFICES ASSUME TypeOK, Shape, ShutOut, [Next]_vars PROVE ShutOut'
    OBVIOUS
  <2> USE DEF ShutOut, Closed, Present, TypeOK, SessionType, RequestType, Goto, Finish
  <2>1. ASSUME NEW S, Remove(S) PROVE \A s \in Sessions : ~Present(s)'
    BY <2>1 DEF Remove
  <2>2. ASSUME NEW p \in Requests, Login(p) PROVE ShutOut'
    BY <2>2 DEF Login, StartLogin, LoginProfile, FindDevice, InsertDevice, CountSessions,
       TouchDevice, ReplaceSessions, SelectOthers, Deactivate, PurgeOthers, EnforceDone,
       InsertSession
  <2>3. ASSUME NEW p \in Requests, Refresh(p) PROVE ShutOut'
    <3>1. CASE Rotate(p)
      BY <3>1 DEF Rotate, Shape, Locals
    <3>2. CASE DropSession(p)
      BY <2>1, <3>2 DEF DropSession
    <3>3. QED
      BY <2>3, <3>1, <3>2 DEF Refresh, StartRefresh, FindActor, RefreshProfile
  <2>4. ASSUME NEW p \in Requests, Abandon(p) PROVE ShutOut'
    BY <2>4 DEF Abandon
  <2>5. CASE Others
    <3>1. ASSUME NEW s \in Sessions, Logout(s) PROVE ShutOut'
      BY <3>1 DEF Logout
    <3>2. CASE PurgeSessions
      BY <2>1, <3>2 DEF PurgeSessions
    <3>3. QED
      BY <2>5, <3>1, <3>2 DEF Others, Expire, SyncPushToken, PushRejected, BanUpdate,
         SoftDeleteUpdate
  <2>6. CASE UNCHANGED vars
    BY <2>6 DEF vars
  <2>7. QED
    BY <2>2, <2>3, <2>4, <2>5, <2>6 DEF Next
<1>2. QED
  BY <1>1, TypeCorrect, ShapeHolds, PTL DEF Spec
=============================================================================
