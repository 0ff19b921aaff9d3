---------------------------- MODULE AuthSession ----------------------------
(***************************************************************************)
(* The sessions of one customer: apps/api/src/modules/auth (AuthService,   *)
(* AuthSessionService), the account operations that purge sessions, and    *)
(* the two writers of user_device outside auth.  No statement of these     *)
(* handlers runs in a transaction, so every awaited query is an action.    *)
(*                                                                         *)
(* Every query is restricted to one customer id, so one customer is        *)
(* modelled.  A session id and a refresh token are fresh when minted.      *)
(***************************************************************************)
EXTENDS Naturals, FiniteSets

CONSTANTS
  Requests,   \* login and refresh requests that can be in flight at once
  Devices,    \* client device identifiers (deviceInfo.deviceId)
  Rows,       \* primary keys of user_device
  Sessions,   \* primary keys of customer_sessions
  MaxToken,   \* bound: a session whose stored token is the MaxToken-th minted
              \* for it is not refreshed any more
  Faults,     \* the faults the environment shows, out of FaultKinds
  NoDevice, NoRow, NoSession

FaultKinds == {"push", "abandon"}

ASSUME FaultsAssumption == Faults \subseteq FaultKinds
ASSUME MaxTokenAssumption == MaxToken \in Nat \ {0}
ASSUME NullsAssumption ==
  /\ NoDevice \notin Devices
  /\ NoRow \notin Rows
  /\ NoSession \notin Sessions

VARIABLES
  banned, deleted,  \* customers.banned, customers.deletedAt # null
  device,           \* device[r]: user_device.deviceId of row r, NoDevice if absent
  active,           \* active[r]: user_device.isActive
  state,            \* state[s]: the row of customer_sessions
  on,               \* on[s]: customer_sessions.userDeviceId, NoRow for a web session
  token,            \* token[s]: which minted token the stored hash is of
  pc, dev, row, sess, others, todo,  \* locals of the requests in flight
  alone,            \* history: no other login or refresh overlapped this one
  cut,              \* history: the account was closed when this one began
  lapsed            \* history: the single mobile session rule has lapsed (see
                    \* SingleUnlessLapsed)

accountVars == <<banned, deleted>>
deviceVars  == <<device, active>>
sessionVars == <<state, on, token>>
localVars   == <<dev, row, sess, others, todo, alone, cut>>
vars == <<accountVars, deviceVars, sessionVars, pc, localVars, lapsed>>

LoginSteps   == {"profile", "device", "newDevice", "count", "touch", "touchReplace",
                 "replace", "others", "enforce", "insert"}
RefreshSteps == {"drop", "actor", "refreshProfile", "rotate"}

-----------------------------------------------------------------------------

Present(s)    == state[s] \in {"live", "expired"}
Mobile(s)     == on[s] # NoRow
LiveMobile    == {s \in Sessions : state[s] = "live" /\ Mobile(s)}
Closed        == banned \/ deleted
InFlight      == {p \in Requests : pc[p] # "idle"}

\* The other devices lost isActive, but their sessions are not deleted yet.
HalfEnforced(p) == pc[p] = "enforce" /\ todo[p] = {"purge"}

-----------------------------------------------------------------------------

Init ==
  /\ banned = FALSE /\ deleted = FALSE
  /\ device = [r \in Rows |-> NoDevice]
  /\ active = [r \in Rows |-> FALSE]
  /\ state = [s \in Sessions |-> "unused"]
  /\ on = [s \in Sessions |-> NoRow]
  /\ token = [s \in Sessions |-> 0]
  /\ pc = [p \in Requests |-> "idle"]
  /\ dev = [p \in Requests |-> NoDevice]
  /\ row = [p \in Requests |-> NoRow]
  /\ sess = [p \in Requests |-> NoSession]
  /\ others = [p \in Requests |-> {}]
  /\ todo = [p \in Requests |-> {}]
  /\ alone = [p \in Requests |-> FALSE]
  /\ cut = [p \in Requests |-> FALSE]
  /\ lapsed = FALSE

Goto(p, l) == pc' = [pc EXCEPT ![p] = l]

\* A request leaves the server: its locals are gone.
Finish(p) ==
  /\ Goto(p, "idle")
  /\ dev' = [dev EXCEPT ![p] = NoDevice]
  /\ row' = [row EXCEPT ![p] = NoRow]
  /\ sess' = [sess EXCEPT ![p] = NoSession]
  /\ others' = [others EXCEPT ![p] = {}]
  /\ todo' = [todo EXCEPT ![p] = {}]
  /\ alone' = [alone EXCEPT ![p] = FALSE]
  /\ cut' = [cut EXCEPT ![p] = FALSE]

\* The history variables when request p begins.
Begin(p) ==
  /\ alone' = [q \in Requests |-> IF q = p THEN InFlight = {} ELSE FALSE]
  /\ cut' = [cut EXCEPT ![p] = Closed]
  /\ UNCHANGED lapsed

\* DELETE FROM customer_sessions: the rows of S that exist are gone.
Remove(S) ==
  LET gone == {s \in S : Present(s)}
  IN /\ state' = [s \in Sessions |-> IF s \in gone THEN "deleted" ELSE state[s]]
     /\ on' = [s \in Sessions |-> IF s \in gone THEN NoRow ELSE on[s]]
     /\ token' = [s \in Sessions |-> IF s \in gone THEN 0 ELSE token[s]]

-----------------------------------------------------------------------------
(* Login.                                                                  *)

\* validatePasswordCredentials: look the customer up, refuse a banned or a
\* deleted one; d is the device of a mobile login, NoDevice for a web login.
StartLogin(p, d) ==
  /\ pc[p] = "idle"
  /\ ~Closed
  /\ Goto(p, "profile")
  /\ dev' = [dev EXCEPT ![p] = d]
  /\ Begin(p)
  /\ UNCHANGED <<accountVars, deviceVars, sessionVars, row, sess, others, todo>>

\* getUserProfile, then issueAuthResult's ensureUserNotBanned on what it read.
LoginProfile(p) ==
  /\ pc[p] = "profile"
  /\ IF Closed
     THEN Finish(p)
     ELSE /\ Goto(p, IF dev[p] = NoDevice THEN "insert" ELSE "device")
          /\ UNCHANGED localVars
  /\ UNCHANGED <<accountVars, deviceVars, sessionVars, lapsed>>

\* findOrCreateDevice selects LIMIT 1 of the rows that carry this deviceId:
\* nothing makes (customer, deviceId) unique, so there can be several.
FindDevice(p) ==
  /\ pc[p] = "device"
  /\ \/ \E r \in Rows : /\ device[r] = dev[p]
                        /\ row' = [row EXCEPT ![p] = r]
                        /\ Goto(p, "count")
     \/ /\ \A r \in Rows : device[r] # dev[p]
        /\ Goto(p, "newDevice")
        /\ UNCHANGED row
  /\ UNCHANGED <<accountVars, deviceVars, sessionVars, dev, sess, others, todo,
                 alone, cut, lapsed>>

InsertDevice(p, r) ==
  /\ pc[p] = "newDevice"
  /\ device[r] = NoDevice
  /\ device' = [device EXCEPT ![r] = dev[p]]
  /\ active' = [active EXCEPT ![r] = TRUE]
  /\ row' = [row EXCEPT ![p] = r]
  /\ Goto(p, "others")
  /\ UNCHANGED <<accountVars, sessionVars, dev, sess, others, todo, alone, cut, lapsed>>

\* findActiveSessionsByDeviceId decides hasExistingSession.
CountSessions(p) ==
  /\ pc[p] = "count"
  /\ Goto(p, IF \E s \in LiveMobile : on[s] = row[p] THEN "touchReplace" ELSE "touch")
  /\ UNCHANGED <<accountVars, deviceVars, sessionVars, localVars, lapsed>>

\* Mutation: the device is touched without isActive: true.
TouchKeepingInactive(p) ==
  /\ pc[p] \in {"touch", "touchReplace"}
  /\ Goto(p, IF pc[p] = "touchReplace" THEN "replace" ELSE "others")
  /\ UNCHANGED <<accountVars, deviceVars, sessionVars, localVars, lapsed>>

TouchDevice(p) ==
  /\ pc[p] \in {"touch", "touchReplace"}
  /\ active' = [active EXCEPT ![row[p]] = TRUE]
  /\ Goto(p, IF pc[p] = "touchReplace" THEN "replace" ELSE "others")
  /\ UNCHANGED <<accountVars, device, sessionVars, localVars, lapsed>>

\* Mutation: only the session that was found is invalidated.
ReplaceOneSession(p) ==
  /\ pc[p] = "replace"
  /\ \E s \in Sessions :
       /\ on[s] = row[p]
       /\ state' = [state EXCEPT ![s] = "expired"]
  /\ Goto(p, "others")
  /\ UNCHANGED <<accountVars, deviceVars, on, token, localVars, lapsed>>

\* invalidateDeviceSessions: expiresAt = now on every session of the row.
ReplaceSessions(p) ==
  /\ pc[p] = "replace"
  /\ state' = [s \in Sessions |->
                 IF on[s] = row[p] /\ Present(s) THEN "expired" ELSE state[s]]
  /\ Goto(p, "others")
  /\ UNCHANGED <<accountVars, deviceVars, on, token, localVars, lapsed>>

\* enforceSingleMobileSession selects the customer's other ACTIVE devices.
SelectOthers(p) ==
  LET found == {r \in Rows : device[r] # NoDevice /\ r # row[p] /\ active[r]}
  IN /\ pc[p] = "others"
     /\ others' = [others EXCEPT ![p] = found]
     /\ todo' = [todo EXCEPT ![p] = IF found = {} THEN {} ELSE {"deactivate", "purge"}]
     /\ Goto(p, IF found = {} THEN "insert" ELSE "enforce")
     /\ UNCHANGED <<accountVars, deviceVars, sessionVars, dev, row, sess,
                    alone, cut, lapsed>>

\* The two statements of Promise.all, in either order.
EnforceDone(p, w) ==
  /\ pc[p] = "enforce"
  /\ w \in todo[p]
  /\ todo' = [todo EXCEPT ![p] = @ \ {w}]
  /\ Goto(p, IF todo[p] = {w} THEN "insert" ELSE "enforce")
  /\ UNCHANGED <<accountVars, dev, row, sess, others, alone, cut, lapsed>>

Deactivate(p) ==
  /\ EnforceDone(p, "deactivate")
  /\ active' = [r \in Rows |-> r \notin others[p] /\ active[r]]
  /\ UNCHANGED <<device, sessionVars>>

PurgeOthers(p) ==
  /\ EnforceDone(p, "purge")
  /\ Remove({s \in Sessions : on[s] \in others[p]})
  /\ UNCHANGED deviceVars

\* Mutation: the session is written with the client's device identifier.
InsertSessionOnDeviceId(p, s) ==
  /\ pc[p] = "insert"
  /\ state[s] = "unused"
  /\ state' = [state EXCEPT ![s] = "live"]
  /\ on' = [on EXCEPT ![s] = dev[p]]
  /\ token' = [token EXCEPT ![s] = 1]
  /\ Finish(p)
  /\ UNCHANGED <<accountVars, deviceVars, lapsed>>

\* createSession's INSERT; the tokens are then returned to the client.
InsertSession(p, s) ==
  /\ pc[p] = "insert"
  /\ state[s] = "unused"
  /\ state' = [state EXCEPT ![s] = "live"]
  /\ on' = [on EXCEPT ![s] = row[p]]
  /\ token' = [token EXCEPT ![s] = 1]
  /\ lapsed' = (lapsed \/ (row[p] # NoRow /\ ~alone[p]))
  /\ Finish(p)
  /\ UNCHANGED <<accountVars, deviceVars>>

-----------------------------------------------------------------------------
(* Refresh.                                                                *)

\* findSessionById, then the tests on the record it returned.  A client presents
\* the token t: the current one, or (0) one never minted or rotated away.
StartRefresh(p, s, t) ==
  /\ pc[p] = "idle"
  /\ Present(s)
  /\ token[s] < MaxToken
  /\ IF state[s] = "live" /\ t = token[s]
     THEN Goto(p, "actor")
     ELSE Goto(p, "drop")
  /\ sess' = [sess EXCEPT ![p] = s]
  /\ Begin(p)
  /\ UNCHANGED <<accountVars, deviceVars, sessionVars, dev, row, others, todo>>

\* refreshSession's logout of an expired, mismatched or ownerless session.
DropSession(p) ==
  /\ pc[p] = "drop"
  /\ Remove({sess[p]})
  /\ Finish(p)
  /\ UNCHANGED <<accountVars, deviceVars, lapsed>>

FindActor(p) ==
  /\ pc[p] = "actor"
  /\ Goto(p, IF deleted THEN "drop" ELSE "refreshProfile")
  /\ UNCHANGED <<accountVars, deviceVars, sessionVars, localVars, lapsed>>

\* Mutation: refresh without ensureUserNotBanned.
RefreshProfileOfBanned(p) ==
  /\ pc[p] = "refreshProfile"
  /\ IF deleted
     THEN Finish(p)
     ELSE Goto(p, "rotate") /\ UNCHANGED localVars
  /\ UNCHANGED <<accountVars, deviceVars, sessionVars, lapsed>>

\* getUserProfile and ensureUserNotBanned: a refusal leaves the session alone.
\* updateDeviceOnRefresh only writes data that is not modelled.
RefreshProfile(p) ==
  /\ pc[p] = "refreshProfile"
  /\ IF Closed
     THEN Finish(p)
     ELSE Goto(p, "rotate") /\ UNCHANGED localVars
  /\ UNCHANGED <<accountVars, deviceVars, sessionVars, lapsed>>

\* Mutation: the rotation is an upsert.
RotateUpsert(p) ==
  /\ pc[p] = "rotate"
  /\ state' = [state EXCEPT ![sess[p]] = "live"]
  /\ token' = [token EXCEPT ![sess[p]] = @ + 1]
  /\ Finish(p)
  /\ UNCHANGED <<accountVars, deviceVars, on, lapsed>>

\* rotateSessionTokens: UPDATE ... WHERE id, whatever the row says by now, and
\* no row is touched if it was deleted; the client gets tokens either way.
Rotate(p) ==
  LET s == sess[p]
  IN /\ pc[p] = "rotate"
     /\ IF Present(s)
        THEN /\ state' = [state EXCEPT ![s] = "live"]
             /\ token' = [token EXCEPT ![s] = @ + 1]
             /\ lapsed' = (lapsed \/ (state[s] = "expired" /\ Mobile(s) /\ ~alone[p]))
        ELSE UNCHANGED <<state, token, lapsed>>
     /\ Finish(p)
     /\ UNCHANGED <<accountVars, deviceVars, on>>

\* A failed statement or a restarted server: the request is given up here.
Abandon(p) ==
  /\ "abandon" \in Faults
  /\ pc[p] # "idle"
  /\ lapsed' = (lapsed \/ HalfEnforced(p))
  /\ Finish(p)
  /\ UNCHANGED <<accountVars, deviceVars, sessionVars>>

-----------------------------------------------------------------------------
(* The other writers of these rows.  Each checks its caller or its target  *)
(* first and writes by primary key later, so the guard is only what stays  *)
(* true between the two.                                                   *)

Logout(s) ==
  /\ Present(s)
  /\ Remove({s})
  /\ UNCHANGED <<accountVars, deviceVars, pc, localVars, lapsed>>

\* Seven days pass without a refresh.
Expire(s) ==
  /\ state[s] = "live"
  /\ state' = [state EXCEPT ![s] = "expired"]
  /\ UNCHANGED <<accountVars, deviceVars, on, token, pc, localVars, lapsed>>

\* NotificationService.syncMobilePushToken on a device the customer owns.
SyncPushToken(r) ==
  /\ device[r] # NoDevice
  /\ ~active[r]
  /\ active' = [active EXCEPT ![r] = TRUE]
  /\ UNCHANGED <<accountVars, device, sessionVars, pc, localVars, lapsed>>

\* The push worker learns that the token of r is not registered any more.
PushRejected(r) ==
  /\ "push" \in Faults
  /\ active[r]
  /\ active' = [active EXCEPT ![r] = FALSE]
  /\ lapsed' = TRUE
  /\ UNCHANGED <<accountVars, device, sessionVars, pc, localVars>>

\* CustomersService.ban and softDelete issue their UPDATE and their DELETE in
\* one Promise.all, UserService.deleteAccount awaits its ban first; each of
\* these statements can be delayed past anything else, or fail alone, so each
\* is an action (AccountDeletion has the handlers whole).
BanUpdate ==
  /\ ~banned
  /\ banned' = TRUE
  /\ UNCHANGED <<deleted, deviceVars, sessionVars, pc, localVars, lapsed>>

SoftDeleteUpdate ==
  /\ ~deleted
  /\ deleted' = TRUE
  /\ UNCHANGED <<banned, deviceVars, sessionVars, pc, localVars, lapsed>>

PurgeSessions ==
  /\ Remove(Sessions)
  /\ UNCHANGED <<accountVars, deviceVars, pc, localVars, lapsed>>

-----------------------------------------------------------------------------

Login(p) ==
  \/ \E d \in Devices \cup {NoDevice} : StartLogin(p, d)
  \/ LoginProfile(p)
  \/ FindDevice(p)
  \/ \E r \in Rows : InsertDevice(p, r)
  \/ CountSessions(p)
  \/ TouchDevice(p)
  \/ ReplaceSessions(p)
  \/ SelectOthers(p)
  \/ Deactivate(p)
  \/ PurgeOthers(p)
  \/ \E s \in Sessions : InsertSession(p, s)

Refresh(p) ==
  \/ \E s \in Sessions : \E t \in {0, token[s]} : StartRefresh(p, s, t)
  \/ DropSession(p)
  \/ FindActor(p)
  \/ RefreshProfile(p)
  \/ Rotate(p)

Others ==
  \/ \E s \in Sessions : Logout(s) \/ Expire(s)
  \/ \E r \in Rows : SyncPushToken(r) \/ PushRejected(r)
  \/ BanUpdate \/ SoftDeleteUpdate \/ PurgeSessions

Next ==
  \/ \E p \in Requests : Login(p) \/ Refresh(p) \/ Abandon(p)
  \/ Others

Spec == Init /\ [][Next]_vars

-----------------------------------------------------------------------------

\* Type correctness: a session points at a row of user_device, and every local a
\* handler carries across an await is of the kind its later statements expect.
AccountType ==
  /\ banned \in BOOLEAN
  /\ deleted \in BOOLEAN
  /\ lapsed \in BOOLEAN

DeviceType ==
  /\ device \in [Rows -> Devices \cup {NoDevice}]
  /\ active \in [Rows -> BOOLEAN]

SessionType ==
  /\ state \in [Sessions -> {"unused", "live", "expired", "deleted"}]
  /\ on \in [Sessions -> Rows \cup {NoRow}]
  /\ token \in [Sessions -> Nat]

RequestType ==
  /\ pc \in [Requests -> {"idle"} \cup LoginSteps \cup RefreshSteps]
  /\ dev \in [Requests -> Devices \cup {NoDevice}]
  /\ row \in [Requests -> Rows \cup {NoRow}]
  /\ sess \in [Requests -> Sessions \cup {NoSession}]

EffectType ==
  /\ others \in [Requests -> SUBSET Rows]
  /\ todo \in [Requests -> SUBSET {"deactivate", "purge"}]
  /\ alone \in [Requests -> BOOLEAN]
  /\ cut \in [Requests -> BOOLEAN]

TypeOK == AccountType /\ DeviceType /\ SessionType /\ RequestType /\ EffectType

\* "Enforced single session": a customer has at most one live mobile session.
\* The code does not keep this; see SingleUnlessLapsed for what it does keep.
SingleMobileSession == \A s, t \in LiveMobile : s = t

\* At most one live mobile session, until a login or a reviving refresh wrote
\* its session although another one overlapped it, a push rejection switched
\* isActive off, or a login was given up between its two enforcing writes.
SingleUnlessLapsed == ~lapsed => SingleMobileSession

\* What one undisturbed mobile login achieves whatever happened before it: when
\* it inserts its session, no live session is left on its own device row or on
\* any row it found active.
EnforcementReach ==
  \A p \in Requests : pc[p] = "insert" /\ alone[p] =>
    \A s \in LiveMobile : on[s] \notin others[p] \cup {row[p]}

\* A request that began after the account was banned or soft-deleted never
\* gets to write a session or a token.
ClosedAccountGetsNoTokens ==
  \A p \in Requests : pc[p] \in (LoginSteps \ {"profile"}) \cup {"rotate"} => ~cut[p]

\* A deleted session never comes back, not even by a refresh that read it
\* before it was deleted.
KeepsDeleted == \A s \in Sessions : state[s] = "deleted" => state'[s] = "deleted"
NoResurrection == [][KeepsDeleted]_state
=============================================================================
