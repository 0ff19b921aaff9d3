------------------------------ MODULE Realtime ------------------------------
(***************************************************************************)
(* The sockets of one customer at the realtime gateway, and what Redis     *)
(* remembers of them: RealtimeGateway, RealtimeWsAuthGuard, and            *)
(* NotificationRoomPresenceService of apps/api/src/services/realtime; the  *)
(* ConnectionHandler, PresenceManager and MetricsCollector of              *)
(* packages/realtime-core.  A push worker asks isSurfacePresent whether    *)
(* the customer looks at a surface.                                        *)
(*                                                                         *)
(* A step runs from one await to the next and includes the Redis command   *)
(* it issues: the server sends its commands over one connection, so they   *)
(* run in the order in which they are issued.  A command can fail, and a   *)
(* pipeline of several be cut off behind some of them.  Events of one      *)
(* socket are handled concurrently, as their handlers are asynchronous.    *)
(* The zone and store index sets of PresenceManager stay empty, because    *)
(* RealtimeAuthHandler.validate names neither a zone nor a store.          *)
(***************************************************************************)
EXTENDS Integers, FiniteSets

CONSTANTS
  Sockets,   \* socket ids; one is never reused
  Surfaces,  \* notification surfaces
  Marking,   \* the sockets whose clients send notification and room events
  Locating,  \* the sockets whose clients send locations
  MaxInFlight, \* bound: message handlers in flight at once
  Guards,    \* the guards a deployment may run, out of GuardKinds
  Faults,    \* the faults the environment shows, out of FaultKinds
  Customer,  \* the owner of the access token each socket presents
  TestUser,  \* the user of WS_AUTH_DISABLED
  NoUser, NoSocket

(***************************************************************************)
(* "jwt": JwtAuthGuard, which leaves the user on the HTTP request and not  *)
(* on socket.data.  "disabled": WS_AUTH_DISABLED=true.  "owner": the guard *)
(* the e2e suite installs, which puts the token's owner on socket.data.    *)
(***************************************************************************)
GuardKinds == {"jwt", "disabled", "owner"}

FaultKinds == {"redis"}   \* a Redis command fails

Handlers == 1..MaxInFlight

ASSUME MaxInFlightAssumption == MaxInFlight \in Nat
ASSUME GuardsAssumption == Guards \subseteq GuardKinds
ASSUME FaultsAssumption == Faults \subseteq FaultKinds
ASSUME ClientsAssumption == Marking \subseteq Sockets /\ Locating \subseteq Sockets
ASSUME NamesAssumption ==
  /\ Customer \notin Sockets \cup {TestUser, NoUser}
  /\ TestUser \notin Sockets \cup {NoUser}
  /\ NoUser \notin Sockets
  /\ NoSocket \notin Sockets

VARIABLES
  guard,     \* the guard of this deployment
  conn,      \* conn[s]: "new", "open" or "closed"
  user,      \* user[s]: socket.data.user.id, NoUser while undefined
  connecting,\* the sockets whose token handleConnection is validating
  closing,   \* closing[s]: what handleDisconnect of s still has to do
  cleared,   \* cleared[s]: the surfaces clearSocket has read, for its pipeline
  joined,    \* joined[s]: the Socket.IO rooms of s
  counted,   \* MetricsCollector.connectionIndex
  activeCount, \* MetricsCollector.activeConnections
  presence,  \* Redis: the ids that have a presence key
  room,      \* Redis: room[f], the socket ids in the set of surface f
  hold,      \* Redis: hold[s], the list at the socket key; {} when absent
  pc, sock, surf, seen,  \* locals of the message handlers in flight
  todo, cur, asked,  \* locals of the push worker in isSurfacePresent
  loose,     \* history: the marks of s may outlive its rooms, see SuppressesOnlyJoined
  raced,     \* history: s closed while handleConnection was in flight
  stray      \* history: the presence key outlives the sockets, see OfflineAfterLast

socketVars  == <<conn, user, connecting, closing, cleared, joined>>
metricVars  == <<counted, activeCount>>
redisVars   == <<presence, room, hold>>
handlerVars == <<pc, sock, surf, seen>>
workerVars  == <<todo, cur, asked>>
histVars    == <<loose, raced, stray>>
vars == <<guard, socketVars, metricVars, redisVars, handlerVars, workerVars, histVars>>

HandlerSteps == {"markRead", "markWrite", "unmarkRead", "unmarkRemove", "unmarkWrite",
                 "locate"}

-----------------------------------------------------------------------------

\* A message handler of s, or a part of its handleDisconnect, is in flight.
Handling(s) == \E h \in Handlers : pc[h] # "idle" /\ sock[h] = s
Settled(s)  == ~Handling(s) /\ closing[s] = {}

\* What isSurfacePresent would answer about s alone.
Present(s, f) == s \in room[f] /\ hold[s] # {}

\* The surfaces a deployment's guard lets a socket mark: socket.data.user.
GuardUser == CASE guard = "jwt" -> NoUser
               [] guard = "disabled" -> TestUser
               [] guard = "owner" -> Customer

Init ==
  /\ guard \in Guards
  /\ conn = [s \in Sockets |-> "new"]
  /\ user = [s \in Sockets |-> NoUser]
  /\ connecting = {}
  /\ closing = [s \in Sockets |-> {}]
  /\ cleared = [s \in Sockets |-> {}]
  /\ joined = [s \in Sockets |-> {}]
  /\ counted = {} /\ activeCount = 0
  /\ presence = {}
  /\ room = [f \in Surfaces |-> {}]
  /\ hold = [s \in Sockets |-> {}]
  /\ pc = [h \in Handlers |-> "idle"]
  /\ sock = [h \in Handlers |-> NoSocket]
  /\ surf = [h \in Handlers |-> {}]
  /\ seen = [h \in Handlers |-> {}]
  /\ todo = {} /\ cur = NoSocket /\ asked = {}
  /\ loose = {} /\ raced = {} /\ stray = FALSE

-----------------------------------------------------------------------------
(* Connection.                                                             *)

\* The socket is open whatever handleConnection answers; without a token, or
\* with one that does not verify, it answers "unauthorized" and does no more.
Connect(s) ==
  /\ conn[s] = "new"
  /\ conn' = [conn EXCEPT ![s] = "open"]
  /\ connecting' = connecting \cup {s}
  /\ UNCHANGED <<guard, user, closing, cleared, joined, metricVars, redisVars,
                 handlerVars, workerVars, histVars>>

Reject(s) ==
  /\ s \in connecting
  /\ connecting' = connecting \ {s}
  /\ UNCHANGED <<guard, conn, user, closing, cleared, joined, metricVars, redisVars,
                 handlerVars, workerVars, histVars>>

\* Mutation: the presence key is made of the socket id.
WritePresenceOfSocket(id, s) ==
  /\ presence' = presence \cup {s}
  /\ stray' = (stray \/ conn[s] = "closed")

\* A presence key written for a socket that is closed has nobody to delete it.
WritePresence(id, s) ==
  /\ presence' = presence \cup {id}
  /\ stray' = (stray \/ conn[s] = "closed")

\* The token is verified: trackConnection, and markOnline unless its SET fails,
\* whatever became of the socket in the meantime.
Accept(s) ==
  /\ s \in connecting
  /\ connecting' = connecting \ {s}
  /\ counted' = counted \cup {s}
  /\ activeCount' = activeCount + 1
  /\ \/ WritePresence(Customer, s)
     \/ "redis" \in Faults /\ UNCHANGED <<presence, stray>>
  /\ UNCHANGED <<guard, conn, user, closing, cleared, joined, room, hold, handlerVars,
                 workerVars, loose, raced>>

-----------------------------------------------------------------------------
(* Messages.  The guard runs before each handler; one that finds no user   *)
(* answers and does no more, so only the other case is a step.             *)

\* Handler h, the first free slot, takes up an event of s that goes on at step l.
Begin(h, s, l, F) ==
  /\ pc[h] = "idle"
  /\ \A g \in Handlers : g < h => pc[g] # "idle"
  /\ conn[s] = "open"
  /\ GuardUser # NoUser
  /\ user' = [user EXCEPT ![s] = GuardUser]
  /\ pc' = [pc EXCEPT ![h] = l]
  /\ sock' = [sock EXCEPT ![h] = s]
  /\ surf' = [surf EXCEPT ![h] = F]
  /\ loose' = IF Handling(s) THEN loose \cup {s} ELSE loose
  /\ UNCHANGED <<guard, conn, connecting, closing, cleared, metricVars, redisVars, seen,
                 workerVars, raced, stray>>

\* notification:join, and notification:sync, which then reads a history.
Join(h, s, f) ==
  /\ Begin(h, s, "markRead", {f})
  /\ joined' = [joined EXCEPT ![s] = @ \cup {f}]

\* Mutation: notification:leave forgets unmarkPresent.
LeaveMarked(h, s, f) ==
  /\ pc[h] = "idle"
  /\ conn[s] = "open"
  /\ joined' = [joined EXCEPT ![s] = @ \ {f}]
  /\ UNCHANGED <<guard, conn, user, connecting, closing, cleared, metricVars, redisVars,
                 handlerVars, workerVars, histVars>>

Leave(h, s, f) ==
  /\ Begin(h, s, "unmarkRead", {f})
  /\ joined' = [joined EXCEPT ![s] = @ \ {f}]

\* join_room and leave_room take any room and know nothing of marks: a surface left
\* in this way, in however good an order, stays marked.
JoinRoom(s, f) ==
  /\ conn[s] = "open"
  /\ joined' = [joined EXCEPT ![s] = @ \cup {f}]
  /\ UNCHANGED <<guard, conn, user, connecting, closing, cleared, metricVars, redisVars,
                 handlerVars, workerVars, histVars>>

LeaveRoom(s, f) ==
  /\ conn[s] = "open"
  /\ joined' = [joined EXCEPT ![s] = @ \ {f}]
  /\ loose' = loose \cup {s}
  /\ UNCHANGED <<guard, conn, user, connecting, closing, cleared, metricVars, redisVars,
                 handlerVars, workerVars, raced, stray>>

\* update_location: updateLocation's GET finds a record.
Locate(h, s) ==
  /\ GuardUser \in presence
  /\ Begin(h, s, "locate", {})
  /\ UNCHANGED joined

\* Handler h is through.
Done(h) ==
  /\ pc' = [pc EXCEPT ![h] = "idle"]
  /\ sock' = [sock EXCEPT ![h] = NoSocket]
  /\ surf' = [surf EXCEPT ![h] = {}]
  /\ seen' = [seen EXCEPT ![h] = {}]

At(h, l) == pc[h] = l
GoOn(h, l, S) ==
  /\ pc' = [pc EXCEPT ![h] = l]
  /\ seen' = [seen EXCEPT ![h] = S]
  /\ UNCHANGED <<sock, surf>>

LocateWrite(h) ==
  /\ At(h, "locate")
  /\ WritePresence(user[sock[h]], sock[h])
  /\ Done(h)
  /\ UNCHANGED <<guard, socketVars, metricVars, room, hold, workerVars, loose, raced>>

MarkRead(h) ==
  /\ At(h, "markRead")
  /\ GoOn(h, "markWrite", hold[sock[h]] \cup surf[h])
  /\ UNCHANGED <<guard, socketVars, metricVars, redisVars, workerVars, histVars>>

\* What SADD and SREM of handler h make of the room sets.
Added(h) == [f \in Surfaces |-> IF f \in surf[h] THEN room[f] \cup {sock[h]} ELSE room[f]]
Removed(h) == [f \in Surfaces |-> IF f \in surf[h] THEN room[f] \ {sock[h]} ELSE room[f]]

\* SADD room; SETEX socket key.
MarkWrite(h) ==
  /\ At(h, "markWrite")
  /\ room' = Added(h)
  /\ hold' = [hold EXCEPT ![sock[h]] = seen[h]]
  /\ Done(h)
  /\ UNCHANGED <<guard, socketVars, metricVars, presence, workerVars, histVars>>

UnmarkRead(h) ==
  /\ At(h, "unmarkRead")
  /\ IF hold[sock[h]] = {}
     THEN GoOn(h, "unmarkRemove", {})
     ELSE GoOn(h, "unmarkWrite", hold[sock[h]] \ surf[h])
  /\ UNCHANGED <<guard, socketVars, metricVars, redisVars, workerVars, histVars>>

\* SREM room, and unless there was no socket key SETEX or DEL of it.
Unmark(h) ==
  /\ pc[h] \in {"unmarkRemove", "unmarkWrite"}
  /\ room' = Removed(h)
  /\ hold' = IF At(h, "unmarkWrite") THEN [hold EXCEPT ![sock[h]] = seen[h]] ELSE hold
  /\ Done(h)
  /\ UNCHANGED <<guard, socketVars, metricVars, presence, workerVars, histVars>>

\* A command of handler h fails, or the question for the size of the room before
\* it: of a pipeline the first command may have run and the second not.
HandlerFails(h) ==
  /\ "redis" \in Faults
  /\ pc[h] # "idle"
  /\ \/ UNCHANGED room
     \/ At(h, "markWrite") /\ room' = Added(h)
     \/ At(h, "unmarkWrite") /\ room' = Removed(h)
  /\ loose' = IF pc[h] \in {"unmarkRead", "unmarkRemove", "unmarkWrite"}
              THEN loose \cup {sock[h]} ELSE loose
  /\ Done(h)
  /\ UNCHANGED <<guard, socketVars, metricVars, presence, hold, workerVars, raced, stray>>

-----------------------------------------------------------------------------
(* Disconnection: clearSocket, which is not awaited, and markOffline; each *)
(* issues its GET at once and deletes when it has the answer.              *)

\* Mutation: trackDisconnection keeps the entry.
UntrackNothing(s) == UNCHANGED metricVars

\* trackDisconnection: nothing to do for a socket that is not in the index.
Untrack(s) ==
  /\ counted' = counted \ {s}
  /\ activeCount' = IF s \in counted THEN activeCount - 1 ELSE activeCount

Disconnect(s) ==
  /\ conn[s] = "open"
  /\ conn' = [conn EXCEPT ![s] = "closed"]
  /\ joined' = [joined EXCEPT ![s] = {}]
  /\ closing' = [closing EXCEPT ![s] = {"offline"} \cup (IF hold[s] = {} THEN {} ELSE {"clear"})]
  /\ cleared' = [cleared EXCEPT ![s] = hold[s]]
  /\ Untrack(s)
  /\ loose' = IF Handling(s) THEN loose \cup {s} ELSE loose
  /\ raced' = raced \cup ({s} \cap connecting)
  /\ stray' = (stray \/ (user[s] # Customer /\ Customer \in presence))
  /\ UNCHANGED <<guard, user, connecting, redisVars, handlerVars, workerVars>>

\* Mutation: markOffline returns without DEL.
MarkOfflineKeepingKey(s) ==
  /\ "offline" \in closing[s]
  /\ closing' = [closing EXCEPT ![s] = @ \ {"offline"}]
  /\ UNCHANGED <<guard, conn, user, connecting, cleared, joined, metricVars, redisVars,
                 handlerVars, workerVars, histVars>>

\* socket.data.user?.id ?? socket.id: whom handleDisconnect marks offline.
UserOrSocket(s) == IF user[s] = NoUser THEN s ELSE user[s]

MarkOffline(s) ==
  /\ "offline" \in closing[s]
  /\ closing' = [closing EXCEPT ![s] = @ \ {"offline"}]
  /\ presence' = presence \ {UserOrSocket(s)}
  /\ stray' = (stray /\ UserOrSocket(s) # Customer)
  /\ UNCHANGED <<guard, conn, user, connecting, cleared, joined, metricVars, room, hold,
                 handlerVars, workerVars, loose, raced>>

\* The GET or the DEL of markOffline fails: the key stays with nobody to delete it.
OfflineFails(s) ==
  /\ "redis" \in Faults
  /\ "offline" \in closing[s]
  /\ closing' = [closing EXCEPT ![s] = @ \ {"offline"}]
  /\ stray' = (stray \/ UserOrSocket(s) \in presence \cap {Customer})
  /\ UNCHANGED <<guard, conn, user, connecting, cleared, joined, metricVars, redisVars,
                 handlerVars, workerVars, loose, raced>>

ClearWrite(s) ==
  /\ "clear" \in closing[s]
  /\ closing' = [closing EXCEPT ![s] = @ \ {"clear"}]
  /\ cleared' = [cleared EXCEPT ![s] = {}]
  /\ room' = [f \in Surfaces |-> IF f \in cleared[s] THEN room[f] \ {s} ELSE room[f]]
  /\ hold' = [hold EXCEPT ![s] = {}]
  /\ UNCHANGED <<guard, conn, user, connecting, joined, metricVars, presence,
                 handlerVars, workerVars, histVars>>

\* clearSocket fails at its GET or inside its pipeline, which handleDisconnect logs:
\* the list stays, and the room sets behind the command that failed.
ClearFails(s) ==
  /\ "redis" \in Faults
  /\ "clear" \in closing[s]
  /\ closing' = [closing EXCEPT ![s] = @ \ {"clear"}]
  /\ cleared' = [cleared EXCEPT ![s] = {}]
  /\ \E F \in SUBSET cleared[s] :
       room' = [f \in Surfaces |-> IF f \in F THEN room[f] \ {s} ELSE room[f]]
  /\ loose' = loose \cup {s}
  /\ UNCHANGED <<guard, conn, user, connecting, joined, metricVars, presence, hold,
                 handlerVars, workerVars, raced, stray>>

\* The server dies: no handler runs, Redis keeps what it has.
Crash ==
  /\ \E s \in Sockets : conn[s] = "open"
  /\ conn' = [s \in Sockets |-> IF conn[s] = "open" THEN "closed" ELSE conn[s]]
  /\ user' = [s \in Sockets |-> NoUser]
  /\ connecting' = {}
  /\ closing' = [s \in Sockets |-> {}]
  /\ cleared' = [s \in Sockets |-> {}]
  /\ joined' = [s \in Sockets |-> {}]
  /\ counted' = {} /\ activeCount' = 0
  /\ pc' = [h \in Handlers |-> "idle"]
  /\ sock' = [h \in Handlers |-> NoSocket]
  /\ surf' = [h \in Handlers |-> {}]
  /\ seen' = [h \in Handlers |-> {}]
  /\ loose' = loose \cup {s \in Sockets : conn[s] # "new"}
  /\ raced' = {}
  /\ stray' = (stray \/ Customer \in presence)
  /\ UNCHANGED <<guard, redisVars, workerVars>>

-----------------------------------------------------------------------------
(* Redis ends each key some time after its last write.                     *)

\* Mutation: the socket key is written without a time to live.
KeepSocketKey(s) == hold[s] # {} /\ UNCHANGED vars

ExpireSocketKey(s) ==
  /\ hold[s] # {}
  /\ hold' = [hold EXCEPT ![s] = {}]
  /\ UNCHANGED <<guard, socketVars, metricVars, presence, room, handlerVars, workerVars,
                 histVars>>

ExpireRoom(f) ==
  /\ room[f] # {}
  /\ room' = [room EXCEPT ![f] = {}]
  /\ UNCHANGED <<guard, socketVars, metricVars, presence, hold, handlerVars, workerVars,
                 histVars>>

ExpirePresence ==
  /\ presence # {}
  /\ presence' = {}
  /\ stray' = FALSE
  /\ UNCHANGED <<guard, socketVars, metricVars, room, hold, handlerVars, workerVars,
                 loose, raced>>

-----------------------------------------------------------------------------
(* isSurfacePresent, called by the push worker.                            *)

\* SMEMBERS; an empty set is the answer "absent".
Ask(f) ==
  /\ todo = {}
  /\ room[f] # {}
  /\ todo' = room[f]
  /\ asked' = {f}
  /\ UNCHANGED <<guard, socketVars, metricVars, redisVars, handlerVars, cur, histVars>>

\* EXISTS of the next socket's key: true ends the loop with "present".
AskExists(s) ==
  /\ cur = NoSocket
  /\ s \in todo
  /\ IF hold[s] # {}
     THEN todo' = {} /\ asked' = {} /\ UNCHANGED cur
     ELSE cur' = s /\ UNCHANGED <<todo, asked>>
  /\ UNCHANGED <<guard, socketVars, metricVars, redisVars, handlerVars, histVars>>

AskRemove ==
  /\ cur # NoSocket
  /\ room' = [f \in Surfaces |-> IF f \in asked THEN room[f] \ {cur} ELSE room[f]]
  /\ todo' = todo \ {cur}
  /\ asked' = IF todo = {cur} THEN {} ELSE asked
  /\ cur' = NoSocket
  /\ UNCHANGED <<guard, socketVars, metricVars, presence, hold, handlerVars, histVars>>

\* A command of the question fails, and the push job with it.
AskFails ==
  /\ "redis" \in Faults
  /\ todo # {}
  /\ todo' = {} /\ cur' = NoSocket /\ asked' = {}
  /\ UNCHANGED <<guard, socketVars, metricVars, redisVars, handlerVars, histVars>>

-----------------------------------------------------------------------------

Handle(h) ==
  \/ LocateWrite(h) \/ MarkRead(h) \/ MarkWrite(h) \/ UnmarkRead(h) \/ Unmark(h)
  \/ HandlerFails(h)

Server(s) ==
  \/ Reject(s) \/ Accept(s)
  \/ MarkOffline(s) \/ OfflineFails(s) \/ ClearWrite(s) \/ ClearFails(s)

Client(s) ==
  \/ Connect(s) \/ Disconnect(s)
  \/ s \in Locating /\ \E h \in Handlers : Locate(h, s)
  \/ /\ s \in Marking
     /\ \E f \in Surfaces :
          \/ JoinRoom(s, f) \/ LeaveRoom(s, f)
          \/ \E h \in Handlers : Join(h, s, f) \/ Leave(h, s, f)

Worker ==
  \/ \E f \in Surfaces : Ask(f)
  \/ \E s \in Sockets : AskExists(s)
  \/ AskRemove \/ AskFails

Expiry ==
  \/ ExpirePresence
  \/ \E s \in Sockets : ExpireSocketKey(s)
  \/ \E f \in Surfaces : ExpireRoom(f)

Next ==
  \/ \E s \in Sockets : Client(s) \/ Server(s)
  \/ \E h \in Handlers : Handle(h)
  \/ Worker
  \/ Expiry
  \/ Crash

Spec == Init /\ [][Next]_vars

\* Handlers that were begun go on, and Redis ends every key it was given a
\* time to live for; sockets and messages are the clients' business.
Fairness ==
  /\ \A s \in Sockets : WF_vars(Server(s)) /\ WF_vars(ExpireSocketKey(s))
  /\ \A h \in Handlers : WF_vars(Handle(h))
  /\ WF_vars(ExpirePresence)

FairSpec == Spec /\ Fairness

-----------------------------------------------------------------------------

\* Type correctness: the locals a handler carries across an await name its
\* socket and surface, and only sockets are ever in a room set.
TypeOK ==
  /\ guard \in Guards
  /\ conn \in [Sockets -> {"new", "open", "closed"}]
  /\ user \in [Sockets -> {NoUser, TestUser, Customer}]
  /\ connecting \in SUBSET Sockets
  /\ closing \in [Sockets -> SUBSET {"clear", "offline"}]
  /\ cleared \in [Sockets -> SUBSET Surfaces]
  /\ joined \in [Sockets -> SUBSET Surfaces]
  /\ counted \in SUBSET Sockets
  /\ activeCount \in Int
  /\ presence \in SUBSET {Customer, TestUser}
  /\ room \in [Surfaces -> SUBSET Sockets]
  /\ hold \in [Sockets -> SUBSET Surfaces]
  /\ pc \in [Handlers -> {"idle"} \cup HandlerSteps]
  /\ sock \in [Handlers -> Sockets \cup {NoSocket}]
  /\ surf \in [Handlers -> SUBSET Surfaces]
  /\ seen \in [Handlers -> SUBSET Surfaces]
  /\ todo \in SUBSET Sockets
  /\ cur \in Sockets \cup {NoSocket}
  /\ asked \in SUBSET Surfaces
  /\ loose \in SUBSET Sockets
  /\ raced \in SUBSET Sockets
  /\ stray \in BOOLEAN

\* A push is suppressed only for a surface the customer is on: whatever keys
\* have lapsed, a socket counts for a surface only while it is in that surface's
\* Socket.IO room.  The exceptions are loose: a socket two of whose events
\* overlapped, that left a room by leave_room and not by notification:leave, for
\* which unmarkPresent or clearSocket failed, or whose server died.
SuppressesOnlyJoined ==
  \A s \in Sockets, f \in Surfaces :
    s \notin loose /\ Settled(s) /\ Present(s, f) => f \in joined[s]

\* A customer none of whose sockets is open, with every handler through, is
\* offline; unless the last key was written for a socket that had closed, the
\* socket closed with no user on socket.data, its markOffline failed, or the
\* server died.
OfflineAfterLast ==
  /\ \A s \in Sockets : conn[s] # "open" /\ s \notin connecting /\ Settled(s)
  /\ ~stray
  => Customer \notin presence

\* The presence of a customer is cleaned up on disconnect: with every socket
\* closed and every handler through, none of them interrupted or overlapped, the
\* customer has no presence key (connection-handler.ts:94; handleDisconnect of
\* the gateway passes the socket's id when socket.data has no user).
OfflineAfterDisconnect ==
  (\A s \in Sockets :
     /\ conn[s] # "open" /\ s \notin connecting /\ Settled(s)
     /\ s \notin loose \cup raced)
  => Customer \notin presence

\* The metrics count exactly the sockets they index, and a closed socket is
\* counted only if it closed while handleConnection validated its token.
CountsOpenSockets ==
  /\ activeCount = Cardinality(counted)
  /\ \A s \in counted : conn[s] = "closed" => s \in raced

\* When all sockets have closed the customer is offline at last and counts for
\* no surface, however their events overlapped, whichever commands failed and
\* wherever the server died.
ClosedIsForgotten ==
  <>[](\A s \in Sockets : conn[s] = "closed")
    => <>[](presence = {} /\ \A s \in Sockets : hold[s] = {})
=============================================================================
