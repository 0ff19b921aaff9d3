--------------------------- MODULE RealtimeProofs ---------------------------
(* Theorems of Realtime, for any sockets, surfaces, handlers and guard. *)
EXTENDS Realtime, FiniteSetTheorems, TLAPS

\* A handler in flight has a socket that has connected, with a user on it.
HandlerKnown ==
  \A h \in Handlers : pc[h] # "idle" =>
    /\ sock[h] \in Sockets
    /\ conn[sock[h]] # "new"
    /\ user[sock[h]] \in {TestUser, Customer}

Typed == TypeOK /\ HandlerKnown

\* The types of what every step of a message's beginning sets.
LEMMA BeginTypes ==
  ASSUME Typed, NEW h \in Handlers, NEW s \in Sockets, NEW l \in HandlerSteps,
         NEW F \in SUBSET Surfaces, Begin(h, s, l, F)
  PROVE  /\ user' \in [Sockets -> {NoUser, TestUser, Customer}]
         /\ pc' \in [Handlers -> {"idle"} \cup HandlerSteps]
         /\ sock' \in [Handlers -> Sockets \cup {NoSocket}]
         /\ surf' \in [Handlers -> SUBSET Surfaces]
         /\ loose' \in SUBSET Sockets
         /\ HandlerKnown'
<1>1. GuardUser \in {TestUser, Customer} /\ conn[s] # "new"
  BY GuardsAssumption DEF Begin, GuardUser, Typed, TypeOK, GuardKinds
<1> USE DEF Begin, Typed, TypeOK, HandlerSteps
<1>2. user' \in [Sockets -> {NoUser, TestUser, Customer}] /\ loose' \in SUBSET Sockets
  BY <1>1
<1>3. pc' \in [Handlers -> {"idle"} \cup HandlerSteps]
  OBVIOUS
<1>4. sock' \in [Handlers -> Sockets \cup {NoSocket}]
  OBVIOUS
<1>5. surf' \in [Handlers -> SUBSET Surfaces]
  OBVIOUS
<1>6. HandlerKnown'
  BY <1>1 DEF HandlerKnown
<1> QED BY <1>2, <1>3, <1>4, <1>5, <1>6

\* A handler that goes on or ends keeps what is known of the others.
LEMMA HandleTypes ==
  ASSUME Typed, NEW h \in Handlers, Handle(h)
  PROVE  TypeOK' /\ HandlerKnown'
<1> USE DEF Typed, TypeOK, HandlerKnown, HandlerSteps, socketVars, metricVars, redisVars,
            workerVars, histVars, At, Done, GoOn
<1>1. CASE LocateWrite(h)
  BY <1>1 DEF LocateWrite, WritePresence
<1>2. CASE MarkRead(h)
  BY <1>2 DEF MarkRead
<1>3. CASE MarkWrite(h)
  BY <1>3 DEF MarkWrite, Added
<1>4. CASE UnmarkRead(h)
  BY <1>4 DEF UnmarkRead
<1>5. CASE Unmark(h)
  BY <1>5 DEF Unmark, Removed
<1>6. CASE HandlerFails(h)
  <2>1. room' \in [Surfaces -> SUBSET Sockets]
    BY <1>6 DEF HandlerFails, Added, Removed
  <2>2. loose' \in SUBSET Sockets
    BY <1>6 DEF HandlerFails
  <2> QED BY <1>6, <2>1, <2>2 DEF HandlerFails
<1> QED BY <1>1, <1>2, <1>3, <1>4, <1>5, <1>6 DEF Handle

\* Every step keeps the types.
LEMMA TypeStep == Typed /\ [Next]_vars => Typed'
<1> SUFFICES ASSUME Typed, [Next]_vars PROVE TypeOK' /\ HandlerKnown'
  BY DEF Typed
<1> USE DEF socketVars, metricVars, redisVars, handlerVars, workerVars, histVars
<1>1. ASSUME NEW s \in Sockets, Client(s) PROVE TypeOK' /\ HandlerKnown'
  <2>1. CASE Connect(s)
    BY <2>1 DEF Connect, Typed, TypeOK, HandlerKnown
  <2>2. CASE Disconnect(s)
    BY <2>2 DEF Disconnect, Untrack, Typed, TypeOK, HandlerKnown
  <2>3. ASSUME NEW h \in Handlers, Locate(h, s) PROVE TypeOK' /\ HandlerKnown'
    <3>1. Begin(h, s, "locate", {}) /\ UNCHANGED joined
      BY <2>3 DEF Locate
    <3>2. "locate" \in HandlerSteps /\ {} \in SUBSET Surfaces
      BY DEF HandlerSteps
    <3>3. /\ user' \in [Sockets -> {NoUser, TestUser, Customer}]
          /\ pc' \in [Handlers -> {"idle"} \cup HandlerSteps]
          /\ sock' \in [Handlers -> Sockets \cup {NoSocket}]
          /\ surf' \in [Handlers -> SUBSET Surfaces]
          /\ loose' \in SUBSET Sockets
          /\ HandlerKnown'
      BY <3>1, <3>2, BeginTypes
    <3> QED BY <3>1, <3>3 DEF Begin, Typed, TypeOK
  <2>4. ASSUME NEW f \in Surfaces, JoinRoom(s, f) \/ LeaveRoom(s, f)
        PROVE TypeOK' /\ HandlerKnown'
    BY <2>4 DEF JoinRoom, LeaveRoom, Typed, TypeOK, HandlerKnown
  <2>5. ASSUME NEW f \in Surfaces, NEW h \in Handlers, Join(h, s, f) \/ Leave(h, s, f)
        PROVE TypeOK' /\ HandlerKnown'
    <3>1. "markRead" \in HandlerSteps /\ "unmarkRead" \in HandlerSteps /\ {f} \in SUBSET Surfaces
      BY DEF HandlerSteps
    <3>2. Begin(h, s, "markRead", {f}) \/ Begin(h, s, "unmarkRead", {f})
      BY <2>5 DEF Join, Leave
    <3>3. joined' \in [Sockets -> SUBSET Surfaces]
      BY <2>5 DEF Join, Leave, Typed, TypeOK
    <3>4. /\ user' \in [Sockets -> {NoUser, TestUser, Customer}]
          /\ pc' \in [Handlers -> {"idle"} \cup HandlerSteps]
          /\ sock' \in [Handlers -> Sockets \cup {NoSocket}]
          /\ surf' \in [Handlers -> SUBSET Surfaces]
          /\ loose' \in SUBSET Sockets
          /\ HandlerKnown'
      BY <3>1, <3>2, BeginTypes
    <3> QED BY <3>2, <3>3, <3>4 DEF Begin, Typed, TypeOK
  <2> QED BY <1>1, <2>1, <2>2, <2>3, <2>4, <2>5 DEF Client
<1>2. ASSUME NEW s \in Sockets, Server(s) PROVE TypeOK' /\ HandlerKnown'
  <2> USE DEF Typed, TypeOK, HandlerKnown
  <2>1. CASE Reject(s) BY <2>1 DEF Reject
  <2>2. CASE Accept(s)
    <3>1. presence' \in SUBSET {Customer, TestUser} /\ stray' \in BOOLEAN
      <4>1. CASE WritePresence(Customer, s) BY <4>1 DEF WritePresence
      <4>2. CASE UNCHANGED <<presence, stray>> BY <4>2
      <4> QED BY <2>2, <4>1, <4>2 DEF Accept
    <3>2. activeCount' \in Int /\ counted' \in SUBSET Sockets
      BY <2>2 DEF Accept
    <3> QED BY <2>2, <3>1, <3>2 DEF Accept
  <2>3. CASE MarkOffline(s) BY <2>3 DEF MarkOffline
  <2>4. CASE ClearWrite(s) BY <2>4 DEF ClearWrite
  <2>5. CASE OfflineFails(s) BY <2>5 DEF OfflineFails
  <2>6. CASE ClearFails(s) BY <2>6 DEF ClearFails
  <2> QED BY <1>2, <2>1, <2>2, <2>3, <2>4, <2>5, <2>6 DEF Server
<1>3. ASSUME NEW h \in Handlers, Handle(h) PROVE TypeOK' /\ HandlerKnown'
  BY <1>3, HandleTypes
<1>4. CASE Worker
  <2> USE DEF Typed, TypeOK, HandlerKnown
  <2>1. ASSUME NEW f \in Surfaces, Ask(f) PROVE TypeOK' /\ HandlerKnown'
    BY <2>1 DEF Ask
  <2>2. ASSUME NEW s \in Sockets, AskExists(s) PROVE TypeOK' /\ HandlerKnown'
    BY <2>2 DEF AskExists
  <2>3. CASE AskRemove
    BY <2>3 DEF AskRemove
  <2>4. CASE AskFails
    BY <2>4 DEF AskFails
  <2> QED BY <1>4, <2>1, <2>2, <2>3, <2>4 DEF Worker
<1>5. CASE Expiry
  <2> USE DEF Typed, TypeOK, HandlerKnown
  <2>1. CASE ExpirePresence
    BY <2>1 DEF ExpirePresence
  <2>2. ASSUME NEW s \in Sockets, ExpireSocketKey(s) PROVE TypeOK' /\ HandlerKnown'
    BY <2>2 DEF ExpireSocketKey
  <2>3. ASSUME NEW f \in Surfaces, ExpireRoom(f) PROVE TypeOK' /\ HandlerKnown'
    BY <2>3 DEF ExpireRoom
  <2> QED BY <1>5, <2>1, <2>2, <2>3 DEF Expiry
<1>6. CASE Crash
  <2> USE <1>6 DEF Crash, Typed, TypeOK, HandlerKnown
  <2>1. /\ user' \in [Sockets -> {NoUser, TestUser, Customer}]
        /\ closing' \in [Sockets -> SUBSET {"clear", "offline"}]
        /\ cleared' \in [Sockets -> SUBSET Surfaces]
        /\ joined' \in [Sockets -> SUBSET Surfaces]
        /\ conn' \in [Sockets -> {"new", "open", "closed"}]
    OBVIOUS
  <2>2. /\ pc' \in [Handlers -> {"idle"} \cup HandlerSteps]
        /\ sock' \in [Handlers -> Sockets \cup {NoSocket}]
        /\ surf' \in [Handlers -> SUBSET Surfaces]
        /\ seen' \in [Handlers -> SUBSET Surfaces]
        /\ HandlerKnown'
    OBVIOUS
  <2> QED BY <2>1, <2>2
<1>7. CASE UNCHANGED vars
  BY <1>7 DEF vars, Typed, TypeOK, HandlerKnown
<1> QED BY <1>1, <1>2, <1>3, <1>4, <1>5, <1>6, <1>7 DEF Next

\* The initial state is well typed.
LEMMA InitTypes == Init => Typed
<1> SUFFICES ASSUME Init PROVE TypeOK /\ HandlerKnown
  BY DEF Typed
<1> USE DEF Init
<1>1. /\ conn \in [Sockets -> {"new", "open", "closed"}]
      /\ user \in [Sockets -> {NoUser, TestUser, Customer}]
      /\ closing \in [Sockets -> SUBSET {"clear", "offline"}]
      /\ cleared \in [Sockets -> SUBSET Surfaces]
      /\ joined \in [Sockets -> SUBSET Surfaces]
      /\ hold \in [Sockets -> SUBSET Surfaces]
  OBVIOUS
<1>2. /\ pc \in [Handlers -> {"idle"} \cup HandlerSteps]
      /\ sock \in [Handlers -> Sockets \cup {NoSocket}]
      /\ surf \in [Handlers -> SUBSET Surfaces]
      /\ seen \in [Handlers -> SUBSET Surfaces]
      /\ HandlerKnown
  BY DEF HandlerKnown
<1>3. room \in [Surfaces -> SUBSET Sockets] /\ stray \in BOOLEAN
  OBVIOUS
<1> QED BY <1>1, <1>2, <1>3 DEF TypeOK

\* The types, and that handlers are of known sockets, hold in every state.
LEMMA TypedAlways == Spec => []Typed
<1> QED BY InitTypes, TypeStep, PTL DEF Spec

\* The state of the gateway, its metrics and its keys is of the types TypeOK
\* gives it: above all no presence key is made of a socket's id.
THEOREM TypeCorrect == Spec => []TypeOK
<1>1. Typed => TypeOK BY DEF Typed
<1> QED BY <1>1, TypedAlways, PTL

-----------------------------------------------------------------------------

\* What each socket's state says of the metrics: one that is new is in no set,
\* one that is being validated is not counted, one that is closed has raced.
Indexed ==
  /\ IsFiniteSet(counted)
  /\ activeCount = Cardinality(counted)
  /\ connecting \cap counted = {}
  /\ \A s \in connecting \cup counted :
       conn[s] = "open" \/ (conn[s] = "closed" /\ s \in raced)

\* The metrics are kept by every step.
LEMMA IndexedStep == Typed /\ Indexed /\ [Next]_vars => Indexed'
<1> SUFFICES ASSUME Typed, Indexed, [Next]_vars PROVE Indexed'
  OBVIOUS
<1> USE DEF socketVars, metricVars, redisVars, handlerVars, workerVars, histVars
<1>0. TypeOK
  BY DEF Typed
<1>1. ASSUME NEW s \in Sockets, Connect(s) PROVE Indexed'
  <2>1. s \notin counted
    BY <1>1 DEF Connect, Indexed
  <2> QED BY <1>0, <1>1, <2>1 DEF Connect, Indexed, TypeOK
<1>2. ASSUME NEW s \in Sockets, Reject(s) PROVE Indexed'
  BY <1>0, <1>2 DEF Reject, Indexed, TypeOK
<1>3. ASSUME NEW s \in Sockets, Accept(s) PROVE Indexed'
  <2>1. s \notin counted /\ counted' = counted \cup {s} /\ activeCount' = activeCount + 1
    BY <1>3 DEF Accept, Indexed
  <2>2. IsFiniteSet(counted') /\ Cardinality(counted') = Cardinality(counted) + 1
    BY <2>1, FS_AddElement DEF Indexed
  <2> QED BY <1>3, <2>1, <2>2 DEF Accept, Indexed
<1>4. ASSUME NEW s \in Sockets, Disconnect(s) PROVE Indexed'
  <2>1. counted' = counted \ {s}
    BY <1>4 DEF Disconnect, Untrack
  <2>2. /\ IsFiniteSet(counted')
        /\ Cardinality(counted') = IF s \in counted THEN Cardinality(counted) - 1
                                   ELSE Cardinality(counted)
    BY <2>1, FS_RemoveElement DEF Indexed
  <2>3. activeCount' = Cardinality(counted')
    BY <1>4, <2>2 DEF Disconnect, Untrack, Indexed
  <2>4. \A x \in connecting' \cup counted' :
          conn'[x] = "open" \/ (conn'[x] = "closed" /\ x \in raced')
    BY <1>0, <1>4, <2>1 DEF Disconnect, Indexed, TypeOK
  <2> QED BY <1>4, <2>1, <2>2, <2>3, <2>4 DEF Disconnect, Indexed
<1>5. CASE Crash
  BY <1>5, FS_EmptySet DEF Crash, Indexed
<1>6. CASE UNCHANGED <<metricVars, conn, connecting, raced>>
  BY <1>6 DEF Indexed
<1>7. ASSUME NEW s \in Sockets, Client(s) PROVE Indexed'
  BY <1>1, <1>4, <1>6, <1>7 DEF Client, Locate, JoinRoom, LeaveRoom, Join, Leave, Begin
<1>8. ASSUME NEW s \in Sockets, Server(s) PROVE Indexed'
  BY <1>2, <1>3, <1>6, <1>8 DEF Server, MarkOffline, OfflineFails, ClearWrite, ClearFails
<1>9. ASSUME NEW h \in Handlers, Handle(h) PROVE Indexed'
  BY <1>6, <1>9 DEF Handle, LocateWrite, WritePresence, MarkRead, MarkWrite, UnmarkRead,
     Unmark, HandlerFails
<1>10. CASE Worker \/ Expiry \/ UNCHANGED vars
  BY <1>6, <1>10 DEF Worker, Ask, AskExists, AskRemove, AskFails, Expiry, ExpirePresence,
                     ExpireSocketKey, ExpireRoom, vars
<1> QED BY <1>5, <1>7, <1>8, <1>9, <1>10 DEF Next

\* The gauge of active connections is the size of its index, whatever overlaps, and
\* a socket stays in it after it closed only when it closed during validation.
THEOREM OpenSocketsCounted == Spec => []CountsOpenSockets
<1>1. Init => Indexed
  BY FS_EmptySet DEF Init, Indexed
<1>2. Typed /\ Indexed => CountsOpenSockets
  BY DEF Typed, TypeOK, Indexed, CountsOpenSockets
<1> QED BY <1>1, <1>2, IndexedStep, TypedAlways, PTL DEF Spec

-----------------------------------------------------------------------------

\* Handler h is taking marks of socket s away.
Unmarking(h, s) == sock[h] = s /\ pc[h] \in {"unmarkRead", "unmarkRemove", "unmarkWrite"}

\* A socket in a room set is in that Socket.IO room, or about to be unmarked.
Marked(s) ==
  \A f \in Surfaces : s \in room[f] =>
    f \in joined[s] \/ \E h \in Handlers : Unmarking(h, s) /\ f \in surf[h]

\* A handler that marks a surface has its socket in that room.
Marks(s) ==
  \A h \in Handlers :
    sock[h] = s /\ pc[h] \in {"markRead", "markWrite"} => surf[h] \subseteq joined[s]

\* What holds of a socket whose events were handled one at a time; nothing of a
\* closed one is in flight, and its list is gone or about to go.
Tidy(s) ==
  /\ conn[s] = "new" => joined[s] = {}
  /\ conn[s] # "closed" => closing[s] = {}
  /\ s \notin loose =>
       IF conn[s] = "closed"
       THEN ~Handling(s) /\ (hold[s] = {} \/ "clear" \in closing[s])
       ELSE Marked(s) /\ Marks(s)

\* A message's beginning keeps each other socket tidy, and makes its own socket
\* loose when it overlaps another.
LEMMA BeginTidy ==
  ASSUME Typed, NEW s \in Sockets, NEW h \in Handlers, NEW l \in HandlerSteps,
         NEW F \in SUBSET Surfaces, Begin(h, s, l, F),
         joined' \in [Sockets -> SUBSET Surfaces],
         \A y \in Sockets \ {s} : joined'[y] = joined[y],
         NEW x \in Sockets, Tidy(x), x # s
  PROVE  Tidy(x)'
<1> USE DEF Begin, redisVars, Typed, TypeOK
<1>1. \A g \in Handlers : (sock'[g] = x <=> sock[g] = x) \/ g = h
  OBVIOUS
<1>2. \A g \in Handlers : g # h => pc'[g] = pc[g] /\ sock'[g] = sock[g] /\ surf'[g] = surf[g]
  OBVIOUS
<1>3. sock'[h] = s /\ pc[h] = "idle"
  OBVIOUS
<1>4. conn' = conn /\ closing' = closing /\ hold' = hold /\ room' = room
      /\ joined'[x] = joined[x] /\ loose \subseteq loose'
  OBVIOUS
<1>5. Handling(x)' => Handling(x)
  BY <1>2, <1>3 DEF Handling
<1>6. Marked(x) => Marked(x)'
  BY <1>2, <1>3, <1>4 DEF Marked, Unmarking
<1>7. Marks(x) => Marks(x)'
  BY <1>2, <1>3, <1>4 DEF Marks
<1> QED BY <1>4, <1>5, <1>6, <1>7 DEF Tidy

\* Every step leaves every socket tidy.
LEMMA TidyStep ==
  Typed /\ (\A s \in Sockets : Tidy(s)) /\ [Next]_vars => \A s \in Sockets : Tidy(s)'
<1> SUFFICES ASSUME Typed, \A s \in Sockets : Tidy(s), [Next]_vars, NEW x \in Sockets
             PROVE Tidy(x)'
  OBVIOUS
<1>0. TypeOK /\ HandlerKnown /\ Tidy(x)
  BY DEF Typed
<1> USE DEF socketVars, metricVars, redisVars, handlerVars, workerVars, histVars
<1>1. CASE /\ UNCHANGED <<pc, sock, surf, closing>> /\ loose \subseteq loose'
           /\ conn'[x] = conn[x] \/ (conn[x] = "new" /\ conn'[x] = "open")
           /\ joined[x] \subseteq joined'[x] \/ (x \in loose' /\ conn'[x] # "new")
           /\ conn'[x] = "new" => joined'[x] = joined[x]
           /\ \A f \in Surfaces : room'[f] \subseteq room[f]
           /\ hold'[x] = hold[x] \/ hold'[x] = {}
  BY <1>0, <1>1 DEF Tidy, Marked, Marks, Unmarking, Handling
<1>2. ASSUME NEW s \in Sockets, Client(s) PROVE Tidy(x)'
  <2>1. CASE Connect(s)
    <3>1. conn'[x] = conn[x] \/ (conn[x] = "new" /\ conn'[x] = "open")
      BY <1>0, <2>1 DEF Connect, TypeOK
    <3> QED BY <1>1, <2>1, <3>1 DEF Connect
  <2>2. CASE Disconnect(s)
    <3>1. CASE x = s
      BY <1>0, <2>2, <3>1 DEF Disconnect, Tidy, TypeOK, Handling
    <3>2. CASE x # s
      BY <1>0, <2>2, <3>2 DEF Disconnect, Tidy, TypeOK, Handling, Marked, Marks, Unmarking
    <3> QED BY <3>1, <3>2
  <2>3. ASSUME NEW f \in Surfaces, JoinRoom(s, f) \/ LeaveRoom(s, f) PROVE Tidy(x)'
    <3>1. joined[x] \subseteq joined'[x] \/ (x \in loose' /\ conn[x] # "new")
      BY <1>0, <2>3 DEF JoinRoom, LeaveRoom, TypeOK
    <3>2. conn[x] = "new" => joined'[x] = joined[x]
      BY <1>0, <2>3 DEF JoinRoom, LeaveRoom, TypeOK
    <3> QED BY <1>1, <2>3, <3>1, <3>2 DEF JoinRoom, LeaveRoom
  <2>4. ASSUME NEW h \in Handlers, NEW l \in HandlerSteps, NEW F \in SUBSET Surfaces,
               Begin(h, s, l, F), joined' \in [Sockets -> SUBSET Surfaces],
               \A y \in Sockets \ {s} : joined'[y] = joined[y],
               l \in {"markRead", "markWrite"} => F \subseteq joined'[s],
               \A f \in joined[s] \ joined'[s] :
                 f \in F /\ l \in {"unmarkRead", "unmarkRemove", "unmarkWrite"}
        PROVE Tidy(x)'
    <3>1. CASE x = s
      <4>1. conn'[s] = "open" /\ closing'[s] = {}
        BY <1>0, <2>4, <3>1 DEF Begin, Tidy
      <4>2. /\ \A g \in Handlers : g # h => pc'[g] = pc[g] /\ sock'[g] = sock[g]
                                            /\ surf'[g] = surf[g]
            /\ pc'[h] = l /\ sock'[h] = s /\ surf'[h] = F /\ pc[h] = "idle"
            /\ room' = room
        BY <1>0, <2>4 DEF Begin, TypeOK
      <4>3. ASSUME s \notin loose' PROVE Marked(s)' /\ Marks(s)'
        <5>1. ~Handling(s) /\ Marked(s)
          BY <1>0, <2>4, <3>1, <4>3 DEF Begin, Tidy
        <5>2. \A f \in Surfaces : s \in room[f] => f \in joined[s]
          BY <5>1 DEF Marked, Unmarking, Handling
        <5>3. Marked(s)'
          BY <2>4, <4>2, <5>2 DEF Marked, Unmarking
        <5>4. Marks(s)'
          BY <2>4, <4>2, <5>1 DEF Marks, Handling
        <5> QED BY <5>3, <5>4
      <4> QED BY <3>1, <4>1, <4>3 DEF Tidy
    <3>2. CASE x # s
      BY <1>0, <2>4, <3>2, BeginTidy
    <3> QED BY <3>1, <3>2
  <2>5. ASSUME NEW h \in Handlers, Locate(h, s) PROVE Tidy(x)'
    <3>1. Begin(h, s, "locate", {}) /\ joined' = joined
      BY <2>5 DEF Locate
    <3>2. "locate" \in HandlerSteps
      BY DEF HandlerSteps
    <3> QED BY <1>0, <2>4, <3>1, <3>2 DEF TypeOK
  <2>6. ASSUME NEW h \in Handlers, NEW f \in Surfaces, Join(h, s, f) PROVE Tidy(x)'
    <3>1. Begin(h, s, "markRead", {f}) /\ joined' = [joined EXCEPT ![s] = @ \cup {f}]
      BY <2>6 DEF Join
    <3>2. "markRead" \in HandlerSteps
      BY DEF HandlerSteps
    <3>3. joined[s] \ joined'[s] = {} /\ {f} \subseteq joined'[s]
          /\ joined' \in [Sockets -> SUBSET Surfaces]
          /\ \A y \in Sockets \ {s} : joined'[y] = joined[y]
      BY <1>0, <3>1 DEF TypeOK
    <3> QED BY <2>4, <3>1, <3>2, <3>3
  <2>7. ASSUME NEW h \in Handlers, NEW f \in Surfaces, Leave(h, s, f) PROVE Tidy(x)'
    <3>1. Begin(h, s, "unmarkRead", {f}) /\ joined' = [joined EXCEPT ![s] = @ \ {f}]
      BY <2>7 DEF Leave
    <3>2. "unmarkRead" \in HandlerSteps
      BY DEF HandlerSteps
    <3>3. joined[s] \ joined'[s] \subseteq {f}
          /\ joined' \in [Sockets -> SUBSET Surfaces]
          /\ \A y \in Sockets \ {s} : joined'[y] = joined[y]
      BY <1>0, <3>1 DEF TypeOK
    <3> QED BY <2>4, <3>1, <3>2, <3>3
  <2> QED BY <1>2, <2>1, <2>2, <2>3, <2>5, <2>6, <2>7 DEF Client
<1>3. ASSUME NEW s \in Sockets, Server(s) PROVE Tidy(x)'
  <2>1. CASE Reject(s) BY <1>1, <2>1 DEF Reject
  <2>2. CASE Accept(s) BY <1>1, <2>2 DEF Accept, WritePresence
  <2>3. CASE MarkOffline(s)
    BY <1>0, <2>3 DEF MarkOffline, Tidy, TypeOK, Handling, Marked, Marks, Unmarking
  <2>4. CASE ClearWrite(s)
    <3>1. \A f \in Surfaces : room'[f] \subseteq room[f]
      BY <1>0, <2>4 DEF ClearWrite, TypeOK
    <3> QED BY <1>0, <2>4, <3>1 DEF ClearWrite, Tidy, TypeOK, Handling, Marked, Marks,
               Unmarking
  <2>5. CASE OfflineFails(s)
    BY <1>0, <2>5 DEF OfflineFails, Tidy, TypeOK, Handling, Marked, Marks, Unmarking
  <2>6. CASE ClearFails(s)
    <3>1. (\A f \in Surfaces : room'[f] \subseteq room[f]) /\ x \notin loose' => x # s
      BY <1>0, <2>6 DEF ClearFails, TypeOK
    <3>2. \A f \in Surfaces : room'[f] \subseteq room[f]
      BY <1>0, <2>6 DEF ClearFails, TypeOK
    <3> QED BY <1>0, <2>6, <3>1, <3>2 DEF ClearFails, Tidy, TypeOK, Handling, Marked, Marks,
               Unmarking
  <2> QED BY <1>3, <2>1, <2>2, <2>3, <2>4, <2>5, <2>6 DEF Server
<1>4. ASSUME NEW h \in Handlers, Handle(h) PROVE Tidy(x)'
  <2>1. /\ UNCHANGED <<conn, closing, joined>>
        /\ loose \subseteq loose'
        /\ \A g \in Handlers : g # h => pc'[g] = pc[g] /\ sock'[g] = sock[g]
                                        /\ surf'[g] = surf[g]
        /\ Handling(x)' => Handling(x)
    BY <1>0, <1>4 DEF Handle, LocateWrite, MarkRead, MarkWrite, UnmarkRead, Unmark,
                      HandlerFails, At, Done, GoOn, TypeOK, Handling, HandlerKnown
  <2>2. hold'[x] = hold[x] \/ Handling(x)
    BY <1>0, <1>4 DEF Handle, LocateWrite, MarkRead, MarkWrite, UnmarkRead, Unmark,
                      HandlerFails, At, TypeOK, Handling, HandlerKnown
  <2>3. Marks(x) => Marks(x)'
    BY <1>0, <1>4, <2>1 DEF Handle, LocateWrite, MarkRead, MarkWrite, UnmarkRead, Unmark,
                            HandlerFails, At, Done, GoOn, TypeOK, Marks
  <2>4. Marked(x) /\ Marks(x) => Marked(x)' \/ x \in loose'
    <3> USE <1>0, <2>1 DEF At, Done, GoOn, TypeOK, Marked, Marks, Unmarking
    <3>1. CASE LocateWrite(h) BY <3>1 DEF LocateWrite
    <3>2. CASE MarkRead(h) BY <3>2 DEF MarkRead
    <3>3. CASE MarkWrite(h) BY <3>3 DEF MarkWrite, Added
    <3>4. CASE UnmarkRead(h) BY <3>4 DEF UnmarkRead
    <3>5. CASE Unmark(h) BY <3>5 DEF Unmark, Removed
    <3>6. CASE HandlerFails(h)
      <4>1. pc'[h] = "idle" /\ \A g \in Handlers : Unmarking(g, x) /\ g # h => Unmarking(g, x)'
        BY <3>6 DEF HandlerFails
      <4>2. CASE sock[h] = x /\ pc[h] \in {"unmarkRead", "unmarkRemove", "unmarkWrite"}
        BY <3>6, <4>2 DEF HandlerFails
      <4>3. CASE ~Unmarking(h, x) /\ room' = room
        BY <3>6, <4>1, <4>3 DEF HandlerFails
      <4>4. CASE ~Unmarking(h, x) /\ At(h, "markWrite") /\ room' = Added(h)
        BY <3>6, <4>1, <4>4 DEF HandlerFails, Added
      <4>5. CASE ~Unmarking(h, x) /\ At(h, "unmarkWrite") /\ room' = Removed(h)
        BY <3>6, <4>1, <4>5 DEF HandlerFails, Removed
      <4> QED BY <3>6, <4>2, <4>3, <4>4, <4>5 DEF HandlerFails
    <3> QED BY <1>4, <3>1, <3>2, <3>3, <3>4, <3>5, <3>6 DEF Handle
  <2> QED BY <1>0, <2>1, <2>2, <2>3, <2>4 DEF Tidy
<1>5. CASE Worker
  <2>1. \A f \in Surfaces : room'[f] \subseteq room[f]
    BY <1>0, <1>5 DEF Worker, Ask, AskExists, AskRemove, AskFails, TypeOK
  <2> QED BY <1>1, <1>5, <2>1 DEF Worker, Ask, AskExists, AskRemove, AskFails
<1>6. CASE Expiry
  <2>1. \A f \in Surfaces : room'[f] \subseteq room[f]
    BY <1>0, <1>6 DEF Expiry, ExpirePresence, ExpireSocketKey, ExpireRoom, TypeOK
  <2>2. hold'[x] = hold[x] \/ hold'[x] = {}
    BY <1>0, <1>6 DEF Expiry, ExpirePresence, ExpireSocketKey, ExpireRoom, TypeOK
  <2> QED BY <1>1, <1>6, <2>1, <2>2 DEF Expiry, ExpirePresence, ExpireSocketKey, ExpireRoom
<1>7. CASE Crash
  <2>1. conn'[x] = "new" => conn[x] = "new"
    BY <1>0, <1>7 DEF Crash, Tidy, TypeOK
  <2>2. \A h \in Handlers : sock[h] = x => pc[h] = "idle" \/ conn[x] # "new"
    BY <1>0 DEF HandlerKnown
  <2>3. conn'[x] # "new" => x \in loose'
    BY <1>0, <1>7 DEF Crash, TypeOK
  <2> QED BY <1>0, <1>7, <2>1, <2>2, <2>3 DEF Crash, Tidy, TypeOK, Marked, Marks, Unmarking
<1>8. CASE UNCHANGED vars
  BY <1>1, <1>8 DEF vars
<1> QED BY <1>2, <1>3, <1>4, <1>5, <1>6, <1>7, <1>8 DEF Next

\* A socket counts for a surface only while it is in that room, for any number of
\* sockets and handlers: the awaited steps of joining, leaving and clearing, the
\* worker's removals, every expiry and failed joins included.  It does not hold of a
\* loose socket: one whose events overlapped, that left a room by leave_room, whose
\* unmarkPresent or clearSocket failed, or whose server died.
THEOREM SuppressionIsEarned == Spec => []SuppressesOnlyJoined
<1>1. Init => \A s \in Sockets : Tidy(s)
  BY DEF Init, Tidy, Marked, Marks, Unmarking, Handling
<1>2. Typed /\ (\A s \in Sockets : Tidy(s)) => SuppressesOnlyJoined
  BY DEF Typed, TypeOK, Tidy, Marked, Unmarking, SuppressesOnlyJoined, Settled, Handling,
     Present
<1>3. Typed /\ (\A s \in Sockets : Tidy(s)) /\ [Next]_vars => (\A s \in Sockets : Tidy(s))'
  BY TidyStep
<1> QED BY <1>1, <1>2, <1>3, TypedAlways, PTL DEF Spec

-----------------------------------------------------------------------------

\* The customer's presence key is some open socket's, or about to be deleted.
KeyMinded ==
  ~stray /\ Customer \in presence =>
    \E s \in Sockets : conn[s] = "open" \/ ("offline" \in closing[s] /\ user[s] = Customer)

\* The sockets being validated have connected.
Validating == \A s \in connecting : conn[s] # "new"

\* No step leaves the key to nobody, unless it is said to be stray.
LEMMA KeyStep == Typed /\ KeyMinded /\ Validating /\ [Next]_vars => KeyMinded' /\ Validating'
<1> SUFFICES ASSUME Typed, KeyMinded, Validating, [Next]_vars PROVE KeyMinded' /\ Validating'
  OBVIOUS
<1>0. TypeOK /\ HandlerKnown
  BY DEF Typed
<1> USE DEF socketVars, metricVars, redisVars, handlerVars, workerVars, histVars
<1>1. CASE UNCHANGED <<conn, connecting, closing, user, presence, stray>>
  BY <1>1 DEF KeyMinded, Validating
<1>2. ASSUME NEW s \in Sockets, Client(s) PROVE KeyMinded' /\ Validating'
  <2>1. CASE Connect(s)
    BY <1>0, <2>1 DEF Connect, TypeOK, KeyMinded, Validating
  <2>2. CASE Disconnect(s)
    BY <1>0, <2>2 DEF Disconnect, TypeOK, KeyMinded, Validating
  <2>3. ASSUME NEW h \in Handlers, NEW l \in HandlerSteps, NEW F \in SUBSET Surfaces,
               Begin(h, s, l, F)
        PROVE KeyMinded' /\ Validating'
    BY <1>0, <2>3 DEF Begin, TypeOK, KeyMinded, Validating
  <2>4. "locate" \in HandlerSteps /\ "markRead" \in HandlerSteps /\ "unmarkRead" \in HandlerSteps
    BY DEF HandlerSteps
  <2>5. ASSUME NEW f \in Surfaces, JoinRoom(s, f) \/ LeaveRoom(s, f)
        PROVE KeyMinded' /\ Validating'
    BY <1>1, <2>5 DEF JoinRoom, LeaveRoom
  <2>6. ASSUME NEW h \in Handlers, Locate(h, s) PROVE KeyMinded' /\ Validating'
    BY <2>3, <2>4, <2>6 DEF Locate
  <2>7. ASSUME NEW h \in Handlers, NEW f \in Surfaces, Join(h, s, f) \/ Leave(h, s, f)
        PROVE KeyMinded' /\ Validating'
    BY <2>3, <2>4, <2>7 DEF Join, Leave
  <2> QED BY <1>2, <2>1, <2>2, <2>5, <2>6, <2>7 DEF Client
<1>3. ASSUME NEW s \in Sockets, Server(s) PROVE KeyMinded' /\ Validating'
  <2>1. CASE Reject(s) BY <2>1 DEF Reject, KeyMinded, Validating
  <2>2. CASE Accept(s)
    <3>1. conn[s] # "new" /\ Validating'
      BY <1>0, <2>2 DEF Accept, TypeOK, Validating
    <3>2. CASE WritePresence(Customer, s)
      BY <1>0, <2>2, <3>1, <3>2 DEF Accept, WritePresence, TypeOK, KeyMinded
    <3>3. CASE UNCHANGED <<presence, stray>>
      <4>1. conn' = conn /\ closing' = closing /\ user' = user
        BY <2>2 DEF Accept
      <4>2. presence' = presence /\ (stray' <=> stray)
        BY <3>3
      <4> QED BY <3>1, <4>1, <4>2 DEF KeyMinded
    <3> QED BY <2>2, <3>1, <3>2, <3>3 DEF Accept
  <2>3. CASE MarkOffline(s)
    BY <1>0, <2>3, NamesAssumption DEF MarkOffline, UserOrSocket, TypeOK, KeyMinded,
       Validating
  <2>4. CASE ClearWrite(s)
    BY <1>0, <2>4 DEF ClearWrite, TypeOK, KeyMinded, Validating
  <2>5. CASE OfflineFails(s)
    BY <1>0, <2>5, NamesAssumption DEF OfflineFails, UserOrSocket, TypeOK, KeyMinded,
       Validating
  <2>6. CASE ClearFails(s)
    BY <1>0, <2>6 DEF ClearFails, TypeOK, KeyMinded, Validating
  <2> QED BY <1>3, <2>1, <2>2, <2>3, <2>4, <2>5, <2>6 DEF Server
<1>4. ASSUME NEW h \in Handlers, Handle(h) PROVE KeyMinded' /\ Validating'
  <2>1. CASE LocateWrite(h)
    BY <1>0, <2>1 DEF LocateWrite, At, WritePresence, TypeOK, HandlerKnown, KeyMinded,
       Validating
  <2>2. CASE MarkRead(h) \/ MarkWrite(h) \/ UnmarkRead(h) \/ Unmark(h)
    BY <1>1, <2>2 DEF MarkRead, MarkWrite, UnmarkRead, Unmark
  <2>3. CASE HandlerFails(h)
    BY <1>1, <2>3 DEF HandlerFails
  <2> QED BY <1>4, <2>1, <2>2, <2>3 DEF Handle
<1>5. CASE Worker \/ UNCHANGED vars
  BY <1>1, <1>5 DEF Worker, Ask, AskExists, AskRemove, AskFails, vars
<1>6. CASE Expiry
  BY <1>1, <1>6 DEF Expiry, ExpirePresence, ExpireSocketKey, ExpireRoom, KeyMinded,
     Validating
<1>7. CASE Crash
  BY <1>7 DEF Crash, KeyMinded, Validating
<1> QED BY <1>2, <1>3, <1>4, <1>5, <1>6, <1>7 DEF Next

\* With every socket closed and every handler through the customer is offline,
\* unless the key was written late, nobody was on socket.data, the last markOffline
\* failed, or the server died.
THEOREM LastMarksOffline == Spec => []OfflineAfterLast
<1>1. Init => KeyMinded /\ Validating
  BY DEF Init, KeyMinded, Validating
<1>2. Typed /\ KeyMinded => OfflineAfterLast
  BY DEF Typed, TypeOK, KeyMinded, OfflineAfterLast, Settled
<1> QED BY <1>1, <1>2, KeyStep, TypedAlways, PTL DEF Spec
-----------------------------------------------------------------------------

\* Under JwtAuthGuard no handler gets past its test of socket.data.user.
Userless ==
  guard = "jwt" =>
    /\ \A h \in Handlers : pc[h] = "idle"
    /\ \A s \in Sockets : user[s] = NoUser /\ hold[s] = {}
    /\ \A f \in Surfaces : room[f] = {}

\* Under the guard the gateway is deployed with, no socket ever counts for a
\* surface, so the push worker's question is always answered "absent" and nothing
\* is suppressed; and no step but the expiry takes the customer's presence away,
\* as markOffline is given the socket's id.
JwtSuppressesNothing == guard = "jwt" => \A s \in Sockets, f \in Surfaces : ~Present(s, f)
JwtOnlineTillExpiry ==
  guard = "jwt" /\ Customer \in presence /\ Customer \notin presence' => ExpirePresence
THEOREM JwtSocketsAreStrangers ==
  Spec => []JwtSuppressesNothing /\ [][JwtOnlineTillExpiry]_vars
<1> USE DEF socketVars, metricVars, redisVars, handlerVars, workerVars, histVars
<1>1. Init => Userless
  BY DEF Init, Userless
<1>2. Typed /\ Userless /\ [Next]_vars => Userless' /\ JwtOnlineTillExpiry
  <2> SUFFICES ASSUME Typed, Userless, [Next]_vars
               PROVE  Userless' /\ JwtOnlineTillExpiry
    OBVIOUS
  <2> USE DEF Typed, TypeOK, Userless, JwtOnlineTillExpiry
  <2>1. ASSUME NEW s \in Sockets, Client(s) PROVE Userless' /\ JwtOnlineTillExpiry
    <3>1. guard = "jwt" => GuardUser = NoUser
      BY DEF GuardUser
    <3> QED
      BY <2>1, <3>1 DEF Client, Connect, Disconnect, Locate, JoinRoom, LeaveRoom, Join,
         Leave, Begin
  <2>2. ASSUME NEW s \in Sockets, Server(s) PROVE Userless' /\ JwtOnlineTillExpiry
    <3>1. CASE Reject(s) \/ Accept(s) BY <3>1 DEF Reject, Accept, WritePresence
    <3>2. CASE MarkOffline(s) \/ OfflineFails(s)
      BY <3>2, NamesAssumption DEF MarkOffline, OfflineFails, UserOrSocket
    <3>3. CASE ClearWrite(s) \/ ClearFails(s) BY <3>3 DEF ClearWrite, ClearFails
    <3> QED BY <2>2, <3>1, <3>2, <3>3 DEF Server
  <2>3. ASSUME NEW h \in Handlers, Handle(h) PROVE Userless' /\ JwtOnlineTillExpiry
    <3>1. CASE LocateWrite(h) BY <3>1 DEF LocateWrite, At, WritePresence, Done
    <3>2. CASE MarkRead(h) \/ MarkWrite(h) BY <3>2 DEF MarkRead, MarkWrite, At, Done, GoOn
    <3>3. CASE UnmarkRead(h) \/ Unmark(h) BY <3>3 DEF UnmarkRead, Unmark, At, Done, GoOn
    <3>4. CASE HandlerFails(h) BY <3>4 DEF HandlerFails
    <3> QED BY <2>3, <3>1, <3>2, <3>3, <3>4 DEF Handle
  <2>4. CASE Worker
    BY <2>4 DEF Worker, Ask, AskExists, AskRemove, AskFails
  <2>5. CASE Expiry
    BY <2>5 DEF Expiry, ExpirePresence, ExpireSocketKey, ExpireRoom
  <2>6. CASE Crash
    BY <2>6 DEF Crash
  <2>7. CASE UNCHANGED vars
    BY <2>7 DEF vars
  <2> QED BY <2>1, <2>2, <2>3, <2>4, <2>5, <2>6, <2>7 DEF Next
<1>3. Userless => JwtSuppressesNothing
  BY DEF Userless, JwtSuppressesNothing, Present
<1> QED BY <1>1, <1>2, <1>3, TypedAlways, PTL DEF Spec

\* The socket is closed, nothing of it is in flight, and it has no list.
Gone(s) ==
  conn[s] = "closed" /\ s \notin connecting /\ Settled(s) /\ hold[s] = {}

\* A socket that is gone counts for no surface ever again: no late handler,
\* question of the worker or stop of the server gives it its list back.
THEOREM GoneForGood ==
  ASSUME NEW s \in Sockets
  PROVE  Spec => [](Gone(s) => []Gone(s))
<1> USE DEF socketVars, metricVars, redisVars, handlerVars, workerVars, histVars
<1>1. Typed /\ Gone(s) /\ [Next]_vars => Gone(s)'
  <2> SUFFICES ASSUME Typed, Gone(s), [Next]_vars PROVE Gone(s)'
    OBVIOUS
  <2> USE DEF Typed, TypeOK, Gone, Settled, Handling
  <2>1. ASSUME NEW x \in Sockets, Client(x) PROVE Gone(s)'
    BY <2>1 DEF Client, Connect, Disconnect, Locate, JoinRoom, LeaveRoom, Join, Leave, Begin
  <2>2. ASSUME NEW x \in Sockets, Server(x) PROVE Gone(s)'
    BY <2>2 DEF Server, Reject, Accept, MarkOffline, OfflineFails, ClearWrite,
       ClearFails
  <2>3. ASSUME NEW h \in Handlers, Handle(h) PROVE Gone(s)'
    <3>1. sock[h] # s /\ sock[h] \in Sockets
      BY <2>3 DEF HandlerKnown, Handle, LocateWrite, MarkRead, MarkWrite, UnmarkRead, Unmark,
                  HandlerFails, At
    <3> QED
      BY <2>3, <3>1 DEF Handle, LocateWrite, MarkRead, MarkWrite, UnmarkRead, Unmark,
                        HandlerFails, Done, GoOn
  <2>4. CASE Worker
    BY <2>4 DEF Worker, Ask, AskExists, AskRemove, AskFails
  <2>5. CASE Expiry
    BY <2>5 DEF Expiry, ExpirePresence, ExpireSocketKey, ExpireRoom
  <2>6. CASE Crash
    BY <2>6 DEF Crash
  <2>7. CASE UNCHANGED vars
    BY <2>7 DEF vars
  <2> QED BY <2>1, <2>2, <2>3, <2>4, <2>5, <2>6, <2>7 DEF Next
<1> QED BY <1>1, TypedAlways, PTL DEF Spec

\* Every socket is gone, and the customer is offline.
Forgotten == presence = {} /\ \A s \in Sockets : Gone(s)

\* Once a customer is forgotten it is for good: the part of ClosedIsForgotten that
\* says what must never happen again, without the one that it comes to that.
THEOREM ForgottenForGood == Spec => [](Forgotten => []Forgotten)
<1> USE DEF socketVars, metricVars, redisVars, handlerVars, workerVars, histVars
<1>1. Typed /\ Forgotten /\ [Next]_vars => Forgotten'
  <2> SUFFICES ASSUME Typed, Forgotten, [Next]_vars PROVE Forgotten'
    OBVIOUS
  <2> USE DEF Typed, TypeOK, Forgotten, Gone, Settled, Handling
  <2>1. \A h \in Handlers : pc[h] = "idle"
    BY DEF HandlerKnown
  <2>2. ASSUME NEW x \in Sockets, Client(x) PROVE Forgotten'
    BY <2>2 DEF Client, Connect, Disconnect, Locate, JoinRoom, LeaveRoom, Join, Leave, Begin
  <2>3. ASSUME NEW x \in Sockets, Server(x) PROVE Forgotten'
    BY <2>3 DEF Server, Reject, Accept, MarkOffline, OfflineFails, ClearWrite,
       ClearFails
  <2>4. ASSUME NEW h \in Handlers, Handle(h) PROVE Forgotten'
    BY <2>1, <2>4 DEF Handle, LocateWrite, MarkRead, MarkWrite, UnmarkRead, Unmark,
       HandlerFails, At
  <2>5. CASE Worker
    BY <2>5 DEF Worker, Ask, AskExists, AskRemove, AskFails
  <2>6. CASE Expiry
    BY <2>6 DEF Expiry, ExpirePresence, ExpireSocketKey, ExpireRoom
  <2>7. CASE Crash
    BY <2>7 DEF Crash
  <2>8. CASE UNCHANGED vars
    BY <2>8 DEF vars
  <2> QED BY <2>2, <2>3, <2>4, <2>5, <2>6, <2>7, <2>8 DEF Next
<1> QED BY <1>1, TypedAlways, PTL DEF Spec

-----------------------------------------------------------------------------

\* No socket closes before it was accepted or rejected, while a handler of it is in
\* flight, or without the customer on socket.data; the server closes none by dying.
Orderly ==
  /\ \A s \in connecting : conn[s] = "open"
  /\ \A h \in Handlers : pc[h] # "idle" => conn[sock[h]] = "open"
  /\ \A s \in Sockets : conn[s] = "closed" => user[s] = Customer

\* What connection-handler.ts:94 says of a disconnect, where it is so: as long as no
\* Redis command fails and every socket closes in an orderly way,
\* OfflineAfterDisconnect holds, and the metrics count open sockets only.  Events of
\* different sockets interleave as they like.
THEOREM OrderlySocketsGoOffline ==
  ASSUME Faults = {}
  PROVE  Spec /\ []Orderly
           => []OfflineAfterDisconnect /\ [](\A s \in counted : conn[s] # "closed")
<1> DEFINE Known == ~stray /\ raced = {}
<1> USE DEF socketVars, metricVars, redisVars, handlerVars, workerVars, histVars
<1>1. Init => Known
  BY DEF Init
<1>2. Typed /\ Orderly /\ Orderly' /\ Known /\ [Next]_vars => Known'
  <2> SUFFICES ASSUME Typed, Orderly, Orderly', Known, [Next]_vars PROVE Known'
    OBVIOUS
  <2> USE DEF Typed, TypeOK
  <2>1. ASSUME NEW s \in Sockets, Disconnect(s) PROVE Known'
    <3>1. conn'[s] = "closed" /\ user' = user /\ connecting' = connecting
      BY <2>1 DEF Disconnect
    <3>2. user[s] = Customer /\ s \notin connecting
      BY <3>1 DEF Orderly
    <3> QED BY <2>1, <3>2 DEF Disconnect
  <2>2. ASSUME NEW s \in Sockets, Client(s) PROVE Known'
    BY <2>1, <2>2 DEF Client, Connect, Locate, JoinRoom, LeaveRoom, Join, Leave, Begin
  <2>3. ASSUME NEW s \in Sockets, Server(s) PROVE Known'
    <3>1. CASE Accept(s) BY <3>1 DEF Accept, WritePresence, Orderly
    <3> QED BY <2>3, <3>1 DEF Server, Reject, MarkOffline, OfflineFails, ClearWrite, ClearFails
  <2>4. ASSUME NEW h \in Handlers, Handle(h) PROVE Known'
    <3>1. CASE LocateWrite(h) BY <3>1 DEF LocateWrite, At, WritePresence, Orderly
    <3> QED BY <2>4, <3>1 DEF Handle, MarkRead, MarkWrite, UnmarkRead, Unmark, HandlerFails
  <2>5. CASE Worker
    BY <2>5 DEF Worker, Ask, AskExists, AskRemove, AskFails
  <2>6. CASE Expiry
    BY <2>6 DEF Expiry, ExpirePresence, ExpireSocketKey, ExpireRoom
  <2>7. ~Crash
    <3> SUFFICES ASSUME Crash PROVE FALSE
      OBVIOUS
    <3>1. PICK s \in Sockets : conn[s] = "open"
      BY DEF Crash
    <3>2. conn'[s] = "closed" /\ user'[s] = NoUser
      BY <3>1 DEF Crash
    <3> QED BY <3>2, NamesAssumption DEF Orderly
  <2>8. CASE UNCHANGED vars
    BY <2>8 DEF vars
  <2> QED BY <2>2, <2>3, <2>4, <2>5, <2>6, <2>7, <2>8 DEF Next
<1>3. Known /\ OfflineAfterLast => OfflineAfterDisconnect
  BY DEF OfflineAfterLast, OfflineAfterDisconnect
<1>4. Known /\ CountsOpenSockets => \A s \in counted : conn[s] # "closed"
  BY DEF CountsOpenSockets
<1> QED BY <1>1, <1>2, <1>3, <1>4, TypedAlways, LastMarksOffline, OpenSocketsCounted, PTL
           DEF Spec
=============================================================================
