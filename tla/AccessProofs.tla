---------------------------- MODULE AccessProofs ----------------------------
(* Theorems of Access, for any members, roles, sessions, assignments and bound. *)
EXTENDS Access, TLAPS

\* Nothing of the team changes.
Quiet == UNCHANGED <<roleVars, teamVars, grantVars, seedVars>>

\* What the keys of the database guarantee, with the types of its rows; the
\* seed gives an account to a member only after the row.
Tables ==
  /\ name \in [Roles -> Held]
  /\ used \in SUBSET Roles
  /\ known \in SUBSET Perms
  /\ grants \in [Roles -> SUBSET Perms]
  /\ mixed \in SUBSET Roles
  /\ last \in [Roles -> SUBSET Perms]
  /\ roleOf \in [Members -> Roles \cup {NoRole}]
  /\ team \in SUBSET Members /\ banned \in SUBSET Members /\ accounts \in SUBSET team
  /\ seed \in {"perms", "roles", "find", "links", "user", "account", "idle"}
  /\ found \in [SeededNames -> Roles \cup {NoRole}]
  /\ seed = "account" => Root \in team
  /\ \A r \in Roles : name[r] # NoRole => r \in used /\ Named(name[r]) = {r}
  /\ \A r \in Roles : name[r] = NoRole => grants[r] = {}
  /\ \A m \in Members : roleOf[m] # NoRole => name[roleOf[m]] # NoRole

\* The types of the sessions, the assignments and the request.
Processes ==
  /\ owner \in [Sessions -> Members \cup {NoMember}]
  /\ live \in SUBSET Sessions
  /\ logins \in SUBSET Tokens /\ refreshes \in SUBSET Tokens
  /\ tokens \in SUBSET Tokens /\ stale \in SUBSET Tokens
  /\ banning \in [Members -> SUBSET {"row", "sessions"}]
  /\ tx \in [Assigns -> {"idle", "waiting", "deleted"}]
  /\ chosen \in [Assigns -> SUBSET Perms]
  /\ snap \in [Assigns -> SUBSET Perms]
  /\ on \in [Assigns -> Roles \cup {NoRole}]
  /\ rq \in [at : {"idle", "guard", "handler"}, session : Sessions \cup {NoMember},
             role : Held, calm : BOOLEAN]
  /\ changes \in 0..MaxChanges
  /\ raced \in SUBSET Sessions
  /\ crossed \in SUBSET Assigns

\* Together they are the types.
LEMMA TypesOfParts == Tables /\ Processes => TypeOK
BY Zenon DEF TypeOK, Tables, Processes

\* An assignment under way has a role; a session, and all that was given to it or
\* is about to be, has an owner.
Placed ==
  /\ \A q \in Assigns : tx[q] # "idle" => on[q] \in Roles
  /\ \A s \in live : owner[s] \in Members
  /\ \A t \in logins \cup refreshes \cup tokens : owner[t[1]] \in Members

\* The seed gives each role that is missing an id of its own.
LEMMA SeedRolesTables == Tables /\ SeedRoles => Tables'
<1> SUFFICES ASSUME Tables, SeedRoles PROVE Tables'
  OBVIOUS
<1> DEFINE missing == {n \in SeededNames : Named(n) = {}}
           F == {f \in [missing -> Roles \ used] :
                   \A n, k \in missing : f[n] = f[k] => n = k}
           f == CHOOSE x \in F : TRUE
<1>1. f \in F
  BY DEF SeedRoles
<1>2. /\ name' = [r \in Roles |-> IF \E n \in missing : f[n] = r
                                  THEN CHOOSE n \in missing : f[n] = r ELSE name[r]]
      /\ used' = used \cup {f[n] : n \in missing}
      /\ seed' = "find"
      /\ UNCHANGED <<known, found, teamVars, grantVars>>
  BY DEF SeedRoles
<1> HIDE DEF f
<1>3. /\ f \in [missing -> Roles \ used]
      /\ \A n, k \in missing : f[n] = f[k] => n = k
  BY <1>1
<1>4. \A n \in missing : f[n] \in Roles \ used /\ n \in SeededNames /\ n # NoRole
                         /\ n \in Held /\ name[f[n]] = NoRole
  BY <1>3, NamesAssumption DEF Tables, Held, AllNames
<1>5. \A n \in missing : name'[f[n]] = n
  BY <1>2, <1>3, <1>4
<1>6. \A r \in Roles : (\A n \in missing : f[n] # r) => name'[r] = name[r]
  BY <1>2
<1>7. name' \in [Roles -> Held]
  <2>1. ASSUME NEW r \in Roles PROVE name'[r] \in Held
    <3>1. CASE \E n \in missing : f[n] = r
      BY <1>4, <1>5, <3>1
    <3>2. CASE \A n \in missing : f[n] # r
      BY <1>6, <3>2 DEF Tables
    <3> QED BY <3>1, <3>2
  <2> QED BY <1>2, <2>1
<1>8. ASSUME NEW r \in Roles, name'[r] # NoRole
      PROVE r \in used' /\ Named(name[r])' = {r}
  <2>1. CASE \E n \in missing : f[n] = r
    <3>1. PICK n \in missing : f[n] = r
      BY <2>1
    <3>2. \A x \in Roles : name'[x] = n => x = r
      <4> SUFFICES ASSUME NEW x \in Roles, name'[x] = n PROVE x = r
        OBVIOUS
      <4>1. CASE \E k \in missing : f[k] = x
        BY <1>5, <3>1, <4>1
      <4>2. CASE \A k \in missing : f[k] # x
        BY <1>6, <4>2 DEF Named
      <4> QED BY <4>1, <4>2
    <3>3. name'[r] = n /\ r \in used'
      BY <1>2, <1>5, <3>1
    <3> QED BY <3>2, <3>3 DEF Named
  <2>2. CASE \A n \in missing : f[n] # r
    <3>1. name'[r] = name[r] /\ r \in used /\ Named(name[r]) = {r}
      BY <1>6, <1>8, <2>2 DEF Tables
    <3>2. \A x \in Roles : name'[x] = name[r] => x = r
      <4> SUFFICES ASSUME NEW x \in Roles, name'[x] = name[r] PROVE x = r
        OBVIOUS
      <4>1. CASE \E k \in missing : f[k] = x
        <5>1. PICK k \in missing : f[k] = x
          BY <4>1
        <5>2. Named(name[r]) = {}
          BY <1>5, <5>1
        <5> QED BY <3>1, <5>2
      <4>2. CASE \A k \in missing : f[k] # x
        BY <1>6, <3>1, <4>2 DEF Named
      <4> QED BY <4>1, <4>2
    <3> QED BY <1>2, <3>1, <3>2 DEF Named
  <2> QED BY <2>1, <2>2
<1>9. \A r \in Roles : name[r] # NoRole => name'[r] = name[r]
  BY <1>4, <1>6 DEF Tables
<1>10. /\ \A r \in Roles : name'[r] = NoRole => grants'[r] = {}
       /\ \A m \in Members : roleOf'[m] # NoRole => name'[roleOf'[m]] # NoRole
  BY <1>2, <1>9 DEF Tables, teamVars, grantVars
<1>11. used' \in SUBSET Roles
  <2>1. {f[n] : n \in missing} \subseteq Roles
    BY <1>4
  <2> QED BY <1>2, <2>1 DEF Tables
<1>12. /\ grants' \in [Roles -> SUBSET Perms] /\ mixed' \in SUBSET Roles
       /\ last' \in [Roles -> SUBSET Perms]
       /\ roleOf' \in [Members -> Roles \cup {NoRole}]
       /\ team' \in SUBSET Members /\ banned' \in SUBSET Members
       /\ accounts' \in SUBSET team'
  BY <1>2 DEF Tables, teamVars, grantVars
<1> HIDE DEF missing
<1> QED BY <1>2, <1>7, <1>8, <1>10, <1>11, <1>12 DEF Tables

\* A step keeps the tables when all that it changes of them is the seed's place.
LEMMA TablesKept ==
  ASSUME Tables, UNCHANGED <<roleVars, teamVars, grantVars, seedVars>>
  PROVE  Tables'
BY DEF Tables, Named, roleVars, teamVars, grantVars, seedVars

\* No step breaks what the keys of the database guarantee.
LEMMA TablesStep == Tables /\ Placed /\ Processes /\ [Next]_vars => Tables'
<1> SUFFICES ASSUME Tables, Placed, Processes, [Next]_vars PROVE Tables'
  OBVIOUS
<1> USE DEF roleVars, teamVars, grantVars, seedVars, sessionVars, assignVars
<1>1. CASE SeedScript
  <2>1. CASE SeedRoles BY <2>1, SeedRolesTables
  <2>2. CASE SeedPerms
    BY <2>2, NamesAssumption DEF SeedPerms, Tables, Named
  <2>3. CASE SeedFind
    <3>1. \A n \in SeededNames : found'[n] \in Roles \cup {NoRole}
      BY <2>3 DEF SeedFind, Named
    <3>2. found' \in [SeededNames -> Roles \cup {NoRole}]
      BY <2>3, <3>1 DEF SeedFind
    <3> QED BY <2>3, <3>2 DEF SeedFind, Tables, Named
  <2>4. CASE SeedLinks
    <3> DEFINE linked == {n \in SeededNames : found[n] # NoRole /\ Seeded[n] # {}}
               given(r) == UNION {Seeded[n] : n \in {k \in linked : found[k] = r}}
    <3>1. /\ \A n \in linked : name[found[n]] # NoRole
          /\ grants' = [r \in Roles |-> grants[r] \cup given(r)]
          /\ mixed' = mixed \cup {found[n] : n \in linked}
      BY <2>4 DEF SeedLinks
    <3>2. {found[n] : n \in linked} \in SUBSET Roles
      BY DEF Tables
    <3>3. \A r \in Roles : given(r) \in SUBSET Perms /\ (name[r] = NoRole => given(r) = {})
      BY <3>1, NamesAssumption
    <3> HIDE DEF linked, given
    <3>4. grants' \in [Roles -> SUBSET Perms]
          /\ \A r \in Roles : name[r] = NoRole => grants'[r] = {}
      BY <3>1, <3>3 DEF Tables
    <3> QED BY <2>4, <3>1, <3>2, <3>4 DEF SeedLinks, Tables, Named
  <2>5. CASE SeedUser
    <3>1. found' \in [SeededNames -> Roles \cup {NoRole}]
      BY <2>5 DEF SeedUser, NotFound
    <3>2. /\ roleOf' \in [Members -> Roles \cup {NoRole}]
          /\ \A m \in Members : roleOf'[m] # NoRole => name[roleOf'[m]] # NoRole
      BY <2>5, RootAssumption, NamesAssumption DEF SeedUser, Tables
    <3> QED BY <2>5, <3>1, <3>2, RootAssumption DEF SeedUser, Tables, Named
  <2>6. CASE SeedAccount \/ SeedStops \/ SeedAgain
    <3>1. found' \in [SeededNames -> Roles \cup {NoRole}]
      BY <2>6 DEF SeedAccount, SeedStops, SeedAgain, NotFound, Tables
    <3> QED BY <2>6, <3>1, RootAssumption DEF SeedAccount, SeedStops, SeedAgain, Tables,
               Named
  <2> QED BY <1>1, <2>1, <2>2, <2>3, <2>4, <2>5, <2>6 DEF SeedScript
<1>2. CASE SyncPermissions
  BY <1>2 DEF SyncPermissions, Tables, Named
<1>3. ASSUME NEW r \in Roles, RemoveRole(r) PROVE Tables'
  <2>1. /\ name' = [name EXCEPT ![r] = NoRole]
        /\ grants' = [grants EXCEPT ![r] = {}]
        /\ last' = [last EXCEPT ![r] = {}]
        /\ roleOf' = [m \in Members |-> IF roleOf[m] = r THEN NoRole ELSE roleOf[m]]
        /\ UNCHANGED <<used, known, team, banned, accounts, mixed, seed, found>>
    BY <1>3 DEF RemoveRole
  <2>2. /\ name' \in [Roles -> Held] /\ grants' \in [Roles -> SUBSET Perms]
        /\ last' \in [Roles -> SUBSET Perms] /\ roleOf' \in [Members -> Roles \cup {NoRole}]
    BY <2>1 DEF Tables, Held
  <2>3. \A x \in Roles : name'[x] # NoRole => x # r /\ name'[x] = name[x] /\ x \in used
                                             /\ Named(name[x]) = {x}
    BY <2>1 DEF Tables
  <2>4. \A x \in Roles : name'[x] # NoRole => Named(name[x])' = {x}
    BY <2>1, <2>3 DEF Tables, Named
  <2>5. \A x \in Roles : name'[x] = NoRole => grants'[x] = {}
    BY <2>1 DEF Tables
  <2>6. \A m \in Members : roleOf'[m] # NoRole => name'[roleOf'[m]] # NoRole
    BY <2>1, <2>2 DEF Tables
  <2>7. UNCHANGED <<used, known, team, banned, accounts, mixed, seed, found>>
    BY <2>1
  <2> QED BY <2>2, <2>3, <2>4, <2>5, <2>6, <2>7 DEF Tables
<1>4. ASSUME NEW r \in Roles, NEW n \in AllNames, CreateRole(r, n) \/ UpdateRole(r, n)
      PROVE Tables'
  <2>1. /\ name' = [name EXCEPT ![r] = n] /\ Named(n) = {}
        /\ used' = used \cup {r} \/ (used' = used /\ r \in used)
        /\ UNCHANGED <<known, teamVars, grantVars, seedVars>>
        /\ name[r] = NoRole \/ used' = used
    BY <1>4 DEF CreateRole, UpdateRole, Tables
  <2>2. n # NoRole /\ n \in Held
    BY NamesAssumption DEF Held
  <2>3. name' \in [Roles -> Held] /\ r \in used' /\ used \subseteq used'
    BY <2>1, <2>2 DEF Tables
  <2>4. \A x \in Roles : (name'[x] = n <=> x = r) /\ (x # r => name'[x] = name[x])
    BY <2>1 DEF Tables, Named
  <2>5. \A x \in Roles : name'[x] # NoRole => Named(name[x])' = {x}
    BY <2>4 DEF Tables, Named
  <2>6. \A m \in Members : roleOf'[m] # NoRole => name'[roleOf'[m]] # NoRole
    BY <2>1, <2>2, <2>4 DEF Tables
  <2>7. \A x \in Roles :
          (name'[x] # NoRole => x \in used') /\ (name'[x] = NoRole => grants'[x] = {})
    BY <2>1, <2>2, <2>3, <2>4 DEF Tables
  <2> QED BY <2>1, <2>3, <2>5, <2>6, <2>7 DEF Tables
<1>5. ASSUME NEW q \in Assigns, Assignment(q) PROVE Tables'
  <2>1. CASE Commit(q)
    <3>1. on[q] \in Roles /\ name[on[q]] # NoRole /\ chosen[q] \in SUBSET Perms
      BY <2>1 DEF Commit, Placed, Processes
    <3> QED BY <2>1, <3>1 DEF Commit, Ended, Tables, Named
  <2> QED BY <1>5, <2>1, TablesKept DEF Assignment, Begin, Delete, Rollback
<1>6. ASSUME NEW m \in Members, TeamAdmin(m) PROVE Tables'
  <2>1. ASSUME NEW r \in Roles, CreateMember(m, r) \/ UpdateMember(m, r) PROVE Tables'
    <3>1. /\ roleOf' \in [Members -> Roles \cup {NoRole}]
          /\ \A x \in Members : roleOf'[x] # NoRole => name[roleOf'[x]] # NoRole
      BY <2>1 DEF CreateMember, UpdateMember, Tables
    <3> QED BY <2>1, <3>1 DEF CreateMember, UpdateMember, Tables, Named
  <2>2. CASE BanRow(m)
    BY <2>2 DEF BanRow, Tables, Named
  <2> QED BY <1>6, <2>1, <2>2, TablesKept DEF TeamAdmin, Ban, BanSessions, BanFails
<1>7. ASSUME NEW s \in Sessions, Session(s) PROVE Tables'
  BY <1>7, TablesKept DEF Session, Refresh, Logout, Login
<1>8. ASSUME NEW t \in Tokens, Token(t) PROVE Tables'
  BY <1>8, TablesKept DEF Token, CreateSession, Rotate, FlightFails, ExpireToken, Validate
<1>9. CASE Guard \/ Answer \/ UNCHANGED vars
  BY <1>9, TablesKept DEF Guard, Answer, vars
<1> QED BY <1>1, <1>2, <1>3, <1>4, <1>5, <1>6, <1>7, <1>8, <1>9 DEF Next, RoleAdmin

Requests == [at : {"idle", "guard", "handler"}, session : Sessions \cup {NoMember},
             role : Held, calm : BOOLEAN]

\* What disturbing a request does to it.
LEMMA Disturbed ==
  ASSUME rq \in Requests, Disturb
  PROVE  rq' \in Requests /\ ~rq'.calm
BY DEF Disturb, Requests

\* What the history of a role's change does.
LEMMA Changed ==
  ASSUME Processes, NEW M, RoleChanges(M)
  PROVE  stale' \in SUBSET Tokens /\ rq' \in Requests /\ ~rq'.calm
BY Disturbed DEF RoleChanges, Processes, Requests

\* The name of a member's role, or null.
LEMMA RoleNameHeld == Tables => \A m \in Members : RoleName(m) \in Held
BY DEF Tables, RoleName, Held

\* Every step keeps the types of the processes.
LEMMA ProcessesStep == Tables /\ Placed /\ Processes /\ [Next]_vars => Processes' /\ Placed'
<1> SUFFICES ASSUME Tables, Placed, Processes, [Next]_vars PROVE Processes' /\ Placed'
  OBVIOUS
<1> USE DEF sessionVars, assignVars
<1>0. rq \in Requests
  BY DEF Processes, Requests
<1>a. ASSUME UNCHANGED <<sessionVars, tx, chosen, snap, on, banning>>,
             rq' \in Requests, changes' \in 0..MaxChanges, raced' \in SUBSET Sessions,
             crossed' \in SUBSET Assigns
      PROVE Processes' /\ Placed'
  BY <1>a DEF Processes, Placed, Requests
<1>b. Change => changes' \in 0..MaxChanges
  BY BoundAssumption DEF Change, Processes
<1>1. CASE SeedScript \/ SyncPermissions
  BY <1>0, <1>1, <1>a, <1>b, Disturbed DEF SeedScript, SeedPerms, SeedRoles, SeedFind,
     SeedLinks, SeedUser, SeedAccount, SeedStops, SeedAgain, SyncPermissions, Processes
<1>2. ASSUME NEW r \in Roles,
             RemoveRole(r) \/ \E n \in AllNames : CreateRole(r, n) \/ UpdateRole(r, n)
      PROVE Processes' /\ Placed'
  <2>1. stale' \in SUBSET Tokens /\ rq' \in Requests /\ changes' \in 0..MaxChanges
    BY <1>0, <1>2, <1>b, Disturbed, Changed DEF CreateRole, UpdateRole, RemoveRole,
       Processes
  <2> QED BY <1>2, <2>1 DEF CreateRole, UpdateRole, RemoveRole, Processes, Placed, Requests
<1>3. ASSUME NEW q \in Assigns, Assignment(q) PROVE Processes' /\ Placed'
  <2>1. ASSUME NEW r \in Roles, NEW P \in SUBSET Perms, Begin(q, r, P)
        PROVE Processes' /\ Placed'
    <3>1. /\ tx' = [tx EXCEPT ![q] = "waiting"] /\ on' = [on EXCEPT ![q] = r]
          /\ chosen' = [chosen EXCEPT ![q] = P] /\ snap' = [snap EXCEPT ![q] = grants[r]]
          /\ crossed' \in SUBSET Assigns /\ grants[r] \in SUBSET Perms
          /\ UNCHANGED <<sessionVars, banning, rq, raced>>
      BY <2>1 DEF Begin, Processes, Tables
    <3>2. changes' \in 0..MaxChanges
      BY <1>b, <2>1 DEF Begin
    <3> QED BY <3>1, <3>2 DEF Processes, Placed
  <2>2. CASE Delete(q)
    BY <2>2 DEF Delete, Processes, Placed
  <2>3. ASSUME NEW R, Ended(q, R) PROVE /\ tx' \in [Assigns -> {"idle", "waiting", "deleted"}]
                                        /\ chosen' \in [Assigns -> SUBSET Perms]
                                        /\ snap' \in [Assigns -> SUBSET Perms]
                                        /\ on' \in [Assigns -> Roles \cup {NoRole}]
                                        /\ crossed' \in SUBSET Assigns
                                        /\ \A k \in Assigns : tx'[k] # "idle" => on'[k] \in Roles
    BY <2>3 DEF Ended, Processes, Placed
  <2>4. CASE Commit(q)
    <3>1. rq' \in Requests
      BY <1>0, <2>4, Disturbed DEF Commit
    <3> QED BY <2>3, <2>4, <3>1 DEF Commit, Processes, Placed, Requests
  <2>5. CASE Rollback(q)
    BY <2>3, <2>5 DEF Rollback, Processes, Placed
  <2> QED BY <1>3, <2>1, <2>2, <2>4, <2>5 DEF Assignment
<1>4. ASSUME NEW m \in Members, TeamAdmin(m) PROVE Processes' /\ Placed'
  <2>1. ASSUME NEW r \in Roles, CreateMember(m, r) \/ UpdateMember(m, r)
        PROVE Processes' /\ Placed'
    <3>1. stale' \in SUBSET Tokens /\ rq' \in Requests /\ changes' \in 0..MaxChanges
      BY <1>0, <1>b, <2>1, Changed DEF CreateMember, UpdateMember, Processes
    <3> QED BY <2>1, <3>1 DEF CreateMember, UpdateMember, Processes, Placed, Requests
  <2>2. CASE Ban(m)
    <3>1. changes' \in 0..MaxChanges
      BY <1>b, <2>2 DEF Ban
    <3> QED BY <2>2, <3>1 DEF Ban, Processes, Placed
  <2>3. CASE BanRow(m)
    BY <2>3 DEF BanRow, Processes, Placed, Coming, SessionsOf
  <2>4. CASE BanSessions(m)
    <3>1. rq' \in Requests
      BY <1>0, <2>4, Disturbed DEF BanSessions
    <3> QED BY <2>4, <3>1 DEF BanSessions, Processes, Placed, Coming, SessionsOf, Requests
  <2>5. CASE BanFails(m)
    BY <2>5 DEF BanFails, Processes, Placed, SessionsOf
  <2> QED BY <1>4, <2>1, <2>2, <2>3, <2>4, <2>5 DEF TeamAdmin
<1>5. ASSUME NEW s \in Sessions, Session(s) PROVE Processes' /\ Placed'
  <2>1. ASSUME NEW m \in Members, Login(s, m) PROVE Processes' /\ Placed'
    <3>1. <<s, RoleName(m)>> \in Tokens
      BY RoleNameHeld DEF Tokens
    <3> QED BY <2>1, <3>1 DEF Login, Processes, Placed
  <2>2. CASE Refresh(s)
    <3>1. <<s, RoleName(owner[s])>> \in Tokens
      BY <2>2, RoleNameHeld DEF Tokens, Refresh, Placed
    <3> QED BY <2>2, <3>1 DEF Refresh, Processes, Placed
  <2>3. CASE Logout(s)
    <3>1. rq' \in Requests
      BY <1>0, <2>3, Disturbed DEF Logout
    <3> QED BY <2>3, <3>1 DEF Logout, Processes, Placed, Requests
  <2> QED BY <1>5, <2>1, <2>2, <2>3 DEF Session
<1>6. ASSUME NEW t \in Tokens, Token(t) PROVE Processes' /\ Placed'
  <2>0. t[1] \in Sessions /\ t[2] \in Held
    BY DEF Tokens
  <2>1. CASE CreateSession(t) \/ Rotate(t) \/ FlightFails(t) \/ ExpireToken(t)
    BY <2>0, <2>1 DEF CreateSession, Rotate, FlightFails, ExpireToken, Processes, Placed
  <2>2. CASE Validate(t)
    <3>1. rq' \in Requests
      BY <2>0, <2>2, RoleNameHeld DEF Validate, Requests, Placed
    <3> QED BY <1>a, <2>2, <3>1 DEF Validate, Processes
  <2> QED BY <1>6, <2>1, <2>2 DEF Token
<1>7. CASE Guard \/ Answer
  <2>1. [rq EXCEPT !.at = "handler"] \in Requests /\ Idle \in Requests
    BY <1>0 DEF Requests, Idle, Held
  <2>2. rq' \in Requests
    BY <1>7, <2>1 DEF Guard, Answer
  <2> QED BY <1>7, <1>a, <2>2 DEF Guard, Answer, Processes
<1>8. CASE UNCHANGED vars
  BY <1>8 DEF vars, Processes, Placed
<1> QED BY <1>1, <1>2, <1>3, <1>4, <1>5, <1>6, <1>7, <1>8 DEF Next, RoleAdmin

Consistent == Tables /\ Processes /\ Placed

\* The initial state is consistent.
LEMMA InitConsistent == Init => Consistent
<1> SUFFICES ASSUME Init PROVE Tables /\ Processes /\ Placed
  BY DEF Consistent
<1> USE DEF Init
<1>1. Tables
  <2>1. name \in [Roles -> Held] /\ grants \in [Roles -> SUBSET Perms]
        /\ last \in [Roles -> SUBSET Perms]
    BY DEF Held
  <2>2. roleOf \in [Members -> Roles \cup {NoRole}]
        /\ found \in [SeededNames -> Roles \cup {NoRole}]
    BY DEF NotFound
  <2> QED BY <2>1, <2>2 DEF Tables
<1>2. Processes
  <2>1. /\ owner \in [Sessions -> Members \cup {NoMember}]
        /\ banning \in [Members -> SUBSET {"row", "sessions"}]
        /\ changes \in 0..MaxChanges
    BY BoundAssumption
  <2>2. /\ tx \in [Assigns -> {"idle", "waiting", "deleted"}]
        /\ chosen \in [Assigns -> SUBSET Perms]
        /\ snap \in [Assigns -> SUBSET Perms]
        /\ on \in [Assigns -> Roles \cup {NoRole}]
    OBVIOUS
  <2>3. rq \in [at : {"idle", "guard", "handler"}, session : Sessions \cup {NoMember},
                role : Held, calm : BOOLEAN]
    BY DEF Idle, Held
  <2> QED BY <2>1, <2>2, <2>3 DEF Processes
<1>3. Placed
  BY DEF Placed
<1> QED BY <1>1, <1>2, <1>3

\* Consistency is an invariant.
LEMMA AlwaysConsistent == Spec => []Consistent
<1>1. Consistent /\ [Next]_vars => Consistent'
  BY TablesStep, ProcessesStep DEF Consistent
<1> QED BY <1>1, InitConsistent, PTL DEF Spec

\* The state of tables, sessions and transactions is of the types TypeOK gives it,
\* and the names and references of roles are sound, whatever runs beside the seed.
THEOREM TypeCorrect == Spec => []TypeOK
<1>1. Consistent => TypeOK
  BY TypesOfParts DEF Consistent
<1> QED BY <1>1, AlwaysConsistent, PTL

-----------------------------------------------------------------------------

\* From the end of either half of a ban on, what the other half may miss has raced.
BanHolds ==
  \A m \in banned : "sessions" \notin banning[m] =>
    (live \cap SessionsOf(m)) \cup Coming(m) \subseteq raced

\* No step brings back a session of a banned member.
LEMMA BanStep == Consistent /\ BanHolds /\ [Next]_vars => BanHolds'
<1> SUFFICES ASSUME Consistent, BanHolds, [Next]_vars PROVE BanHolds'
  OBVIOUS
<1>0. Processes /\ Tables /\ banned' \in SUBSET Members
  BY TablesStep DEF Consistent, Tables
<1> SUFFICES ASSUME NEW x \in Members, x \in banned', "sessions" \notin banning'[x],
                    NEW s \in Sessions, owner'[s] = x,
                    s \in live' \/ \E t \in logins' : t[1] = s
             PROVE s \in raced'
  BY <1>0 DEF BanHolds, SessionsOf, Coming
<1>a. ASSUME x \in banned, "sessions" \notin banning[x], owner[s] = x,
             s \in live \/ \E t \in logins : t[1] = s
      PROVE s \in raced
  BY <1>a DEF BanHolds, SessionsOf, Coming
<1> USE DEF roleVars, teamVars, sessionVars, assignVars, grantVars, seedVars
<1>1. CASE UNCHANGED <<owner, live, logins, banned, banning, raced>>
  BY <1>1, <1>a
<1>2. CASE SeedScript \/ SyncPermissions
  BY <1>1, <1>2 DEF SeedScript, SeedPerms, SeedRoles, SeedFind, SeedLinks, SeedUser,
                    SeedAccount, SeedStops, SeedAgain, SyncPermissions
<1>3. ASSUME NEW r \in Roles,
             RemoveRole(r) \/ \E n \in AllNames : CreateRole(r, n) \/ UpdateRole(r, n)
      PROVE s \in raced'
  BY <1>1, <1>3 DEF CreateRole, UpdateRole, RemoveRole
<1>4. ASSUME NEW q \in Assigns, Assignment(q) PROVE s \in raced'
  BY <1>1, <1>4 DEF Assignment, Begin, Delete, Commit, Rollback
<1>5. ASSUME NEW m \in Members, TeamAdmin(m) PROVE s \in raced'
  <2>1. ASSUME NEW r \in Roles, CreateMember(m, r) \/ UpdateMember(m, r) PROVE s \in raced'
    BY <1>1, <2>1 DEF CreateMember, UpdateMember
  <2>2. CASE Ban(m)
    BY <1>0, <1>a, <2>2 DEF Ban, Processes
  <2>3. CASE BanRow(m)
    BY <1>0, <1>a, <2>3 DEF BanRow, Processes, SessionsOf, Coming
  <2>4. CASE BanSessions(m)
    BY <1>0, <1>a, <2>4 DEF BanSessions, Processes, SessionsOf, Coming
  <2>5. CASE BanFails(m)
    BY <1>0, <1>a, <2>5 DEF BanFails, Processes, SessionsOf, Coming
  <2> QED BY <1>5, <2>1, <2>2, <2>3, <2>4, <2>5 DEF TeamAdmin
<1>6. ASSUME NEW k \in Sessions, Session(k) PROVE s \in raced'
  <2>1. ASSUME NEW m \in Members, Login(k, m) PROVE s \in raced'
    BY <1>0, <1>a, <2>1 DEF Login, Processes
  <2>2. CASE Refresh(k) \/ Logout(k)
    BY <1>0, <1>a, <2>2 DEF Refresh, Logout, Processes
  <2> QED BY <1>6, <2>1, <2>2 DEF Session
<1>7. ASSUME NEW t \in Tokens, Token(t) PROVE s \in raced'
  BY <1>0, <1>a, <1>7 DEF Token, CreateSession, Rotate, FlightFails, ExpireToken, Validate,
     Processes
<1>8. CASE Guard \/ Answer \/ UNCHANGED vars
  BY <1>1, <1>8 DEF Guard, Answer, vars
<1> QED BY <1>2, <1>3, <1>4, <1>5, <1>6, <1>7, <1>8 DEF Next, RoleAdmin

\* A ban reaches every session of its member, but for those created across it, for
\* any number of logins, bans, failed halves and members.
THEOREM BanReaches == Spec => []BannedUnlessRaced
<1>1. Init => BanHolds
  BY DEF Init, BanHolds
<1>2. BanHolds => BannedUnlessRaced
  BY DEF BanHolds, BannedUnlessRaced
<1> QED BY <1>1, <1>2, BanStep, AlwaysConsistent, PTL DEF Spec

-----------------------------------------------------------------------------

\* Two assignments under way to one role are both crossed; one that is not sees
\* every row its role has.
Crossing ==
  /\ \A q, k \in Assigns :
       q # k /\ tx[q] # "idle" /\ tx[k] # "idle" /\ on[q] = on[k] => q \in crossed
  /\ \A q \in Assigns :
       tx[q] # "idle" /\ q \notin crossed => grants[on[q]] \subseteq snap[q]

Assigned == AssignedTogether /\ Crossing

\* No interleaving of assignments, of the seed and of removals disturbs that.
LEMMA AssignedStep == Consistent /\ Assigned /\ [Next]_vars => Assigned'
<1> SUFFICES ASSUME Consistent, Assigned, [Next]_vars PROVE AssignedTogether' /\ Crossing'
  BY DEF Assigned
<1>0. Processes /\ Tables /\ Placed /\ AssignedTogether /\ Crossing
  BY DEF Consistent, Assigned
<1> USE DEF roleVars, teamVars, sessionVars, assignVars, grantVars, seedVars
<1>1. CASE UNCHANGED <<assignVars, grantVars>>
  BY <1>0, <1>1 DEF AssignedTogether, Crossing
<1>2. CASE SeedScript \/ SyncPermissions
  <2>1. CASE SeedLinks
    <3>1. \A r \in Roles : grants[r] \subseteq grants'[r]
      BY <2>1 DEF SeedLinks
    <3>2. \A r \in Roles : r \notin mixed' => grants'[r] = grants[r] /\ r \notin mixed
      BY <1>0, <2>1 DEF SeedLinks, Tables
    <3>3. AssignedTogether'
      BY <1>0, <2>1, <3>1, <3>2 DEF SeedLinks, AssignedTogether
    <3>4. Crossing'
      BY <2>1 DEF SeedLinks, Crossing
    <3> QED BY <3>3, <3>4
  <2> QED BY <1>1, <1>2, <2>1 DEF SeedScript, SeedPerms, SeedRoles, SeedFind, SeedUser,
                                  SeedAccount, SeedStops, SeedAgain, SyncPermissions
<1>3. ASSUME NEW r \in Roles,
             RemoveRole(r) \/ \E n \in AllNames : CreateRole(r, n) \/ UpdateRole(r, n)
      PROVE AssignedTogether' /\ Crossing'
  <2>1. CASE RemoveRole(r)
    <3>1. /\ grants' = [grants EXCEPT ![r] = {}] /\ last' = [last EXCEPT ![r] = {}]
          /\ UNCHANGED <<assignVars, mixed>>
      BY <2>1 DEF RemoveRole
    <3>2. \A x \in Roles : grants'[x] \subseteq grants[x]
      BY <1>0, <3>1 DEF Tables
    <3>3. AssignedTogether'
      BY <1>0, <3>1 DEF Tables, AssignedTogether
    <3>4. Crossing'
      BY <1>0, <3>1, <3>2 DEF Crossing, Placed
    <3> QED BY <3>3, <3>4
  <2> QED BY <1>1, <1>3, <2>1 DEF CreateRole, UpdateRole
<1>4. ASSUME NEW q \in Assigns, Assignment(q) PROVE AssignedTogether' /\ Crossing'
  <2>1. ASSUME NEW r \in Roles, NEW P \in SUBSET Perms, Begin(q, r, P)
        PROVE AssignedTogether' /\ Crossing'
    <3>1. AssignedTogether'
      BY <1>0, <2>1 DEF Begin, AssignedTogether
    <3>2. /\ tx' = [tx EXCEPT ![q] = "waiting"] /\ on' = [on EXCEPT ![q] = r]
          /\ snap' = [snap EXCEPT ![q] = grants[r]] /\ grants' = grants
          /\ crossed \subseteq crossed' /\ tx[q] = "idle"
          /\ \A k \in Assigns : on[k] = r => k \in crossed' /\ q \in crossed'
      BY <2>1 DEF Begin
    <3>3. Crossing'
      BY <1>0, <3>2 DEF Crossing, Processes
    <3> QED BY <3>1, <3>3
  <2>2. CASE Delete(q)
    BY <1>0, <2>2 DEF Delete, Processes, AssignedTogether, Crossing
  <2>3. CASE Commit(q)
    <3>1. on[q] \in Roles /\ tx[q] # "idle"
      BY <1>0, <2>3 DEF Commit, Placed
    <3>2. /\ grants' = [grants EXCEPT ![on[q]] = (grants[on[q]] \ snap[q]) \cup chosen[q]]
          /\ last' = [last EXCEPT ![on[q]] = chosen[q]]
          /\ mixed' = IF q \in crossed THEN mixed \cup {on[q]} ELSE mixed \ {on[q]}
      BY <2>3 DEF Commit
    <3>3. q \notin crossed => grants[on[q]] \subseteq snap[q]
      BY <1>0, <3>1 DEF Crossing
    <3>4. AssignedTogether'
      BY <1>0, <3>1, <3>2, <3>3 DEF AssignedTogether, Tables
    <3>5. /\ tx' = [tx EXCEPT ![q] = "idle"] /\ crossed' = crossed \ {q}
          /\ \A k \in Assigns : k # q => tx'[k] = tx[k] /\ on'[k] = on[k]
          /\ \A k \in Assigns : k # q /\ on[k] # on[q] => snap'[k] = snap[k]
      BY <1>0, <2>3 DEF Commit, Ended, Processes
    <3>6. \A k \in Assigns : k # q /\ tx[k] # "idle" /\ k \notin crossed => on[k] # on[q]
      BY <1>0, <3>1 DEF Crossing
    <3>7. \A k \in Assigns : k # q /\ tx[k] # "idle" /\ k \notin crossed =>
            grants'[on[k]] = grants[on[k]]
      BY <1>0, <3>2, <3>6 DEF Tables, Placed
    <3>8. tx'[q] = "idle"
      BY <1>0, <3>5 DEF Processes
    <3>9. Crossing'
      BY <1>0, <3>5, <3>6, <3>7, <3>8 DEF Crossing
    <3> QED BY <3>4, <3>9
  <2>4. CASE Rollback(q)
    <3>1. /\ tx' = [tx EXCEPT ![q] = "idle"] /\ crossed' = crossed \ {q}
          /\ \A k \in Assigns : k # q => tx'[k] = tx[k] /\ on'[k] = on[k] /\ snap'[k] = snap[k]
          /\ UNCHANGED grantVars
      BY <1>0, <2>4 DEF Rollback, Ended, Processes
    <3>2. tx'[q] = "idle"
      BY <1>0, <3>1 DEF Processes
    <3>3. AssignedTogether' /\ Crossing'
      BY <1>0, <3>1, <3>2 DEF AssignedTogether, Crossing
    <3> QED BY <3>3
  <2> QED BY <1>4, <2>1, <2>2, <2>3, <2>4 DEF Assignment
<1>5. ASSUME NEW m \in Members, TeamAdmin(m) PROVE AssignedTogether' /\ Crossing'
  BY <1>1, <1>5 DEF TeamAdmin, CreateMember, UpdateMember, Ban, BanRow, BanSessions,
     BanFails
<1>6. ASSUME NEW s \in Sessions, Session(s) PROVE AssignedTogether' /\ Crossing'
  BY <1>1, <1>6 DEF Session, Login, Refresh, Logout
<1>7. ASSUME NEW t \in Tokens, Token(t) PROVE AssignedTogether' /\ Crossing'
  BY <1>1, <1>7 DEF Token, CreateSession, Rotate, FlightFails, ExpireToken, Validate
<1>8. CASE Guard \/ Answer \/ UNCHANGED vars
  BY <1>1, <1>8 DEF Guard, Answer, vars
<1> QED BY <1>2, <1>3, <1>4, <1>5, <1>6, <1>7, <1>8 DEF Next, RoleAdmin

\* An assignment is not lost, and it replaces what was there unless it met another
\* one on its role or the seed: for any number of transactions at once.
THEOREM AssignmentsHold == Spec => []AssignedTogether
<1>1. Init => Assigned
  BY DEF Init, Assigned, AssignedTogether, Crossing
<1>2. Assigned => AssignedTogether
  BY DEF Assigned
<1> QED BY <1>1, <1>2, AssignedStep, AlwaysConsistent, PTL DEF Spec

-----------------------------------------------------------------------------

\* The tokens there are, or that are being made.
Given == logins \cup refreshes \cup tokens

\* The role named n may do what the handler does.
Allowed(n) == n = "superadmin" \/ (n # NoRole /\ Needed \subseteq PermsOf(n))

\* Sessions belong to members with an account; a token that is not stale carries its
\* owner's role; a calm request has a live session, its owner's role, and in its
\* handler a role that is allowed to be there.
Fresh ==
  /\ \A s \in Sessions : owner[s] # NoMember => owner[s] \in accounts
  /\ \A t \in Given \ stale : t[2] = RoleName(owner[t[1]])
  /\ rq.calm /\ rq.at # "idle" =>
       rq.session \in live /\ rq.role = RoleName(owner[rq.session])
  /\ rq.calm /\ rq.at = "handler" => Allowed(rq.role)

\* The seed's new roles are nobody's, and give nothing yet.
LEMMA SeedRolesQuiet ==
  ASSUME Tables, SeedRoles
  PROVE  /\ \A m \in Members : RoleName(m)' = RoleName(m)
         /\ \A n \in AllNames : PermsOf(n)' = PermsOf(n)
<1> DEFINE missing == {n \in SeededNames : Named(n) = {}}
           F == {f \in [missing -> Roles \ used] :
                   \A n, k \in missing : f[n] = f[k] => n = k}
           f == CHOOSE x \in F : TRUE
<1>1. f \in F
  BY DEF SeedRoles
<1>2. /\ name' = [r \in Roles |-> IF \E n \in missing : f[n] = r
                                  THEN CHOOSE n \in missing : f[n] = r ELSE name[r]]
      /\ roleOf' = roleOf /\ grants' = grants
  BY DEF SeedRoles, teamVars, grantVars
<1> HIDE DEF f
<1>3. \A n \in missing : f[n] \in Roles \ used
  BY <1>1
<1>4. \A r \in Roles : name[r] # NoRole => name'[r] = name[r]
  BY <1>2, <1>3 DEF Tables
<1>5. \A r \in Roles : name'[r] = name[r] \/ grants[r] = {}
  BY <1>4 DEF Tables
<1>6. \A m \in Members : RoleName(m)' = RoleName(m)
  BY <1>2, <1>4 DEF RoleName, Tables
<1>7. ASSUME NEW n \in AllNames PROVE PermsOf(n)' = PermsOf(n)
  <2>1. n # NoRole
    BY NamesAssumption
  <2>2. Named(n) \subseteq Named(n)'
    BY <1>4, <2>1 DEF Named
  <2>3. \A r \in Named(n)' \ Named(n) : grants[r] = {}
    BY <1>5 DEF Named
  <2>4. \A p : (\E r \in Named(n)' : p \in grants[r]) <=> (\E r \in Named(n) : p \in grants[r])
    BY <2>2, <2>3
  <2> HIDE DEF missing
  <2> QED BY <1>2, <2>4 DEF PermsOf
<1> QED BY <1>6, <1>7

\* A change of a member's role makes the tokens stale and the request uneasy; so does
\* to the request a change of what a role gives.
LEMMA RolesKept ==
  ASSUME Consistent, [Next]_vars,
         \A s \in Sessions : owner[s] # NoMember => owner[s] \in accounts
  PROVE  /\ \A m \in accounts :
              RoleName(m)' = RoleName(m) \/
              (~rq'.calm /\ \A t \in Given : owner[t[1]] = m => t \in stale')
         /\ rq'.calm => \A n \in AllNames : PermsOf(n)' = PermsOf(n)
<1> DEFINE Kept == /\ \A m \in accounts :
                        RoleName(m)' = RoleName(m) \/
                        (~rq'.calm /\ \A t \in Given : owner[t[1]] = m => t \in stale')
                   /\ rq'.calm => \A n \in AllNames : PermsOf(n)' = PermsOf(n)
<1> USE DEF roleVars, teamVars, sessionVars, assignVars, grantVars, seedVars
<1>0. /\ Tables /\ Processes /\ rq \in Requests /\ accounts \subseteq Members
      /\ accounts \subseteq team
  BY DEF Consistent, Tables, Processes, Requests
<1>1. CASE UNCHANGED <<name, roleOf, grants>>
  BY <1>1 DEF RoleName, PermsOf, Named
<1>2. CASE SeedScript \/ SyncPermissions
  <2>1. CASE SeedRoles
    BY <1>0, <2>1, SeedRolesQuiet
  <2>2. CASE SeedLinks
    <3>1. ~rq'.calm
      BY <1>0, <2>2, Disturbed DEF SeedLinks
    <3> QED BY <2>2, <3>1 DEF SeedLinks, RoleName
  <2>3. CASE SeedUser
    <3>1. \A m \in accounts : roleOf'[m] = roleOf[m]
      BY <1>0, <2>3 DEF SeedUser, Tables
    <3> QED BY <2>3, <3>1 DEF SeedUser, RoleName, PermsOf, Named
  <2> QED BY <1>1, <1>2, <2>1, <2>2, <2>3 DEF SeedScript, SeedPerms, SeedFind, SeedAccount,
         SeedStops, SeedAgain, SyncPermissions
<1>3. ASSUME NEW r \in Roles, NEW n \in AllNames, CreateRole(r, n) PROVE Kept
  <2>1. ~rq'.calm
    BY <1>0, <1>3, Disturbed DEF CreateRole
  <2>2. name[r] = NoRole
    BY <1>0, <1>3 DEF CreateRole, Tables
  <2>3. \A m \in accounts : RoleName(m)' = RoleName(m)
    BY <1>0, <1>3, <2>2 DEF CreateRole, RoleName, Tables
  <2> QED BY <2>1, <2>3
<1>4. ASSUME NEW r \in Roles, NEW n \in AllNames, UpdateRole(r, n) PROVE Kept
  <2>1. ~rq'.calm
    BY <1>0, <1>4, Changed DEF UpdateRole
  <2>2. \A m \in accounts : roleOf[m] = r \/ RoleName(m)' = RoleName(m)
    BY <1>0, <1>4 DEF UpdateRole, RoleName, Tables
  <2>3. \A m \in accounts : roleOf[m] = r => \A t \in Given : owner[t[1]] = m => t \in stale'
    BY <1>0, <1>4 DEF UpdateRole, RoleChanges, Given
  <2> QED BY <2>1, <2>2, <2>3
<1>5. ASSUME NEW r \in Roles, RemoveRole(r) PROVE Kept
  <2>1. ~rq'.calm
    BY <1>0, <1>5, Changed DEF RemoveRole
  <2>2. \A m \in accounts : roleOf[m] = r \/ RoleName(m)' = RoleName(m)
    BY <1>0, <1>5 DEF RemoveRole, RoleName, Tables
  <2>3. \A m \in accounts : roleOf[m] = r => \A t \in Given : owner[t[1]] = m => t \in stale'
    BY <1>0, <1>5 DEF RemoveRole, RoleChanges, Given
  <2> QED BY <2>1, <2>2, <2>3
<1>6. ASSUME NEW q \in Assigns, Assignment(q) PROVE Kept
  <2>1. CASE Commit(q)
    <3>1. ~rq'.calm
      BY <1>0, <2>1, Disturbed DEF Commit
    <3> QED BY <2>1, <3>1 DEF Commit, RoleName
  <2> QED BY <1>1, <1>6, <2>1 DEF Assignment, Begin, Delete, Rollback
<1>7. ASSUME NEW m \in Members, TeamAdmin(m) PROVE Kept
  <2>1. ASSUME NEW r \in Roles, CreateMember(m, r) PROVE Kept
    <3>1. \A x \in accounts : roleOf'[x] = roleOf[x]
      BY <1>0, <2>1 DEF CreateMember, Tables
    <3> QED BY <2>1, <3>1 DEF CreateMember, RoleName, PermsOf, Named
  <2>2. ASSUME NEW r \in Roles, UpdateMember(m, r) PROVE Kept
    <3>1. ~rq'.calm
      BY <1>0, <2>2, Changed DEF UpdateMember
    <3>2. \A x \in accounts : x = m \/ RoleName(x)' = RoleName(x)
      BY <1>0, <2>2 DEF UpdateMember, RoleName, Tables
    <3>3. \A t \in Given : owner[t[1]] = m => t \in stale'
      BY <2>2 DEF UpdateMember, RoleChanges, Given
    <3> QED BY <3>1, <3>2, <3>3
  <2> QED BY <1>1, <1>7, <2>1, <2>2 DEF TeamAdmin, Ban, BanRow, BanSessions, BanFails
<1>8. ASSUME NEW s \in Sessions, Session(s) PROVE Kept
  BY <1>1, <1>8 DEF Session, Login, Refresh, Logout
<1>9. ASSUME NEW t \in Tokens, Token(t) PROVE Kept
  BY <1>1, <1>9 DEF Token, CreateSession, Rotate, FlightFails, ExpireToken, Validate
<1>10. CASE Guard \/ Answer \/ UNCHANGED vars
  BY <1>1, <1>10 DEF Guard, Answer, vars
<1> QED BY <1>2, <1>3, <1>4, <1>5, <1>6, <1>7, <1>8, <1>9, <1>10 DEF Next, RoleAdmin

\* A step of an administrator or of the seed keeps what is fresh.
LEMMA FreshKept ==
  ASSUME Consistent, Fresh, [Next]_vars,
         UNCHANGED <<owner, live, logins, refreshes, tokens>>,
         accounts \subseteq accounts', stale \subseteq stale',
         rq' = rq \/ ~rq'.calm
  PROVE  Fresh'
<1>0. /\ Processes /\ Placed /\ rq \in Requests
      /\ \A s \in Sessions : owner[s] # NoMember => owner[s] \in accounts
      /\ \A t \in Given \ stale : t[2] = RoleName(owner[t[1]])
      /\ NoMember \notin Members
  BY RootAssumption DEF Consistent, Fresh, Processes, Requests
<1>1. \A m \in accounts :
        RoleName(m)' = RoleName(m) \/
        (~rq'.calm /\ \A t \in Given : owner[t[1]] = m => t \in stale')
  BY <1>0, RolesKept
<1>2. rq'.calm => \A n \in AllNames : PermsOf(n)' = PermsOf(n)
  BY <1>0, RolesKept
<1>3. Given' = Given
  BY DEF Given
<1>4. \A t \in Given : t[1] \in Sessions /\ owner[t[1]] \in accounts
  BY <1>0, RootAssumption DEF Given, Processes, Placed, Tokens
<1>5. \A t \in Given' \ stale' : t[2] = RoleName(owner[t[1]])'
  <2> SUFFICES ASSUME NEW t \in Given, t \notin stale' PROVE t[2] = RoleName(owner[t[1]])'
    BY <1>3
  <2>1. RoleName(owner[t[1]])' = RoleName(owner[t[1]])
    <3> DEFINE m == owner[t[1]]
    <3>1. m \in accounts /\ owner' = owner
      BY <1>4
    <3>2. RoleName(m)' = RoleName(m)
      BY <1>1, <3>1
    <3> QED BY <3>1, <3>2 DEF RoleName
  <2> QED BY <1>0, <2>1
<1>6. ASSUME rq'.calm, rq'.at # "idle"
      PROVE /\ rq'.session \in live' /\ rq'.role = RoleName(owner[rq.session])'
            /\ rq'.at = "handler" => Allowed(rq.role)'
  <2>1. /\ rq' = rq /\ rq.session \in live /\ rq.role = RoleName(owner[rq.session])
        /\ rq.at = "handler" => Allowed(rq.role)
    BY <1>6 DEF Fresh
  <2>2. owner[rq.session] \in accounts
    BY <1>0, <2>1 DEF Placed, Processes
  <2>3. RoleName(owner[rq.session])' = RoleName(owner[rq.session])
    <3> DEFINE m == owner[rq.session]
    <3>1. m \in accounts /\ owner' = owner
      BY <2>2
    <3>2. RoleName(m)' = RoleName(m)
      BY <1>1, <1>6, <3>1
    <3> QED BY <2>1, <3>1, <3>2 DEF RoleName
  <2>4. rq.role # NoRole => PermsOf(rq.role)' = PermsOf(rq.role)
    <3> DEFINE n == rq.role
    <3>1. n # NoRole => n \in AllNames
      BY <1>0 DEF Requests, Held
    <3>2. n # NoRole => PermsOf(n)' = PermsOf(n)
      BY <1>2, <1>6, <3>1
    <3> QED BY <2>1, <3>2 DEF PermsOf, Named
  <2> QED BY <2>1, <2>3, <2>4 DEF Allowed
<1>7. \A s \in Sessions : owner'[s] # NoMember => owner'[s] \in accounts'
  BY <1>0
<1>8. rq'.calm /\ rq'.at # "idle" => rq' = rq
  OBVIOUS
<1> QED BY <1>5, <1>6, <1>7, <1>8 DEF Fresh

\* The steps of sessions, tokens and requests keep it.
LEMMA FreshSession ==
  ASSUME Fresh,
         UNCHANGED <<roleVars, teamVars, grantVars>>,
         \A s \in Sessions :
           owner'[s] = owner[s] \/ (owner[s] = NoMember /\ owner'[s] \in accounts),
         \A t \in Given' \ stale' :
           (t \in Given \ stale /\ owner'[t[1]] = owner[t[1]]) \/ t[2] = RoleName(owner'[t[1]]),
         ~rq'.calm \/ rq'.at = "idle"
         \/ (rq' = rq /\ \A s \in live : s \in live' /\ owner'[s] = owner[s])
  PROVE  Fresh'
<1> USE DEF roleVars, teamVars, grantVars
<1>1. \A s \in Sessions : owner'[s] # NoMember => owner'[s] \in accounts'
  BY DEF Fresh
<1>2. \A t \in Given' \ stale' : t[2] = RoleName(owner[t[1]])'
  BY DEF Fresh, RoleName
<1>3. rq'.calm /\ rq'.at # "idle" =>
        rq'.session \in live' /\ rq'.role = RoleName(owner[rq.session])'
  BY DEF Fresh, RoleName
<1>4. rq'.calm /\ rq'.at = "handler" => Allowed(rq.role)'
  BY DEF Fresh, Allowed, PermsOf, Named
<1> QED BY <1>1, <1>2, <1>3, <1>4 DEF Fresh

\* Freshness is kept by every step.
LEMMA FreshStep == Consistent /\ Fresh /\ [Next]_vars => Fresh'
<1> SUFFICES ASSUME Consistent, Fresh, [Next]_vars PROVE Fresh'
  OBVIOUS
<1> USE DEF sessionVars, assignVars, seedVars
<1>0. /\ Processes /\ Tables /\ Placed /\ rq \in Requests /\ NoMember \notin Members
      /\ accounts \subseteq Members
  BY RootAssumption DEF Consistent, Processes, Tables, Requests
<1>1. CASE SeedScript \/ SyncPermissions
  <2>1. rq' = rq \/ ~rq'.calm
    BY <1>0, <1>1, Disturbed DEF SeedScript, SeedPerms, SeedRoles, SeedFind, SeedLinks,
                                 SeedUser, SeedAccount, SeedStops, SeedAgain,
                                 SyncPermissions
  <2>2. /\ UNCHANGED <<owner, live, logins, refreshes, tokens, stale>>
        /\ accounts \subseteq accounts'
    BY <1>1 DEF SeedScript, SeedPerms, SeedRoles, SeedFind, SeedLinks, SeedUser,
                SeedAccount, SeedStops, SeedAgain, SyncPermissions, teamVars
  <2> QED BY <2>1, <2>2, FreshKept
<1>2. ASSUME NEW r \in Roles,
             RemoveRole(r) \/ \E n \in AllNames : CreateRole(r, n) \/ UpdateRole(r, n)
      PROVE Fresh'
  <2>1. ~rq'.calm
    BY <1>0, <1>2, Disturbed, Changed DEF CreateRole, UpdateRole, RemoveRole
  <2>2. /\ UNCHANGED <<owner, live, logins, refreshes, tokens>>
        /\ accounts \subseteq accounts' /\ stale \subseteq stale'
    BY <1>2 DEF CreateRole, UpdateRole, RemoveRole, RoleChanges, teamVars
  <2> QED BY <2>1, <2>2, FreshKept
<1>3. ASSUME NEW q \in Assigns, Assignment(q) PROVE Fresh'
  <2>1. rq' = rq \/ ~rq'.calm
    BY <1>0, <1>3, Disturbed DEF Assignment, Begin, Delete, Commit, Rollback
  <2>2. UNCHANGED <<owner, live, logins, refreshes, tokens, stale, accounts>>
    BY <1>3 DEF Assignment, Begin, Delete, Commit, Rollback, teamVars
  <2> QED BY <2>1, <2>2, FreshKept
<1>4. ASSUME NEW m \in Members, TeamAdmin(m) PROVE Fresh'
  <2>1. CASE BanSessions(m)
    <3>1. ~rq'.calm
      BY <1>0, <2>1, Disturbed DEF BanSessions
    <3> QED BY <2>1, <3>1, FreshSession DEF BanSessions, Given
  <2>2. CASE ~BanSessions(m)
    <3>1. rq' = rq \/ ~rq'.calm
      BY <1>0, <1>4, <2>2, Changed DEF TeamAdmin, CreateMember, UpdateMember, Ban, BanRow,
         BanFails
    <3>2. /\ UNCHANGED <<owner, live, logins, refreshes, tokens>>
          /\ accounts \subseteq accounts' /\ stale \subseteq stale'
      BY <1>4, <2>2 DEF TeamAdmin, CreateMember, UpdateMember, Ban, BanRow, BanFails,
                        RoleChanges, teamVars
    <3> QED BY <3>1, <3>2, FreshKept
  <2> QED BY <2>1, <2>2
<1>5. ASSUME NEW s \in Sessions, NEW m \in Members, Login(s, m) PROVE Fresh'
  <2>1. /\ owner[s] = NoMember /\ owner' = [owner EXCEPT ![s] = m] /\ m \in accounts
        /\ Given' = Given \cup {<<s, RoleName(m)>>}
        /\ UNCHANGED <<live, stale, rq, roleVars, teamVars, grantVars>>
    BY <1>5 DEF Login, Given
  <2>2. \A x \in Sessions : owner'[x] = IF x = s THEN m ELSE owner[x]
    BY <1>0, <2>1 DEF Processes
  <2>3. \A t \in Given : t[1] \in Sessions /\ t[1] # s
    BY <1>0, <2>1 DEF Placed, Given, Processes, Tokens
  <2>4. \A x \in live : x \in Sessions /\ x # s
    BY <1>0, <2>1 DEF Placed, Processes
  <2> QED BY <2>1, <2>2, <2>3, <2>4, FreshSession
<1>6. ASSUME NEW s \in Sessions, Refresh(s) PROVE Fresh'
  <2> DEFINE t == <<s, RoleName(owner[s])>>
  <2>1. /\ Given' = Given \cup {t}
        /\ stale' = IF t \in Given THEN stale ELSE stale \ {t}
        /\ UNCHANGED <<owner, live, rq, roleVars, teamVars, grantVars>>
    BY <1>6 DEF Refresh, Given
  <2>2. t[2] = RoleName(owner[t[1]])
    OBVIOUS
  <2> HIDE DEF t
  <2> QED BY <2>1, <2>2, FreshSession
<1>7. ASSUME NEW s \in Sessions, Logout(s) PROVE Fresh'
  <2>1. ~rq'.calm
    BY <1>0, <1>7, Disturbed DEF Logout
  <2> QED BY <1>7, <2>1, FreshSession DEF Logout, Given
<1>8. ASSUME NEW t \in Tokens,
             CreateSession(t) \/ Rotate(t) \/ FlightFails(t) \/ ExpireToken(t)
      PROVE Fresh'
  <2>1. /\ Given' \subseteq Given /\ live \subseteq live'
        /\ UNCHANGED <<owner, stale, rq, roleVars, teamVars, grantVars>>
    BY <1>8 DEF CreateSession, Rotate, FlightFails, ExpireToken, Given
  <2> QED BY <2>1, FreshSession
<1>9. ASSUME NEW t \in Tokens, Validate(t) PROVE Fresh'
  <2>1. /\ t \in Given /\ t[1] \in live
        /\ UNCHANGED <<sessionVars, roleVars, teamVars, grantVars>>
        /\ rq'.at = "guard" /\ rq'.session = t[1] /\ (rq'.calm => t \notin stale)
        /\ rq'.role = IF t[2] = NoRole THEN RoleName(owner[t[1]]) ELSE t[2]
    BY <1>9 DEF Validate, Given
  <2>2. rq'.calm => rq'.role = RoleName(owner[t[1]])
    BY <2>1 DEF Fresh
  <2> QED BY <2>1, <2>2 DEF Fresh, Given, RoleName, roleVars, teamVars
<1>10. CASE Guard
  <2>1. UNCHANGED <<sessionVars, roleVars, teamVars, grantVars>> /\ rq.at = "guard"
    BY <1>10 DEF Guard
  <2>2. CASE rq' = Idle
    BY <2>1, <2>2, FreshSession DEF Idle, Given
  <2>3. CASE rq' # Idle
    <3>1. rq' = [rq EXCEPT !.at = "handler"] /\ Allowed(rq.role)
      BY <1>10, <2>3 DEF Guard, Allowed
    <3>2. rq'.session = rq.session /\ rq'.role = rq.role /\ rq'.calm = rq.calm
      BY <1>0, <3>1 DEF Requests
    <3> QED BY <2>1, <3>1, <3>2 DEF Fresh, Given, RoleName, Allowed, PermsOf, Named,
               roleVars, teamVars, grantVars
  <2> QED BY <2>2, <2>3
<1>11. CASE Answer
  BY <1>11, FreshSession DEF Answer, Idle, Given
<1>12. CASE UNCHANGED vars
  BY <1>12, FreshSession DEF vars, Given
<1> QED
  BY <1>1, <1>2, <1>3, <1>4, <1>5, <1>6, <1>7, <1>8, <1>9, <1>10, <1>11, <1>12 DEF Next,
     RoleAdmin, Session, Token

\* A handler runs only for a member whose role permits it now, unless that changed
\* after the token was read or while the guards ran, for any roles and members, with
\* logins, refreshes, bans, assignments and the seed at any point in between.
THEOREM RolesDecide == Spec => []AllowedByRole
<1>1. Init => Fresh
  BY DEF Init, Fresh, Given, Idle
<1>2. Fresh => AllowedByRole
  BY DEF Fresh, Allowed, AllowedByRole
<1> QED BY <1>1, <1>2, FreshStep, AlwaysConsistent, PTL DEF Spec
-----------------------------------------------------------------------------

\* What the seed gives to any role.
SeedRights == UNION {Seeded[n] : n \in SeededNames}

\* At most one assignment to each role is under way.
OneAtATime ==
  \A q, k \in Assigns : tx[q] # "idle" /\ tx[k] # "idle" /\ on[q] = on[k] => q = k

\* A role has what its last assignment gave it, and else only rights of the seed; an
\* assignment under way knows of all the rows it has to take away.
Replaced ==
  /\ \A r \in Roles : grants[r] \subseteq last[r] \cup SeedRights
  /\ \A q \in Assigns : tx[q] # "idle" => grants[on[q]] \subseteq snap[q] \cup SeedRights

\* A right that was taken from a role is gone when assignments to it come one after
\* another, whenever the seed ran: only the rights of the seed can come back.
\* Overlapping assignments are the one way in which a role keeps rights that none
\* of its last assignment and the seed gives it.
THEOREM SerialAssignmentsReplace ==
  Spec /\ []OneAtATime => [](\A r \in Roles : grants[r] \subseteq last[r] \cup SeedRights)
<1>1. Init => Replaced
  BY DEF Init, Replaced
<1>2. Consistent /\ Replaced /\ OneAtATime /\ OneAtATime' /\ [Next]_vars => Replaced'
  <2> SUFFICES ASSUME Consistent, Replaced, OneAtATime, OneAtATime', [Next]_vars
               PROVE  Replaced'
    OBVIOUS
  <2>0. Processes /\ Tables /\ Placed
    BY DEF Consistent
  <2> USE DEF roleVars, teamVars, sessionVars, assignVars, grantVars, seedVars
  <2>1. CASE UNCHANGED <<assignVars, grantVars>>
    BY <2>1 DEF Replaced
  <2>2. CASE SeedScript \/ SyncPermissions
    <3>1. CASE SeedLinks
      <4>1. \A r \in Roles : grants'[r] \subseteq grants[r] \cup SeedRights
        BY <3>1 DEF SeedLinks, SeedRights
      <4>2. UNCHANGED <<last, tx, on, snap>>
        BY <3>1 DEF SeedLinks
      <4> QED BY <2>0, <4>1, <4>2 DEF Replaced, Placed
    <3> QED BY <2>1, <2>2, <3>1 DEF SeedScript, SeedPerms, SeedRoles, SeedFind, SeedUser,
                                    SeedAccount, SeedStops, SeedAgain, SyncPermissions
  <2>3. ASSUME NEW r \in Roles,
               RemoveRole(r) \/ \E n \in AllNames : CreateRole(r, n) \/ UpdateRole(r, n)
        PROVE Replaced'
    <3>1. CASE RemoveRole(r)
      <4>1. /\ grants' = [grants EXCEPT ![r] = {}] /\ last' = [last EXCEPT ![r] = {}]
            /\ UNCHANGED assignVars
        BY <3>1 DEF RemoveRole
      <4> QED BY <2>0, <4>1 DEF Replaced, Tables, Placed
    <3> QED BY <2>1, <2>3, <3>1 DEF CreateRole, UpdateRole
  <2>4. ASSUME NEW q \in Assigns, Assignment(q) PROVE Replaced'
    <3>1. ASSUME NEW r \in Roles, NEW P \in SUBSET Perms, Begin(q, r, P) PROVE Replaced'
      BY <2>0, <3>1 DEF Begin, Replaced, Processes
    <3>2. CASE Delete(q)
      BY <2>0, <3>2 DEF Delete, Replaced, Processes
    <3>3. CASE Commit(q)
      <4>1. on[q] \in Roles /\ tx[q] # "idle"
        BY <2>0, <3>3 DEF Commit, Placed
      <4>2. /\ grants' = [grants EXCEPT ![on[q]] = (grants[on[q]] \ snap[q]) \cup chosen[q]]
            /\ last' = [last EXCEPT ![on[q]] = chosen[q]]
        BY <3>3 DEF Commit
      <4>3. /\ tx'[q] = "idle"
            /\ \A k \in Assigns : k # q => tx'[k] = tx[k] /\ on'[k] = on[k]
            /\ \A k \in Assigns : k # q /\ on[k] # on[q] => snap'[k] = snap[k]
        BY <2>0, <3>3 DEF Commit, Ended, Processes
      <4>4. \A k \in Assigns : k # q /\ tx[k] # "idle" => on[k] # on[q] /\ on[k] \in Roles
        BY <2>0, <4>1 DEF OneAtATime, Placed
      <4>5. \A r \in Roles : grants'[r] \subseteq last'[r] \cup SeedRights
        BY <2>0, <4>1, <4>2 DEF Replaced, Tables
      <4>6. \A k \in Assigns : tx'[k] # "idle" => grants'[on'[k]] \subseteq snap'[k] \cup SeedRights
        <5> SUFFICES ASSUME NEW k \in Assigns, tx'[k] # "idle"
                     PROVE  grants'[on'[k]] \subseteq snap'[k] \cup SeedRights
          OBVIOUS
        <5>1. k # q /\ tx[k] # "idle" /\ on'[k] = on[k]
          BY <4>3
        <5>2. on[k] # on[q] /\ on[k] \in Roles /\ snap'[k] = snap[k]
          BY <4>3, <4>4, <5>1
        <5>3. grants'[on[k]] = grants[on[k]]
          BY <2>0, <4>2, <5>2 DEF Tables
        <5> QED BY <5>1, <5>2, <5>3 DEF Replaced
      <4> QED BY <4>5, <4>6 DEF Replaced
    <3>4. CASE Rollback(q)
      <4>1. /\ tx'[q] = "idle"
            /\ \A k \in Assigns : k # q => tx'[k] = tx[k] /\ on'[k] = on[k] /\ snap'[k] = snap[k]
            /\ UNCHANGED grantVars
        BY <2>0, <3>4 DEF Rollback, Ended, Processes
      <4> QED BY <4>1 DEF Replaced
    <3> QED BY <2>4, <3>1, <3>2, <3>3, <3>4 DEF Assignment
  <2>5. ASSUME NEW m \in Members, TeamAdmin(m) PROVE Replaced'
    BY <2>1, <2>5 DEF TeamAdmin, CreateMember, UpdateMember, Ban, BanRow, BanSessions,
       BanFails
  <2>6. ASSUME NEW s \in Sessions, Session(s) PROVE Replaced'
    BY <2>1, <2>6 DEF Session, Login, Refresh, Logout
  <2>7. ASSUME NEW t \in Tokens, Token(t) PROVE Replaced'
    BY <2>1, <2>7 DEF Token, CreateSession, Rotate, FlightFails, ExpireToken, Validate
  <2>8. CASE Guard \/ Answer \/ UNCHANGED vars
    BY <2>1, <2>8 DEF Guard, Answer, vars
  <2> QED BY <2>2, <2>3, <2>4, <2>5, <2>6, <2>7, <2>8 DEF Next, RoleAdmin
<1>3. Replaced => \A r \in Roles : grants[r] \subseteq last[r] \cup SeedRights
  BY DEF Replaced
<1> QED BY <1>1, <1>2, <1>3, AlwaysConsistent, PTL DEF Spec

-----------------------------------------------------------------------------

\* The ban of m is through, and no session of m is there or about to be created.
Shut(m) ==
  m \in banned /\ banning[m] = {} /\ live \cap SessionsOf(m) = {} /\ Coming(m) = {}

\* The guards take up no request of m.
Unheard(m) == Shut(m) /\ rq.at = "idle" /\ rq'.at # "idle" => owner[rq'.session] # m

\* A member who is shut out stays so: no refresh that was under way, no token that
\* has not expired and no change of roles lets the guards take up a request again.
\* Only a login that had read the profile can outlive both statements of a ban.
THEOREM BanIsFinal ==
  ASSUME NEW m \in Members
  PROVE  Spec => [](Shut(m) => []Shut(m)) /\ [][Unheard(m)]_vars
<1>1. Consistent /\ Shut(m) /\ [Next]_vars => Shut(m)' /\ Unheard(m)
  <2> SUFFICES ASSUME Consistent, Shut(m), [Next]_vars PROVE Shut(m)' /\ Unheard(m)
    OBVIOUS
  <2>0. Processes /\ Tables /\ m # NoMember
    BY RootAssumption DEF Consistent
  <2> USE DEF roleVars, teamVars, sessionVars, assignVars, grantVars, seedVars, Shut,
              SessionsOf, Coming, Unheard
  <2>1. CASE UNCHANGED <<owner, live, logins, banned, banning>> /\ rq'.at = rq.at
    BY <2>1
  <2>2. rq \in Requests /\ ([rq EXCEPT !.calm = FALSE]).at = rq.at
    BY <2>0 DEF Processes, Requests
  <2>3. CASE SeedScript \/ SyncPermissions
    BY <2>1, <2>2, <2>3 DEF SeedScript, SeedPerms, SeedRoles, SeedFind, SeedLinks,
                            SeedUser, SeedAccount, SeedStops, SeedAgain, SyncPermissions,
                            Disturb
  <2>4. ASSUME NEW r \in Roles,
               RemoveRole(r) \/ \E n \in AllNames : CreateRole(r, n) \/ UpdateRole(r, n)
        PROVE Shut(m)' /\ Unheard(m)
    BY <2>1, <2>2, <2>4 DEF CreateRole, UpdateRole, RemoveRole, RoleChanges, Disturb
  <2>5. ASSUME NEW q \in Assigns, Assignment(q) PROVE Shut(m)' /\ Unheard(m)
    BY <2>1, <2>2, <2>5 DEF Assignment, Begin, Delete, Commit, Rollback, Disturb
  <2>6. ASSUME NEW x \in Members, TeamAdmin(x) PROVE Shut(m)' /\ Unheard(m)
    <3>1. ASSUME NEW r \in Roles, CreateMember(x, r) \/ UpdateMember(x, r)
          PROVE Shut(m)' /\ Unheard(m)
      BY <2>1, <2>2, <3>1 DEF CreateMember, UpdateMember, RoleChanges, Disturb
    <3>2. CASE Ban(x) \/ BanRow(x) \/ BanFails(x)
      BY <2>0, <3>2 DEF Ban, BanRow, BanFails, Processes
    <3>3. CASE BanSessions(x)
      BY <2>0, <2>2, <3>3 DEF BanSessions, Processes, Disturb
    <3> QED BY <2>6, <3>1, <3>2, <3>3 DEF TeamAdmin
  <2>7. ASSUME NEW s \in Sessions, Session(s) PROVE Shut(m)' /\ Unheard(m)
    <3>1. ASSUME NEW x \in Members, Login(s, x) PROVE Shut(m)' /\ Unheard(m)
      BY <2>0, <3>1 DEF Login, Processes
    <3>2. CASE Refresh(s)
      BY <2>1, <3>2 DEF Refresh
    <3>3. CASE Logout(s)
      BY <2>2, <3>3 DEF Logout, Disturb
    <3> QED BY <2>7, <3>1, <3>2, <3>3 DEF Session
  <2>8. ASSUME NEW t \in Tokens, Token(t) PROVE Shut(m)' /\ Unheard(m)
    <3>1. t[1] \in Sessions
      BY DEF Tokens
    <3>2. CASE CreateSession(t) \/ FlightFails(t)
      BY <3>1, <3>2 DEF CreateSession, FlightFails
    <3>3. CASE Rotate(t) \/ ExpireToken(t)
      BY <2>1, <3>3 DEF Rotate, ExpireToken
    <3>4. CASE Validate(t)
      BY <2>0, <3>1, <3>4 DEF Validate
    <3> QED BY <2>8, <3>2, <3>3, <3>4 DEF Token
  <2>9. CASE Guard \/ Answer
    <3>1. UNCHANGED <<owner, live, logins, banned, banning>> /\ rq.at # "idle"
      BY <2>9 DEF Guard, Answer
    <3> QED BY <3>1
  <2>10. CASE UNCHANGED vars
    BY <2>1, <2>10 DEF vars
  <2> QED BY <2>3, <2>4, <2>5, <2>6, <2>7, <2>8, <2>9, <2>10 DEF Next, RoleAdmin
<1>2. Consistent /\ Shut(m) /\ [Next]_vars => Shut(m)'
  BY <1>1
<1>3. Consistent /\ [Next]_vars => [Unheard(m)]_vars
  BY <1>1 DEF Unheard
<1> QED BY <1>2, <1>3, AlwaysConsistent, PTL DEF Spec

\* No login of a member who is being banned has read the profile and not yet
\* created its session.
BanMeetsNoLogin == \A m \in Members : banning[m] # {} => Coming(m) = {}

\* Neither statement of a ban fails: each step of one is what the statement does.
BanSucceeds == \A m \in Members : BanFails(m) => BanRow(m) \/ BanSessions(m)

\* What the two parallel statements of ban come to when both succeed and no login is
\* met: a banned member has no session, whichever of them comes first and whatever
\* refreshes, logouts and role changes are under way.
THEOREM UnmetBansReachAll ==
  Spec /\ []BanMeetsNoLogin /\ [][BanSucceeds]_vars
    => [](\A m \in banned : banning[m] = {} => live \cap SessionsOf(m) = {})
<1> DEFINE Clean == raced = {} /\ \A m \in Members :
                      banning[m] = {"row"} => live \cap SessionsOf(m) = {}
<1>1. Init => Clean
  BY DEF Init
<1>2. Consistent /\ Clean /\ BanMeetsNoLogin /\ [Next]_vars /\ [BanSucceeds]_vars => Clean'
  <2> SUFFICES ASSUME Consistent, Clean, BanMeetsNoLogin, [Next]_vars, [BanSucceeds]_vars
               PROVE  Clean'
    OBVIOUS
  <2>0. Processes /\ Placed /\ \A m \in Members : m # NoMember
    BY RootAssumption DEF Consistent
  <2> USE DEF roleVars, teamVars, sessionVars, assignVars, grantVars, seedVars, SessionsOf
  <2>1. CASE UNCHANGED <<owner, live, banning, raced>>
    BY <2>1
  <2>2. CASE UNCHANGED vars
    BY <2>1, <2>2 DEF vars
  <2>3. CASE SeedScript \/ SyncPermissions
    BY <2>1, <2>3 DEF SeedScript, SeedPerms, SeedRoles, SeedFind, SeedLinks, SeedUser,
                      SeedAccount, SeedStops, SeedAgain, SyncPermissions
  <2>4. ASSUME NEW r \in Roles,
               RemoveRole(r) \/ \E n \in AllNames : CreateRole(r, n) \/ UpdateRole(r, n)
        PROVE Clean'
    BY <2>1, <2>4 DEF CreateRole, UpdateRole, RemoveRole
  <2>5. ASSUME NEW q \in Assigns, Assignment(q) PROVE Clean'
    BY <2>1, <2>5 DEF Assignment, Begin, Delete, Commit, Rollback
  <2>6. ASSUME NEW m \in Members, TeamAdmin(m) PROVE Clean'
    <3>1. ASSUME NEW r \in Roles, CreateMember(m, r) \/ UpdateMember(m, r) PROVE Clean'
      BY <2>1, <3>1 DEF CreateMember, UpdateMember
    <3>2. CASE Ban(m)
      BY <2>0, <3>2 DEF Ban, Processes
    <3>3. CASE BanRow(m)
      <4>1. Coming(m) = {} /\ banning[m] \in SUBSET {"row", "sessions"}
        BY <2>0, <3>3 DEF BanRow, BanMeetsNoLogin, Processes
      <4>2. "sessions" \notin banning[m] => banning[m] = {"row"}
        BY <3>3, <4>1 DEF BanRow
      <4> QED BY <2>0, <3>3, <4>1, <4>2 DEF BanRow, Processes
    <3>4. CASE BanSessions(m)
      <4>1. Coming(m) = {}
        BY <2>0, <3>4 DEF BanSessions, BanMeetsNoLogin
      <4> QED BY <2>0, <3>4, <4>1 DEF BanSessions, Processes
    <3>5. CASE BanFails(m)
      BY <2>2, <3>3, <3>4, <3>5 DEF BanSucceeds
    <3> QED BY <2>6, <3>1, <3>2, <3>3, <3>4, <3>5 DEF TeamAdmin
  <2>7. ASSUME NEW s \in Sessions, Session(s) PROVE Clean'
    <3>1. ASSUME NEW m \in Members, Login(s, m) PROVE Clean'
      <4>1. s \notin live
        BY <2>0, <3>1 DEF Login, Placed
      <4> QED BY <2>0, <3>1, <4>1 DEF Login, Processes
    <3>2. CASE Refresh(s)
      BY <2>1, <3>2 DEF Refresh
    <3>3. CASE Logout(s)
      BY <3>3 DEF Logout
    <3> QED BY <2>7, <3>1, <3>2, <3>3 DEF Session
  <2>8. ASSUME NEW t \in Tokens, Token(t) PROVE Clean'
    <3>1. CASE CreateSession(t)
      <4>1. \A m \in Members : t[1] \in SessionsOf(m) => banning[m] = {}
        BY <3>1 DEF CreateSession, BanMeetsNoLogin, Coming
      <4> QED BY <3>1, <4>1 DEF CreateSession
    <3> QED BY <2>1, <2>8, <3>1 DEF Token, Rotate, FlightFails, ExpireToken, Validate
  <2>9. CASE Guard \/ Answer
    BY <2>1, <2>9 DEF Guard, Answer
  <2> QED BY <2>2, <2>3, <2>4, <2>5, <2>6, <2>7, <2>8, <2>9 DEF Next, RoleAdmin
<1>3. Clean /\ BannedUnlessRaced
        => \A m \in banned : banning[m] = {} => live \cap SessionsOf(m) = {}
  BY DEF BannedUnlessRaced
<1> QED BY <1>1, <1>2, <1>3, AlwaysConsistent, BanReaches, PTL DEF Spec
=============================================================================
