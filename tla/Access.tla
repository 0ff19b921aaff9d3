------------------------------- MODULE Access -------------------------------
(***************************************************************************)
(* What a team member may do: RoleService, RolePermissionsService,         *)
(* TeamService, the seed and sync scripts that fill the tables, the        *)
(* administrators' part of AuthService and AuthSessionService, and the     *)
(* JwtStrategy and RoleGuard that answer a request from what they find.    *)
(*                                                                         *)
(* An access token is <<s, n>>: the session it names and the role it       *)
(* carries, which the guards believe until it expires.  A role is known to *)
(* the guards by its name, to everything else by its id.  Statements of    *)
(* PostgreSQL run at READ COMMITTED.  Who may send a change is not asked:  *)
(* changes are guarded as every request is.                                *)
(***************************************************************************)
EXTENDS Naturals, FiniteSets

CONSTANTS
  Members,   \* ids of admin_users
  Root,      \* the one the seed creates
  Roles,     \* ids of role; one is never used again
  Names,     \* names of roles besides those of the seed
  Perms,     \* permissions of the code
  Seeded,    \* Seeded[n]: the permissions the seed gives the role named n
  Sessions,  \* ids of admin_sessions; one is never used again
  Assigns,   \* calls of assignPermissionsToRole
  Needed,    \* the permissions a guarded handler asks for
  MaxChanges,\* bound: changes to roles and members
  NoRole, NoMember

SeededNames == DOMAIN Seeded
AllNames    == SeededNames \cup Names
Held        == AllNames \cup {NoRole}  \* a role name, or null
Tokens      == Sessions \X Held

ASSUME RootAssumption == Root \in Members /\ NoMember \notin Members
ASSUME NamesAssumption ==
  /\ "superadmin" \in SeededNames
  /\ NoRole \notin AllNames \cup Roles
  /\ \A n \in SeededNames : Seeded[n] \subseteq Perms
ASSUME NeededAssumption == Needed \subseteq Perms
ASSUME BoundAssumption == MaxChanges \in Nat

VARIABLES
  name,     \* name[r]: NoRole while there is no such row
  used,     \* ids of role that were ever given
  known,    \* the rows of permission
  grants,   \* grants[r]: the permissions role_permission gives to r
  roleOf,   \* roleOf[m]: the roleId of a member, or null
  team,     \* rows of admin_users
  banned,   \* those with the ban
  accounts, \* members with an account, that is a password
  owner,    \* owner[s]: whose session s is, from its login on
  live,     \* rows of admin_sessions
  logins,   \* tokens of logins that have read the profile
  refreshes,\* tokens of refreshes that have
  tokens,   \* access tokens that have not expired
  seed,     \* where the seed script is
  found,    \* found[n]: the id the seed has read for the role named n
  banning,  \* banning[m]: the statements of TeamService.ban to come
  tx, chosen, snap, on, \* a call of assignPermissionsToRole, see below
  rq,       \* a request in the guards or in its handler
  changes,  \* counter of changes, for the bound
  stale,    \* history: tokens read before a change of their owner's role
  raced,    \* history: sessions that may outlive their owner's ban
  crossed,  \* history: calls that overlapped another on their role, or the seed
  mixed,    \* history: roles whose rows a crossed call wrote last, or the seed
  last      \* history: last[r]: what the assignment to r committed last gave

roleVars    == <<name, used, known>>
teamVars    == <<roleOf, team, banned, accounts>>
sessionVars == <<owner, live, logins, refreshes, tokens, stale>>
assignVars  == <<tx, chosen, snap, on, crossed>>
grantVars   == <<grants, mixed, last>>
seedVars    == <<seed, found>>
vars == <<roleVars, teamVars, sessionVars, assignVars, grantVars, seedVars, banning, rq,
          changes, raced>>

-----------------------------------------------------------------------------

\* admin_users LEFT JOIN role.
RoleName(m) == IF roleOf[m] = NoRole THEN NoRole ELSE name[roleOf[m]]

\* role.name is unique.
Named(n) == {r \in Roles : name[r] = n}

\* getPermissionsForRoleName.
PermsOf(n) == UNION {grants[r] : r \in Named(n)}

NotFound == [n \in SeededNames |-> NoRole]

Idle == [at |-> "idle", session |-> NoMember, role |-> NoRole, calm |-> FALSE]

Init ==
  /\ name = [r \in Roles |-> NoRole] /\ used = {}
  /\ known = {}
  /\ grants = [r \in Roles |-> {}]
  /\ roleOf = [m \in Members |-> NoRole]
  /\ team = {} /\ banned = {} /\ accounts = {}
  /\ owner = [s \in Sessions |-> NoMember]
  /\ live = {} /\ logins = {} /\ refreshes = {} /\ tokens = {} /\ stale = {}
  /\ seed = "perms" /\ found = NotFound
  /\ banning = [m \in Members |-> {}]
  /\ tx = [q \in Assigns |-> "idle"]
  /\ chosen = [q \in Assigns |-> {}]
  /\ snap = [q \in Assigns |-> {}]
  /\ on = [q \in Assigns |-> NoRole]
  /\ rq = Idle
  /\ changes = 0
  /\ raced = {}
  /\ crossed = {} /\ mixed = {}
  /\ last = [r \in Roles |-> {}]

-----------------------------------------------------------------------------
(* History: when the role of the members M changes, what their sessions    *)
(* were given or have read is stale; a request under way is not calm.      *)

Change == changes < MaxChanges /\ changes' = changes + 1

Disturb == rq' = [rq EXCEPT !.calm = FALSE]

RoleChanges(M) ==
  /\ stale' = stale \cup {t \in tokens \cup logins \cup refreshes : owner[t[1]] \in M}
  /\ Disturb

-----------------------------------------------------------------------------
(* seedAuthData, statement by statement; each leaves alone what it finds.  *)

SeedPerms ==
  /\ seed = "perms"
  /\ known' = known \cup UNION {Seeded[n] : n \in SeededNames}
  /\ seed' = "roles"
  /\ UNCHANGED <<name, used, teamVars, sessionVars, assignVars, grantVars, found, banning, rq,
                 changes, raced>>

\* INSERT ... ON CONFLICT DO NOTHING: the roles whose names are missing.
SeedRoles ==
  /\ seed = "roles"
  /\ LET missing == {n \in SeededNames : Named(n) = {}}
         F == {f \in [missing -> Roles \ used] : \A n, k \in missing : f[n] = f[k] => n = k}
         f == CHOOSE x \in F : TRUE
     IN /\ F # {}
        /\ name' = [r \in Roles |-> IF \E n \in missing : f[n] = r
                                    THEN CHOOSE n \in missing : f[n] = r ELSE name[r]]
        /\ used' = used \cup {f[n] : n \in missing}
  /\ seed' = "find"
  /\ UNCHANGED <<known, teamVars, sessionVars, assignVars, grantVars, found, banning, rq, changes,
                 raced>>

\* The ids of the roles by their names, one of which may have changed since; and
\* the permissions, none of which is ever removed.
SeedFind ==
  /\ seed = "find"
  /\ found' = [n \in SeededNames |-> IF Named(n) = {} THEN NoRole
                                     ELSE CHOOSE r \in Roles : name[r] = n]
  /\ seed' = "links"
  /\ UNCHANGED <<roleVars, teamVars, sessionVars, assignVars, grantVars, banning, rq, changes,
                 raced>>

\* Links are made to the ids found, which have to be there still; a role that
\* was not found is skipped.
SeedLinks ==
  LET linked == {n \in SeededNames : found[n] # NoRole /\ Seeded[n] # {}}
  IN /\ seed = "links"
     /\ \A n \in linked : name[found[n]] # NoRole
     /\ grants' = [r \in Roles |->
                     grants[r] \cup UNION {Seeded[n] : n \in {k \in linked : found[k] = r}}]
     /\ mixed' = mixed \cup {found[n] : n \in linked}
     /\ crossed' = crossed \cup {q \in Assigns : tx[q] # "idle"}
     /\ Disturb
     /\ seed' = "user"
     /\ UNCHANGED <<roleVars, teamVars, sessionVars, tx, chosen, snap, on, last, found, banning,
                    changes, raced>>

\* Without a superadmin the script throws; a member that is there is left alone.
SeedUser ==
  /\ seed = "user"
  /\ found["superadmin"] # NoRole
  /\ Root \in team \/ name[found["superadmin"]] # NoRole
  /\ team' = team \cup {Root}
  /\ roleOf' = IF Root \in team THEN roleOf ELSE [roleOf EXCEPT ![Root] = found["superadmin"]]
  /\ seed' = IF Root \in team THEN "idle" ELSE "account"
  /\ found' = NotFound
  /\ UNCHANGED <<roleVars, banned, accounts, sessionVars, assignVars, grantVars, banning, rq,
                 changes, raced>>

SeedAccount ==
  /\ seed = "account"
  /\ accounts' = accounts \cup {Root}
  /\ seed' = "idle"
  /\ UNCHANGED <<roleVars, roleOf, team, banned, sessionVars, assignVars, grantVars, found,
                 banning, rq, changes, raced>>

\* The script stops between two statements, or is run again.
SeedStops ==
  /\ seed \notin {"idle", "perms"}
  /\ seed' = "idle"
  /\ found' = NotFound
  /\ UNCHANGED <<roleVars, teamVars, sessionVars, assignVars, grantVars, banning, rq,
                 changes, raced>>

SeedAgain ==
  /\ seed = "idle"
  /\ Change
  /\ seed' = "perms"
  /\ UNCHANGED <<roleVars, teamVars, sessionVars, assignVars, grantVars, found, banning, rq,
                 raced>>

\* sync-permissions.ts.
SyncPermissions ==
  /\ known # Perms
  /\ known' = Perms
  /\ UNCHANGED <<name, used, teamVars, sessionVars, assignVars, grantVars, seedVars, banning, rq,
                 changes, raced>>

-----------------------------------------------------------------------------
(* RoleService.                                                            *)

CreateRole(r, n) ==
  /\ r \notin used /\ Named(n) = {}
  /\ Change
  /\ name' = [name EXCEPT ![r] = n]
  /\ used' = used \cup {r}
  /\ Disturb
  /\ UNCHANGED <<known, teamVars, sessionVars, assignVars, grantVars, seedVars, banning, raced>>

\* update looks for another role of that name among the roles with this id and
\* finds none; the unique index is what refuses a name that is taken.
UpdateRole(r, n) ==
  /\ name[r] \notin {NoRole, n} /\ Named(n) = {}
  /\ Change
  /\ name' = [name EXCEPT ![r] = n]
  /\ RoleChanges({m \in Members : roleOf[m] = r})
  /\ UNCHANGED <<used, known, teamVars, owner, live, logins, refreshes, tokens,
                 assignVars, grantVars, seedVars, banning, raced>>

\* Mutation: roleId is left as it is.
RemoveRoleDangling(r) ==
  /\ name[r] # NoRole
  /\ Change
  /\ name' = [name EXCEPT ![r] = NoRole]
  /\ grants' = [grants EXCEPT ![r] = {}]
  /\ last' = [last EXCEPT ![r] = {}]
  /\ RoleChanges({})
  /\ UNCHANGED <<used, known, teamVars, owner, live, logins, refreshes, tokens, assignVars,
                 mixed, seedVars, banning, raced>>

\* remove: role_permission rows go by cascade, roleId is set to null.
RemoveRole(r) ==
  /\ name[r] # NoRole
  /\ Change
  /\ name' = [name EXCEPT ![r] = NoRole]
  /\ grants' = [grants EXCEPT ![r] = {}]
  /\ last' = [last EXCEPT ![r] = {}]
  /\ roleOf' = [m \in Members |-> IF roleOf[m] = r THEN NoRole ELSE roleOf[m]]
  /\ RoleChanges({m \in Members : roleOf[m] = r})
  /\ UNCHANGED <<used, known, team, banned, accounts, owner, live, logins, refreshes, tokens,
                 assignVars, mixed, seedVars, banning, raced>>

-----------------------------------------------------------------------------
(* assignPermissionsToRole: a transaction of a DELETE and an INSERT.       *)
(* "waiting": the DELETE has its snapshot snap[q], and waits for the rows  *)
(* another transaction has deleted.  "deleted": it holds snap[q].          *)

Begin(q, r, P) ==
  /\ tx[q] = "idle"
  /\ name[r] # NoRole /\ P \subseteq known
  /\ Change
  /\ tx' = [tx EXCEPT ![q] = "waiting"]
  /\ on' = [on EXCEPT ![q] = r]
  /\ chosen' = [chosen EXCEPT ![q] = P]
  /\ snap' = [snap EXCEPT ![q] = grants[r]]
  /\ LET others == {k \in Assigns : on[k] = r}
     IN crossed' = IF others = {} THEN crossed ELSE crossed \cup others \cup {q}
  /\ UNCHANGED <<roleVars, teamVars, sessionVars, grantVars, seedVars, banning, rq, raced>>

Delete(q) ==
  /\ tx[q] = "waiting"
  /\ \A k \in Assigns : on[k] = on[q] /\ tx[k] = "deleted" => snap[k] \cap snap[q] = {}
  /\ tx' = [tx EXCEPT ![q] = "deleted"]
  /\ UNCHANGED <<roleVars, teamVars, sessionVars, chosen, snap, on, crossed, grantVars, seedVars,
                 banning, rq, changes, raced>>

\* The transaction ends; others that wait for the rows R do not see them again.
Ended(q, R) ==
  /\ tx' = [tx EXCEPT ![q] = "idle"]
  /\ on' = [on EXCEPT ![q] = NoRole]
  /\ chosen' = [chosen EXCEPT ![q] = {}]
  /\ crossed' = crossed \ {q}
  /\ snap' = [k \in Assigns |-> IF k = q THEN {}
                                ELSE IF on[k] = on[q] THEN snap[k] \ R ELSE snap[k]]

\* Mutation: the DELETE is left out.
CommitAdding(q) ==
  /\ tx[q] = "deleted"
  /\ name[on[q]] # NoRole
  /\ grants' = [grants EXCEPT ![on[q]] = @ \cup chosen[q]]
  /\ last' = [last EXCEPT ![on[q]] = chosen[q]]
  /\ mixed' = IF q \in crossed THEN mixed \cup {on[q]} ELSE mixed \ {on[q]}
  /\ Ended(q, snap[q])
  /\ Disturb
  /\ UNCHANGED <<roleVars, teamVars, sessionVars, seedVars, banning, changes, raced>>

\* INSERT and COMMIT: the primary key and the reference to role hold.
Commit(q) ==
  /\ tx[q] = "deleted"
  /\ name[on[q]] # NoRole
  /\ chosen[q] \cap (grants[on[q]] \ snap[q]) = {}
  /\ grants' = [grants EXCEPT ![on[q]] = (@ \ snap[q]) \cup chosen[q]]
  /\ last' = [last EXCEPT ![on[q]] = chosen[q]]
  /\ mixed' = IF q \in crossed THEN mixed \cup {on[q]} ELSE mixed \ {on[q]}
  /\ Ended(q, snap[q])
  /\ Disturb
  /\ UNCHANGED <<roleVars, teamVars, sessionVars, seedVars, banning, changes, raced>>

\* The INSERT is refused, or anything else fails.
Rollback(q) ==
  /\ tx[q] # "idle"
  /\ Ended(q, {})
  /\ UNCHANGED <<roleVars, teamVars, sessionVars, grantVars, seedVars, banning, rq, changes, raced>>

-----------------------------------------------------------------------------
(* TeamService.                                                            *)

CreateMember(m, r) ==
  /\ m \notin team /\ name[r] # NoRole
  /\ Change
  /\ team' = team \cup {m}
  /\ accounts' = accounts \cup {m}
  /\ roleOf' = [roleOf EXCEPT ![m] = r]
  /\ UNCHANGED <<roleVars, banned, sessionVars, assignVars, grantVars, seedVars, banning, rq,
                 raced>>

\* update of the role; a new password, written before, leaves sessions as they are.
UpdateMember(m, r) ==
  /\ m \in team /\ name[r] # NoRole /\ roleOf[m] # r
  /\ Change
  /\ roleOf' = [roleOf EXCEPT ![m] = r]
  /\ RoleChanges({m})
  /\ UNCHANGED <<roleVars, team, banned, accounts, owner, live, logins, refreshes, tokens,
                 assignVars, grantVars, seedVars, banning, raced>>

\* ban: UPDATE and DELETE, in parallel.
Ban(m) ==
  /\ m \in team \ banned /\ banning[m] = {}
  /\ Change
  /\ banning' = [banning EXCEPT ![m] = {"row", "sessions"}]
  /\ UNCHANGED <<roleVars, teamVars, sessionVars, assignVars, grantVars, seedVars, rq, raced>>

SessionsOf(m) == {s \in Sessions : owner[s] = m}

\* Sessions whose login has read the profile, and not created them yet.
Coming(m) == {s \in SessionsOf(m) : \E t \in logins : t[1] = s}

BanRow(m) ==
  /\ "row" \in banning[m]
  /\ banning' = [banning EXCEPT ![m] = @ \ {"row"}]
  /\ banned' = banned \cup {m}
  /\ raced' = IF "sessions" \in banning[m] THEN raced
              ELSE raced \cup Coming(m) \cup (live \cap SessionsOf(m))
  /\ UNCHANGED <<roleVars, roleOf, team, accounts, sessionVars, assignVars, grantVars, seedVars, rq,
                 changes>>

BanSessions(m) ==
  /\ "sessions" \in banning[m]
  /\ banning' = [banning EXCEPT ![m] = @ \ {"sessions"}]
  /\ live' = live \ SessionsOf(m)
  /\ raced' = raced \cup Coming(m)
  /\ Disturb
  /\ UNCHANGED <<roleVars, teamVars, owner, logins, refreshes, tokens, stale, assignVars,
                 grantVars, seedVars, changes>>

\* One of the statements fails; the other one is not taken back.
BanFails(m) ==
  /\ \E b \in banning[m] : banning' = [banning EXCEPT ![m] = @ \ {b}]
  /\ raced' = raced \cup SessionsOf(m)
  /\ UNCHANGED <<roleVars, teamVars, sessionVars, assignVars, grantVars, seedVars, rq, changes>>

-----------------------------------------------------------------------------
(* Logins and refreshes of administrators.                                 *)

\* Mutation: the ban is not looked at.
LoginBanned(s, m) ==
  LET t == <<s, RoleName(m)>>
  IN /\ owner[s] = NoMember
     /\ m \in accounts
     /\ owner' = [owner EXCEPT ![s] = m]
     /\ logins' = logins \cup {t}
     /\ UNCHANGED <<roleVars, teamVars, live, refreshes, tokens, stale, assignVars, grantVars,
                    seedVars, banning, rq, changes, raced>>

\* validateEmailLogin ends with the profile, whose ban issueAuthResult looks at.
Login(s, m) ==
  LET t == <<s, RoleName(m)>>
  IN /\ owner[s] = NoMember
     /\ m \in accounts \ banned
     /\ owner' = [owner EXCEPT ![s] = m]
     /\ logins' = logins \cup {t}
     /\ UNCHANGED <<roleVars, teamVars, live, refreshes, tokens, stale, assignVars, grantVars,
                    seedVars, banning, rq, changes, raced>>

\* createSession.
CreateSession(t) ==
  /\ t \in logins
  /\ logins' = logins \ {t}
  /\ tokens' = tokens \cup {t}
  /\ live' = live \cup {t[1]}
  /\ UNCHANGED <<roleVars, teamVars, owner, refreshes, stale, assignVars, grantVars, seedVars,
                 banning, rq, changes, raced>>

\* Mutation: the role of the token before is carried over.
RefreshKeepingRole(s) ==
  /\ s \in live /\ owner[s] \notin banned
  /\ \E t \in tokens :
       /\ t[1] = s
       /\ refreshes' = refreshes \cup {t}
       /\ stale' = stale \ {t}
  /\ UNCHANGED <<roleVars, teamVars, owner, live, logins, tokens, assignVars, grantVars,
                 seedVars, banning, rq, changes, raced>>

\* refreshSession up to the profile.  What it reads is fresh, unless a token
\* with the same role from before a change is still about.
Refresh(s) ==
  LET t == <<s, RoleName(owner[s])>>
  IN /\ s \in live /\ owner[s] \notin banned
     /\ refreshes' = refreshes \cup {t}
     /\ stale' = IF t \in tokens \cup logins \cup refreshes THEN stale ELSE stale \ {t}
     /\ UNCHANGED <<roleVars, teamVars, owner, live, logins, tokens, assignVars, grantVars,
                    seedVars, banning, rq, changes, raced>>

\* rotateSessionTokens: UPDATE by id, of a session that may be gone.
Rotate(t) ==
  /\ t \in refreshes
  /\ refreshes' = refreshes \ {t}
  /\ tokens' = tokens \cup {t}
  /\ UNCHANGED <<roleVars, teamVars, owner, live, logins, stale, assignVars, grantVars, seedVars,
                 banning, rq, changes, raced>>

\* An awaited call of a login or a refresh fails.
FlightFails(t) ==
  /\ t \in logins \cup refreshes
  /\ logins' = logins \ {t}
  /\ refreshes' = refreshes \ {t}
  /\ UNCHANGED <<roleVars, teamVars, owner, live, tokens, stale, assignVars, grantVars, seedVars,
                 banning, rq, changes, raced>>

Logout(s) ==
  /\ s \in live
  /\ live' = live \ {s}
  /\ Disturb
  /\ UNCHANGED <<roleVars, teamVars, owner, logins, refreshes, tokens, stale, assignVars,
                 grantVars, seedVars, banning, changes, raced>>

ExpireToken(t) ==
  /\ t \in tokens
  /\ tokens' = tokens \ {t}
  /\ UNCHANGED <<roleVars, teamVars, owner, live, logins, refreshes, stale, assignVars,
                 grantVars, seedVars, banning, rq, changes, raced>>

-----------------------------------------------------------------------------
(* A request to a handler that asks for the permissions Needed.            *)

\* JwtStrategy.validate: the session is there, and the role is the token's.
Validate(t) ==
  /\ rq = Idle
  /\ t \in tokens /\ t[1] \in live
  /\ rq' = [at |-> "guard", session |-> t[1], calm |-> t \notin stale,
            role |-> IF t[2] = NoRole THEN RoleName(owner[t[1]]) ELSE t[2]]
  /\ UNCHANGED <<roleVars, teamVars, sessionVars, assignVars, grantVars, seedVars, banning, changes,
                 raced>>

\* RoleGuard: the role named superadmin may do everything.
Guard ==
  /\ rq.at = "guard"
  /\ rq' = IF \/ rq.role = "superadmin"
              \/ rq.role # NoRole /\ Needed \subseteq PermsOf(rq.role)
           THEN [rq EXCEPT !.at = "handler"]
           ELSE Idle
  /\ UNCHANGED <<roleVars, teamVars, sessionVars, assignVars, grantVars, seedVars, banning, changes,
                 raced>>

Answer ==
  /\ rq.at = "handler"
  /\ rq' = Idle
  /\ UNCHANGED <<roleVars, teamVars, sessionVars, assignVars, grantVars, seedVars, banning, changes,
                 raced>>

-----------------------------------------------------------------------------

SeedScript ==
  \/ SeedPerms \/ SeedRoles \/ SeedFind \/ SeedLinks \/ SeedUser \/ SeedAccount
  \/ SeedStops \/ SeedAgain

RoleAdmin ==
  \/ SyncPermissions
  \/ \E r \in Roles : RemoveRole(r) \/ (\E n \in AllNames : CreateRole(r, n) \/ UpdateRole(r, n))

Assignment(q) ==
  \/ \E r \in Roles, P \in SUBSET Perms : Begin(q, r, P)
  \/ Delete(q) \/ Commit(q) \/ Rollback(q)

TeamAdmin(m) ==
  \/ \E r \in Roles : CreateMember(m, r) \/ UpdateMember(m, r)
  \/ Ban(m) \/ BanRow(m) \/ BanSessions(m) \/ BanFails(m)

Session(s) == Refresh(s) \/ Logout(s) \/ (\E m \in Members : Login(s, m))

Token(t) == CreateSession(t) \/ Rotate(t) \/ FlightFails(t) \/ ExpireToken(t) \/ Validate(t)

Next ==
  \/ SeedScript \/ RoleAdmin
  \/ \E q \in Assigns : Assignment(q)
  \/ \E m \in Members : TeamAdmin(m)
  \/ \E s \in Sessions : Session(s)
  \/ \E t \in Tokens : Token(t)
  \/ Guard \/ Answer

Spec == Init /\ [][Next]_vars

-----------------------------------------------------------------------------

\* Type correctness, with what the keys of the database guarantee: roles have
\* different names, a roleId names a role, and a role that is not there gives
\* nothing.
TypeOK ==
  /\ name \in [Roles -> Held]
  /\ used \in SUBSET Roles
  /\ known \in SUBSET Perms
  /\ grants \in [Roles -> SUBSET Perms]
  /\ roleOf \in [Members -> Roles \cup {NoRole}]
  /\ team \in SUBSET Members /\ banned \in SUBSET Members /\ accounts \in SUBSET team
  /\ owner \in [Sessions -> Members \cup {NoMember}]
  /\ live \in SUBSET Sessions
  /\ logins \in SUBSET Tokens /\ refreshes \in SUBSET Tokens
  /\ tokens \in SUBSET Tokens /\ stale \in SUBSET Tokens
  /\ seed \in {"perms", "roles", "find", "links", "user", "account", "idle"}
  /\ found \in [SeededNames -> Roles \cup {NoRole}]
  /\ banning \in [Members -> SUBSET {"row", "sessions"}]
  /\ tx \in [Assigns -> {"idle", "waiting", "deleted"}]
  /\ chosen \in [Assigns -> SUBSET Perms]
  /\ snap \in [Assigns -> SUBSET Perms]
  /\ on \in [Assigns -> Roles \cup {NoRole}]
  /\ rq \in [at : {"idle", "guard", "handler"}, session : Sessions \cup {NoMember},
             role : Held, calm : BOOLEAN]
  /\ changes \in 0..MaxChanges
  /\ raced \in SUBSET Sessions
  /\ crossed \in SUBSET Assigns
  /\ mixed \in SUBSET Roles
  /\ last \in [Roles -> SUBSET Perms]
  /\ \A r \in Roles : name[r] # NoRole => r \in used /\ Named(name[r]) = {r}
  /\ \A r \in Roles : name[r] = NoRole => grants[r] = {}
  /\ \A m \in Members : roleOf[m] # NoRole => name[roleOf[m]] # NoRole

\* A handler runs only for a member whose role gives what it asks for, or is
\* the superadmin's, unless that role or what it gives changed after the token
\* was read or while the guards ran: a refresh brings every change.
AllowedByRole ==
  rq.at = "handler" /\ rq.calm =>
    LET m == owner[rq.session]
    IN /\ rq.session \in live
       /\ RoleName(m) = "superadmin" \/ Needed \subseteq PermsOf(RoleName(m))

\* When both statements of a ban are through, none of the member's sessions is
\* left or comes back, except one created across the ban or after half of it.
BannedUnlessRaced ==
  \A m \in banned : banning[m] = {} => live \cap SessionsOf(m) \subseteq raced

\* A role holds all that the last assignment gave it, and nothing else unless
\* that overlapped another or the seed has run since.
AssignedTogether ==
  \A r \in Roles :
    /\ last[r] \subseteq grants[r]
    /\ r \notin mixed => grants[r] = last[r]
=============================================================================
