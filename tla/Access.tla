-------------------------------- MODULE Access --------------------------------
(***************************************************************************)
(* Who may act on a scope: the SCIM directory and the principals it        *)
(* derives (refract-server/src/scim.rs, refract-storage/src/provisioning.  *)
(* rs, identities.rs), direct provisioning and managed keys (identity_api. *)
(* rs), browser sign-in (browser.rs, sessions.rs), the authorisation of    *)
(* every request (lib.rs, security.rs) and its quota (controls.rs).        *)
(* Requests of all scopes interleave between their database calls; each    *)
(* directory change is one transaction under the directory's row lock.     *)
(***************************************************************************)
EXTENDS Integers, Sequences, FiniteSets, SequencesExt, FiniteSetsExt

CONSTANTS
  Scopes, Subjects, Logins, Requests,
  UserIds, GroupIds, KeyIds,  \* ids the server generates: [Scopes -> set], disjoint
  StaticKeys,   \* configured API keys: set of [scope, role]
  GroupNames,   \* display names, distinct whatever their case
  GroupRoles,   \* REFRACT_SCIM_GROUP_ROLES: [SUBSET GroupNames -> Roles]
  Patches,      \* sequences of patch operations a client may send
  Grants,       \* [role, enabled] of PUT principals
  KeyRoles,     \* roles of POST keys
  MaxUsers, MaxGroups, \* 10000 and 10000
  Limit,        \* requests per minute
  MaxMinute, MaxCalls, \* bounds of the clock and of counted requests
  None

Roles == {"reader", "writer", "admin"}
Users == [subject : Subjects, active : BOOLEAN]
Groups == [name : GroupNames, members : SUBSET UNION Range(UserIds)]
Identity == [scope : Scopes, role : Roles]
Keys == [scope : Scopes, role : Roles, revoked : BOOLEAN, expired : BOOLEAN]
Principals == [scope : Scopes, role : Roles, enabled : BOOLEAN]

ASSUME AccessConstants ==
  /\ StaticKeys \subseteq Identity
  /\ Grants \subseteq [role : Roles, enabled : BOOLEAN] /\ KeyRoles \subseteq Roles
  /\ GroupRoles \in UNION {[N -> Roles] : N \in SUBSET GroupNames}
  /\ None \notin Principals \union Identity \union Subjects \union Logins
  /\ Limit \in Nat \ {0} /\ MaxMinute \in Nat /\ MaxCalls \in Nat

VARIABLES
  users,      \* [Scopes -> partial function UserIds -> Users]
  groups,     \* [Scopes -> partial function GroupIds -> Groups]
  principals, \* [Subjects -> row or None], shared by all scopes
  direct,     \* subjects whose row PUT principals wrote last
  keys,       \* managed keys: partial function of ids to rows
  logins,     \* [Logins -> absent, pending or consumed]
  sessions,   \* browser_sessions: set of [login, by, subject, scope]
  job,        \* per request: what it does
  bucket,     \* the rate bucket of one actor: minute and count
  quota       \* of that actor: the clock, the requests under way, what was allowed

dvars == <<users, groups, principals, direct>>
svars == <<keys, logins, sessions>>
qvars == <<bucket, quota>>
vars == <<dvars, svars, job, qvars>>

NoJob == [pc |-> "idle", who |-> None, login |-> None, subject |-> None]

-----------------------------------------------------------------------------
\* The directory as a value: what validate() and patched() accept and produce.

\* externalId is unique in the directory and immutable; userName stands with it.
UserOK(us, id, v) ==
  /\ \A o \in DOMAIN us \ {id} : us[o].subject # v.subject
  /\ id \in DOMAIN us => us[id].subject = v.subject

\* displayName is unique, members are provisioned users.
GroupOK(us, gs, id, v) ==
  /\ \A o \in DOMAIN gs \ {id} : gs[o].name # v.name
  /\ v.members \subseteq DOMAIN us

\* One patch operation on a user or a group; a removed attribute takes the
\* default validate() gives it. Anything else is refused.
UserPatched(v, o) ==
  CASE v = None -> None
    [] o.path = "active" -> [v EXCEPT !.active = IF o.op = "remove" THEN TRUE ELSE o.value]
    [] o.path = "externalId" /\ o.op # "remove" -> [v EXCEPT !.subject = o.value]
    [] OTHER -> None
GroupPatched(v, o) ==
  CASE v = None -> None
    [] o.path = "members" /\ o.op = "add" -> [v EXCEPT !.members = @ \union o.value]
    [] o.path = "members" /\ o.op = "replace" -> [v EXCEPT !.members = o.value]
    [] o.path = "members" /\ o.op = "remove" -> [v EXCEPT !.members = {}]
    [] o.path = "member" /\ o.op = "remove" -> [v EXCEPT !.members = @ \ o.value]
    [] o.path = "displayName" /\ o.op # "remove" -> [v EXCEPT !.name = o.value]
    [] OTHER -> None

\* patched(): the operations in order on a copy; one refused refuses all.
PatchedUser(v, patch) == FoldLeft(UserPatched, v, patch)
PatchedGroup(v, patch) == FoldLeft(GroupPatched, v, patch)

\* The values a client may put at an id: a resource of its own (create,
\* replace), or a patch of what is there, which validate() looks at again.
UserInputs(us, id) ==
  Users \union (IF id \in DOMAIN us
                THEN {PatchedUser(us[id], p) : p \in Patches} \intersect Users ELSE {})
GroupInputs(gs, id) ==
  Groups \union (IF id \in DOMAIN gs
                 THEN {PatchedGroup(gs[id], p) : p \in Patches} \intersect Groups ELSE {})

Without(f, id) == [x \in DOMAIN f \ {id} |-> f[x]]
With(f, id, v) == [x \in DOMAIN f \union {id} |-> IF x = id THEN v ELSE f[x]]

\* Fault: a deleted user stays a member of its groups.
MembersLeft(gs, id) == gs

\* delete() of a user also removes it from every group.
MembersWithout(gs, id) ==
  [g \in DOMAIN gs |-> [gs[g] EXCEPT !.members = @ \ {id}]]

-----------------------------------------------------------------------------
\* update_directory(): principals follow the directory in its transaction.

Level == [reader |-> 1, writer |-> 2, admin |-> 3]
RankOf(name) == IF name \in DOMAIN GroupRoles THEN Level[GroupRoles[name]] ELSE 0

\* The highest mapped role wins. A user in no group gets 1 if no mapping is
\* configured; a user in any group gets what its groups have, which without
\* mappings is 0.
Rank(gs, id) ==
  LET of == {g \in DOMAIN gs : id \in gs[g].members}
  IN  IF of = {} THEN (IF DOMAIN GroupRoles = {} THEN 1 ELSE 0)
      ELSE Max({RankOf(gs[g].name) : g \in of})

Derived(sc, us, gs, id) ==
  [scope |-> sc,
   role |-> CASE Rank(gs, id) = 3 -> "admin" [] Rank(gs, id) = 2 -> "writer"
              [] OTHER -> "reader",
   enabled |-> us[id].active /\ Rank(gs, id) > 0]

\* ON CONFLICT(issuer, subject) DO UPDATE ... WHERE the row is of this scope.
OwnOrNew(sc, s) == principals[s] # None => principals[s].scope = sc

\* Fault: users taken out of the directory keep their row as it was.
NothingRemoved(sc, us) == {}

\* The subjects of users that were in the directory and are not any more.
RemovedSubjects(sc, us) ==
  {users[sc][u].subject : u \in DOMAIN users[sc]} \ {us[u].subject : u \in DOMAIN us}

\* The transaction: one subject of another scope rolls back all of it.
Update(sc, us, gs) ==
  LET subjects == {us[u].subject : u \in DOMAIN us}
      UserOf(s) == CHOOSE u \in DOMAIN us : us[u].subject = s
      removed == {s \in RemovedSubjects(sc, us) :
                    principals[s] # None /\ principals[s].scope = sc}
  IN  /\ Cardinality(DOMAIN us) <= MaxUsers /\ Cardinality(DOMAIN gs) <= MaxGroups
      /\ \A s \in subjects : OwnOrNew(sc, s)
      /\ users' = [users EXCEPT ![sc] = us]
      /\ groups' = [groups EXCEPT ![sc] = gs]
      /\ principals' = [s \in Subjects |->
           IF s \in subjects THEN Derived(sc, us, gs, UserOf(s))
           ELSE IF s \in removed THEN [principals[s] EXCEPT !.enabled = FALSE]
           ELSE principals[s]]
      /\ direct' = direct \ (subjects \union removed)
      /\ UNCHANGED svars

\* POST and PUT/PATCH on Users and Groups; DELETE.
PutUser(sc) ==
  \E id \in UserIds[sc] : \E v \in UserInputs(users[sc], id) :
    /\ UserOK(users[sc], id, v)
    /\ Update(sc, With(users[sc], id, v), groups[sc])
PutGroup(sc) ==
  \E id \in GroupIds[sc] : \E v \in GroupInputs(groups[sc], id) :
    /\ GroupOK(users[sc], groups[sc], id, v)
    /\ Update(sc, users[sc], With(groups[sc], id, v))
DeleteUser(sc) ==
  \E id \in DOMAIN users[sc] :
    Update(sc, Without(users[sc], id), MembersWithout(groups[sc], id))
DeleteGroup(sc) ==
  \E id \in DOMAIN groups[sc] :
    Update(sc, users[sc], Without(groups[sc], id))

\* PUT /v1/admin/principals: an upsert of one row, of this scope or new.
Provision(sc) ==
  \E s \in Subjects, g \in Grants :
    /\ OwnOrNew(sc, s)
    /\ principals' = [principals EXCEPT
         ![s] = [scope |-> sc, role |-> g.role, enabled |-> g.enabled]]
    /\ direct' = direct \union {s}
    /\ UNCHANGED <<users, groups, svars>>

NewKey(sc, role) == [scope |-> sc, role |-> role, revoked |-> FALSE, expired |-> FALSE]

CreateKey(sc) ==
  \E k \in KeyIds[sc] \ DOMAIN keys, role \in KeyRoles :
    /\ keys' = With(keys, k, NewKey(sc, role))
    /\ UNCHANGED <<dvars, logins, sessions>>

\* Fault: the row is found by its id alone.
RevocableById(k, sc) == TRUE

\* UPDATE ... SET revoked=1 WHERE id and scope.
Revocable(k, sc) == keys[k].scope = sc
RevokeKey(sc) ==
  \E k \in DOMAIN keys :
    /\ Revocable(k, sc)
    /\ keys' = [keys EXCEPT ![k].revoked = TRUE]
    /\ UNCHANGED <<dvars, logins, sessions>>

\* 1 to 365 days pass: an expired key resolves no more than a revoked one.
ExpireKey ==
  /\ \E k \in DOMAIN keys : keys' = [keys EXCEPT ![k].expired = TRUE]
  /\ UNCHANGED <<dvars, logins, sessions, job, qvars>>

-----------------------------------------------------------------------------
\* authorize(): identity, then the quota, then the role, then the handler.

Enabled(s) == principals[s] # None /\ principals[s].enabled

\* authenticate_store(): a static key, a managed key or a token's subject.
IdentityOf(s) == [scope |-> principals[s].scope, role |-> principals[s].role]
Credentials ==
  StaticKeys \union {[scope |-> keys[k].scope, role |-> keys[k].role] :
                       k \in {x \in DOMAIN keys : ~keys[x].revoked /\ ~keys[x].expired}}
             \union {IdentityOf(s) : s \in {x \in Subjects : Enabled(x)}}

Enter(r, who) ==
  /\ job[r].pc = "idle"
  /\ job' = [job EXCEPT ![r] = [NoJob EXCEPT !.pc = "authorized", !.who = who]]

Authenticate(r) ==
  /\ \E who \in Credentials : Enter(r, who)
  /\ UNCHANGED <<dvars, svars, qvars>>

\* browser::authenticate: a session of a disabled principal, or of one that is
\* not of the session's scope, is deleted; otherwise the token's subject enters.
UseSession(r) ==
  \E s \in sessions :
    /\ IF Enabled(s.subject) /\ principals[s.subject].scope = s.scope
       THEN Enter(r, IdentityOf(s.subject)) /\ UNCHANGED sessions
       ELSE job[r].pc = "idle" /\ sessions' = sessions \ {s} /\ UNCHANGED job
    /\ UNCHANGED <<dvars, keys, logins, qvars>>

\* Every operation of this module is under /v1/admin/ or /scim/: 403 for others.
MayAdminister(who) == who.role = "admin"

\* The handler runs with the identity read at the start of the request.
Handle(r) ==
  /\ job[r].pc = "authorized" /\ MayAdminister(job[r].who)
  /\ LET sc == job[r].who.scope
     IN  \/ PutUser(sc) \/ PutGroup(sc) \/ DeleteUser(sc) \/ DeleteGroup(sc)
         \/ Provision(sc) \/ CreateKey(sc) \/ RevokeKey(sc)
  /\ job' = [job EXCEPT ![r] = NoJob]
  /\ UNCHANGED qvars

\* 429, 403, a read, a refused change, or a process that dies: nothing written.
Answer(r) ==
  /\ job[r].pc # "idle"
  /\ job' = [job EXCEPT ![r] = NoJob]
  /\ UNCHANGED <<dvars, svars, qvars>>

-----------------------------------------------------------------------------
\* Browser sign-in.

StartLogin(l) ==
  /\ logins[l] = "absent"
  /\ logins' = [logins EXCEPT ![l] = "pending"]
  /\ UNCHANGED <<dvars, keys, sessions, job, qvars>>

\* Ten minutes pass: the row is deleted by the next start.
ExpireLogin(l) ==
  /\ logins[l] = "pending"
  /\ logins' = [logins EXCEPT ![l] = "consumed"]
  /\ UNCHANGED <<dvars, keys, sessions, job, qvars>>

\* Fault: the row is read, and deleted only once the session exists.
StillThere(l) == logins[l] # "absent"

\* DELETE ... RETURNING: one callback gets the row.
Consumable(l) == logins[l] = "pending"
Consume(r, l) ==
  /\ job[r].pc = "idle" /\ Consumable(l)
  /\ logins' = [logins EXCEPT ![l] = "consumed"]
  /\ job' = [job EXCEPT ![r] = [NoJob EXCEPT !.pc = "exchange", !.login = l]]
  /\ UNCHANGED <<dvars, keys, sessions, qvars>>

\* The issuer names a subject; resolve_subject finds its scope.
Resolve(r) ==
  /\ job[r].pc = "exchange"
  /\ \E s \in {x \in Subjects : Enabled(x)} :
       job' = [job EXCEPT ![r].pc = "session", ![r].subject = s, ![r].who = IdentityOf(s)]
  /\ UNCHANGED <<dvars, svars, qvars>>

\* The session is inserted; the one of the cookie the browser had is deleted.
CreateSession(r) ==
  /\ job[r].pc = "session"
  /\ \E old \in SUBSET sessions :
       /\ Cardinality(old) <= 1
       /\ sessions' = (sessions \ old) \union
            {[login |-> job[r].login, by |-> r, subject |-> job[r].subject,
              scope |-> job[r].who.scope]}
  /\ job' = [job EXCEPT ![r] = NoJob]
  /\ UNCHANGED <<dvars, keys, logins, qvars>>

Logout(s) ==
  /\ sessions' = sessions \ {s}
  /\ UNCHANGED <<dvars, keys, logins, job, qvars>>

-----------------------------------------------------------------------------
\* allow_request(): the minute is read, then one upsert counts the request.

NewQuota == [now |-> 0, waiting |-> [m \in 0..MaxMinute |-> 0],
             allowed |-> [m \in 0..MaxMinute |-> 0],
             returns |-> [m \in 0..MaxMinute |-> 0], calls |-> 0]

NextMinute ==
  /\ quota.now < MaxMinute
  /\ quota' = [quota EXCEPT !.now = @ + 1]
  /\ UNCHANGED <<dvars, svars, job, bucket>>

ReadMinute ==
  /\ quota.calls < MaxCalls
  /\ quota' = [quota EXCEPT !.calls = @ + 1, !.waiting[quota.now] = @ + 1]
  /\ UNCHANGED <<dvars, svars, job, bucket>>

\* Fault: the limit is compared before the request is counted.
AllowedBefore(count) == count - 1 <= Limit

Allowed(count) == count <= Limit

\* A minute other than the row's starts a count of its own, a later one or one
\* the bucket has left: the ghost field returns counts the latter.
CountRequest ==
  \E m \in {x \in 0..MaxMinute : quota.waiting[x] > 0} :
    LET count == IF bucket.minute = m THEN bucket.count + 1 ELSE 1
    IN  /\ bucket' = [minute |-> m, count |-> count]
        /\ quota' = [quota EXCEPT
             !.waiting[m] = @ - 1,
             !.allowed[m] = IF Allowed(count) THEN @ + 1 ELSE @,
             !.returns[m] = IF bucket.minute # m /\ quota.allowed[m] > 0 THEN @ + 1 ELSE @]
        /\ UNCHANGED <<dvars, svars, job>>

\* expire_rate_buckets: rows of minutes before the last two.
ExpireBucket ==
  /\ bucket.minute # -1 /\ bucket.minute < quota.now - 2
  /\ bucket' = [minute |-> -1, count |-> 0]
  /\ UNCHANGED <<dvars, svars, job, quota>>

-----------------------------------------------------------------------------
Init ==
  /\ users = [sc \in Scopes |-> << >>] /\ groups = [sc \in Scopes |-> << >>]
  /\ principals = [s \in Subjects |-> None] /\ direct = {}
  /\ keys = << >>
  /\ logins = [l \in Logins |-> "absent"] /\ sessions = {}
  /\ job = [r \in Requests |-> NoJob]
  /\ bucket = [minute |-> -1, count |-> 0]
  /\ quota = NewQuota

Next ==
  \/ \E r \in Requests :
       \/ Authenticate(r) \/ UseSession(r) \/ Handle(r) \/ Answer(r)
       \/ \E l \in Logins : Consume(r, l)
       \/ Resolve(r) \/ CreateSession(r)
  \/ \E l \in Logins : StartLogin(l) \/ ExpireLogin(l)
  \/ ExpireKey
  \/ \E s \in sessions : Logout(s)
  \/ NextMinute \/ ReadMinute \/ CountRequest \/ ExpireBucket

Spec == Init /\ [][Next]_vars

-----------------------------------------------------------------------------
\* Properties.

TypeOK ==
  /\ \A sc \in Scopes :
       /\ DOMAIN users[sc] \subseteq UserIds[sc]
       /\ \A u \in DOMAIN users[sc] : users[sc][u] \in Users
       /\ DOMAIN groups[sc] \subseteq GroupIds[sc]
       /\ \A g \in DOMAIN groups[sc] : groups[sc][g] \in Groups
  /\ principals \in [Subjects -> Principals \union {None}]
  /\ Range(keys) \subseteq Keys
  /\ sessions \subseteq [login : Logins, by : Requests, subject : Subjects, scope : Scopes]

\* Every directory stays a directory through any sequence of creates, patches
\* and deletes: members are users of it, names and subjects are unique.
DirectoryIntact ==
  \A sc \in Scopes :
    /\ \A g \in DOMAIN groups[sc] : groups[sc][g].members \subseteq DOMAIN users[sc]
    /\ \A u, o \in DOMAIN users[sc] : users[sc][u].subject = users[sc][o].subject => u = o
    /\ \A g, o \in DOMAIN groups[sc] : groups[sc][g].name = groups[sc][o].name => g = o

\* Directory changes and authorization bindings commit together: every subject
\* not provisioned directly since has the role and the access its directory
\* gives it now, and none without a directory entry.
PrincipalsFollowDirectory ==
  \A s \in Subjects \ direct :
    /\ \A sc \in Scopes : \A u \in DOMAIN users[sc] :
         users[sc][u].subject = s
           => principals[s] = Derived(sc, users[sc], groups[sc], u)
    /\ Enabled(s) => \E u \in DOMAIN users[principals[s].scope] :
                       users[principals[s].scope][u].subject = s

\* A subject belongs to one scope: however sign-ins overlap with provisioning,
\* a session is of the scope its subject has, and one sign-in gives one.
SessionsInScope ==
  /\ \A s \in sessions :
       principals[s.subject] # None /\ principals[s.subject].scope = s.scope
  /\ \A s, t \in sessions : s.login = t.login => s = t

\* What a scope holds changes only through a request of an administrator of
\* that scope: a principal's row, a key that is issued, a key that is revoked.
\* No principal and no key changes scope, no key changes role, and a key once
\* revoked or expired stays so; expiry alone needs no administrator.
ScopesApart ==
  [][LET admins == {job[r].who.scope : r \in {x \in Requests :
           job[x].pc = "authorized" /\ job[x].who.role = "admin" /\ job'[x] = NoJob}}
     IN  /\ \A s \in Subjects : principals'[s] # principals[s] =>
              /\ principals'[s].scope \in admins
              /\ principals[s] # None => principals'[s].scope = principals[s].scope
         /\ \A k \in DOMAIN keys' \ DOMAIN keys : keys'[k].scope \in admins
         /\ \A k \in DOMAIN keys :
              /\ k \in DOMAIN keys'
              /\ keys'[k].scope = keys[k].scope /\ keys'[k].role = keys[k].role
              /\ keys[k].revoked => keys'[k].revoked
              /\ keys[k].expired => keys'[k].expired
              /\ keys'[k].revoked => keys[k].revoked \/ keys[k].scope \in admins]_vars

\* In a minute an actor gets at most the limit, and as much again for every
\* time its bucket was taken by another minute's request and came back. Without
\* such a return, which replicas with different clocks or a request delayed
\* over the minute's end cause, the quota is that of the minute.
QuotaPerMinute ==
  \A m \in 0..MaxMinute : quota.allowed[m] <= Limit * (1 + quota.returns[m])
==============================================================================
