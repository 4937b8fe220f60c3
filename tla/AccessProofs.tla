----------------------------- MODULE AccessProofs -----------------------------
(***************************************************************************)
(* For any number of scopes, subjects, users, groups, keys, requests and   *)
(* logins, and any limit: the properties Access states. The requests of    *)
(* different scopes meet in the table of principals; what keeps them apart *)
(* is that the subjects of a directory are principals of its scope.        *)
(***************************************************************************)
EXTENDS Access, TLAPS

Jobs == [pc : {"idle", "authorized", "exchange", "session"},
         who : Identity \union {None}, login : Logins \union {None},
         subject : Subjects \union {None}]

\* The shapes of the rows, as far as the arguments below need them.
Rows ==
  /\ DOMAIN users = Scopes /\ DOMAIN groups = Scopes
  /\ principals \in [Subjects -> Principals \union {None}]
  /\ \A k \in DOMAIN keys : keys[k] \in Keys
  /\ logins \in [Logins -> {"absent", "pending", "consumed"}]
  /\ sessions \subseteq [login : Logins, by : Requests, subject : Subjects, scope : Scopes]

\* A request past its authentication carries an identity, one past the login
\* its login, one past the resolution its subject.
Known ==
  /\ job \in [Requests -> Jobs]
  /\ \A r \in Requests :
       /\ job[r].pc \in {"authorized", "session"} => job[r].who \in Identity
       /\ job[r].pc \in {"exchange", "session"} => job[r].login \in Logins
       /\ job[r].pc = "session" => job[r].subject \in Subjects

\* The subjects of a directory are principals of its scope.
Bound ==
  \A sc \in Scopes : \A u \in DOMAIN users[sc] :
    /\ principals[users[sc][u].subject] # None
    /\ principals[users[sc][u].subject].scope = sc

\* A sign-in between its resolution and its session has the scope its subject
\* has; a consumed login belongs to one request or one session.
SignIns ==
  /\ \A r \in Requests : job[r].pc = "session" =>
       /\ principals[job[r].subject] # None
       /\ principals[job[r].subject].scope = job[r].who.scope
  /\ \A r \in Requests : job[r].pc \in {"exchange", "session"} =>
       /\ logins[job[r].login] = "consumed"
       /\ \A s \in sessions : s.login # job[r].login
       /\ \A q \in Requests : job[q].pc \in {"exchange", "session"} /\ q # r
                                => job[q].login # job[r].login
  /\ \A s \in sessions : logins[s.login] = "consumed"

-----------------------------------------------------------------------------
\* What the transactions of Handle write, one lemma per part of the state.

\* A directory as a value: users and groups of their shapes, each member a
\* user, subjects and names unique.
Directory(us, gs) ==
  /\ \A u \in DOMAIN us : us[u] \in Users
  /\ \A g \in DOMAIN gs : gs[g] \in Groups /\ gs[g].members \subseteq DOMAIN us
  /\ \A u, o \in DOMAIN us : us[u].subject = us[o].subject => u = o
  /\ \A g, o \in DOMAIN gs : gs[g].name = gs[o].name => g = o

\* Each change of a directory that passes its checks is a directory.
LEMMA PutUserKeeps ==
  ASSUME NEW us, NEW gs, NEW id, NEW v \in Users, Directory(us, gs), UserOK(us, id, v)
  PROVE  Directory(With(us, id, v), gs)
<1> DEFINE n == With(us, id, v)
<1>1. DOMAIN n = DOMAIN us \union {id} /\ n[id] = v /\ \A x \in DOMAIN us \ {id} : n[x] = us[x]
  BY DEF With
<1> HIDE DEF n
<1>2. Directory(n, gs)
  BY <1>1 DEF Directory, UserOK
<1> QED BY <1>2 DEF n

LEMMA PutGroupKeeps ==
  ASSUME NEW us, NEW gs, NEW id, NEW v \in Groups, Directory(us, gs), GroupOK(us, gs, id, v)
  PROVE  Directory(us, With(gs, id, v))
<1> DEFINE n == With(gs, id, v)
<1>1. DOMAIN n = DOMAIN gs \union {id} /\ n[id] = v /\ \A x \in DOMAIN gs \ {id} : n[x] = gs[x]
  BY DEF With
<1> HIDE DEF n
<1>2. Directory(us, n)
  BY <1>1 DEF Directory, GroupOK
<1> QED BY <1>2 DEF n

LEMMA DeleteUserKeeps ==
  ASSUME NEW us, NEW gs, NEW id, Directory(us, gs)
  PROVE  Directory(Without(us, id), MembersWithout(gs, id))
<1> DEFINE n == Without(us, id)
           m == MembersWithout(gs, id)
<1>1. DOMAIN n = DOMAIN us \ {id} /\ \A x \in DOMAIN us \ {id} : n[x] = us[x]
  BY DEF Without
<1>2. DOMAIN m = DOMAIN gs
  BY DEF MembersWithout
<1>3. ASSUME NEW g \in DOMAIN gs
      PROVE  m[g] \in Groups /\ m[g].name = gs[g].name /\ m[g].members = gs[g].members \ {id}
  <2>1. gs[g] \in Groups
    BY DEF Directory
  <2>2. m[g] = [gs[g] EXCEPT !.members = @ \ {id}]
    BY DEF MembersWithout
  <2> QED BY <2>1, <2>2 DEF Groups
<1> HIDE DEF n, m
<1>4. Directory(n, m)
  BY <1>1, <1>2, <1>3 DEF Directory
<1> QED BY <1>4 DEF n, m

LEMMA DeleteGroupKeeps ==
  ASSUME NEW us, NEW gs, NEW id, Directory(us, gs)
  PROVE  Directory(us, Without(gs, id))
<1> DEFINE n == Without(gs, id)
<1>1. DOMAIN n = DOMAIN gs \ {id} /\ \A x \in DOMAIN gs \ {id} : n[x] = gs[x]
  BY DEF Without
<1> HIDE DEF n
<1>2. Directory(us, n)
  BY <1>1 DEF Directory
<1> QED BY <1>2 DEF n

\* The four operations are updates to a directory.
DirectoryStep(sc) == PutUser(sc) \/ PutGroup(sc) \/ DeleteUser(sc) \/ DeleteGroup(sc)

LEMMA StepIsUpdate ==
  ASSUME NEW sc, DirectoryStep(sc), Directory(users[sc], groups[sc])
  PROVE  \E us, gs : Directory(us, gs) /\ Update(sc, us, gs)
<1>1. ASSUME PutUser(sc) PROVE \E us, gs : Directory(us, gs) /\ Update(sc, us, gs)
  <2>1. PICK id \in UserIds[sc] : \E v \in UserInputs(users[sc], id) :
          /\ UserOK(users[sc], id, v)
          /\ Update(sc, With(users[sc], id, v), groups[sc])
    BY <1>1 DEF PutUser
  <2>2. PICK v \in UserInputs(users[sc], id) :
          /\ UserOK(users[sc], id, v)
          /\ Update(sc, With(users[sc], id, v), groups[sc])
    BY <2>1
  <2>3. v \in Users
    BY <2>2 DEF UserInputs
  <2> QED BY <2>2, <2>3, PutUserKeeps
<1>2. ASSUME PutGroup(sc) PROVE \E us, gs : Directory(us, gs) /\ Update(sc, us, gs)
  <2>1. PICK id \in GroupIds[sc] : \E v \in GroupInputs(groups[sc], id) :
          /\ GroupOK(users[sc], groups[sc], id, v)
          /\ Update(sc, users[sc], With(groups[sc], id, v))
    BY <1>2 DEF PutGroup
  <2>2. PICK v \in GroupInputs(groups[sc], id) :
          /\ GroupOK(users[sc], groups[sc], id, v)
          /\ Update(sc, users[sc], With(groups[sc], id, v))
    BY <2>1
  <2>3. v \in Groups
    BY <2>2 DEF GroupInputs
  <2> QED BY <2>2, <2>3, PutGroupKeeps
<1>3. ASSUME DeleteUser(sc) PROVE \E us, gs : Directory(us, gs) /\ Update(sc, us, gs)
  BY <1>3, DeleteUserKeeps DEF DeleteUser
<1>4. ASSUME DeleteGroup(sc) PROVE \E us, gs : Directory(us, gs) /\ Update(sc, us, gs)
  BY <1>4, DeleteGroupKeeps DEF DeleteGroup
<1> QED BY <1>1, <1>2, <1>3, <1>4 DEF DirectoryStep

Directories == \A sc \in Scopes : Directory(users[sc], groups[sc])

LEMMA DerivedTypes ==
  ASSUME NEW sc \in Scopes, NEW us, NEW gs, Directory(us, gs), NEW u \in DOMAIN us
  PROVE  Derived(sc, us, gs, u) \in Principals /\ Derived(sc, us, gs, u).scope = sc
<1>1. us[u].active \in BOOLEAN
  BY DEF Directory, Users
<1> DEFINE k == Rank(gs, u)
           role == CASE k = 3 -> "admin" [] k = 2 -> "writer" [] OTHER -> "reader"
           e == us[u].active /\ k > 0
<1>2. role \in Roles
  BY DEF Roles
<1>3. e \in BOOLEAN
  OBVIOUS
<1>4. Derived(sc, us, gs, u) = [scope |-> sc, role |-> role, enabled |-> e]
  BY DEF Derived
<1> HIDE DEF role, e
<1> QED BY <1>2, <1>3, <1>4 DEF Principals

\* The rows a directory's subjects lost: of its scope, disabled.
Removed(sc, us, s) ==
  s \in RemovedSubjects(sc, us) /\ principals[s] # None /\ principals[s].scope = sc

LEMMA UpdateWrites ==
  ASSUME Rows, NEW sc, NEW us, NEW gs, Directory(us, gs), Update(sc, us, gs)
  PROVE  /\ DOMAIN users' = Scopes /\ DOMAIN groups' = Scopes
         /\ \A o \in Scopes : /\ users'[o] = IF o = sc THEN us ELSE users[o]
                              /\ groups'[o] = IF o = sc THEN gs ELSE groups[o]
         /\ principals' = [s \in Subjects |-> principals'[s]]
         /\ \A u \in DOMAIN us :
              /\ OwnOrNew(sc, us[u].subject) /\ us[u].subject \notin direct'
              /\ principals'[us[u].subject] = Derived(sc, us, gs, u)
         /\ \A s \in Subjects : (\A u \in DOMAIN us : us[u].subject # s) =>
              /\ Removed(sc, us, s) => principals'[s] = [principals[s] EXCEPT !.enabled = FALSE]
              /\ ~Removed(sc, us, s) =>
                   principals'[s] = principals[s] /\ (s \in direct' <=> s \in direct)
         /\ UNCHANGED svars
<1> DEFINE subjects == {us[u].subject : u \in DOMAIN us}
           UserOf(s) == CHOOSE u \in DOMAIN us : us[u].subject = s
           removed == {s \in RemovedSubjects(sc, us) :
                         principals[s] # None /\ principals[s].scope = sc}
<1>1. /\ \A s \in subjects : OwnOrNew(sc, s)
      /\ users' = [users EXCEPT ![sc] = us]
      /\ groups' = [groups EXCEPT ![sc] = gs]
      /\ principals' = [s \in Subjects |->
           IF s \in subjects THEN Derived(sc, us, gs, UserOf(s))
           ELSE IF s \in removed THEN [principals[s] EXCEPT !.enabled = FALSE]
           ELSE principals[s]]
      /\ direct' = direct \ (subjects \union removed)
      /\ UNCHANGED svars
  BY Zenon DEF Update
<1>2. \A u \in DOMAIN us : us[u].subject \in Subjects /\ UserOf(us[u].subject) = u
  BY DEF Directory, Users
<1>3. \A s : s \in removed <=> Removed(sc, us, s)
  BY DEF Removed
<1>4. \A s : s \in subjects <=> \E u \in DOMAIN us : us[u].subject = s
  OBVIOUS
<1>5. \A u \in DOMAIN us :
        /\ OwnOrNew(sc, us[u].subject) /\ us[u].subject \notin direct'
        /\ principals'[us[u].subject] = Derived(sc, us, gs, u)
  <2> HIDE DEF UserOf, removed
  <2> QED BY <1>1, <1>2
<1> HIDE DEF UserOf, removed, subjects
<1>6. ASSUME NEW s \in Subjects, \A u \in DOMAIN us : us[u].subject # s
      PROVE  /\ Removed(sc, us, s) => principals'[s] = [principals[s] EXCEPT !.enabled = FALSE]
             /\ ~Removed(sc, us, s) =>
                  principals'[s] = principals[s] /\ (s \in direct' <=> s \in direct)
  <2>1. s \notin subjects
    BY <1>4, <1>6
  <2> QED BY <1>1, <1>3, <2>1
<1>7. DOMAIN users' = Scopes /\ DOMAIN groups' = Scopes
      /\ principals' = [s \in Subjects |-> principals'[s]]
  BY <1>1 DEF Rows
<1>8. \A o \in Scopes : /\ users'[o] = IF o = sc THEN us ELSE users[o]
                        /\ groups'[o] = IF o = sc THEN gs ELSE groups[o]
  BY <1>1 DEF Rows
<1> QED BY <1>1, <1>5, <1>6, <1>7, <1>8

\* The scope of a principal never changes, and only rows of the administrator's
\* scope are written.
ScopeKept(sc) ==
  \A s \in Subjects :
    /\ principals[s] # None => principals'[s] # None /\ principals'[s].scope = principals[s].scope
    /\ principals'[s] # principals[s] => principals'[s] # None /\ principals'[s].scope = sc

LEMMA UpdatePrincipals ==
  ASSUME Rows, NEW sc \in Scopes, NEW us, NEW gs, Directory(us, gs), Update(sc, us, gs)
  PROVE  principals' \in [Subjects -> Principals \union {None}] /\ ScopeKept(sc)
<1>1. /\ \A u \in DOMAIN us : /\ OwnOrNew(sc, us[u].subject)
                              /\ principals'[us[u].subject] = Derived(sc, us, gs, u)
      /\ \A s \in Subjects : (\A u \in DOMAIN us : us[u].subject # s) =>
           /\ Removed(sc, us, s) => principals'[s] = [principals[s] EXCEPT !.enabled = FALSE]
           /\ ~Removed(sc, us, s) => principals'[s] = principals[s]
  BY UpdateWrites
<1>2. principals' = [s \in Subjects |-> principals'[s]]
  BY UpdateWrites
<1>3. ASSUME NEW s \in Subjects
      PROVE  /\ principals'[s] \in Principals \union {None}
             /\ principals[s] # None => principals'[s] # None /\ principals'[s].scope = principals[s].scope
             /\ principals'[s] # principals[s] => principals'[s] # None /\ principals'[s].scope = sc
  <2>0. None \notin Principals /\ principals[s] \in Principals \union {None}
    BY AccessConstants DEF Rows
  <2>1. ASSUME NEW u \in DOMAIN us, us[u].subject = s
        PROVE  /\ principals'[s] \in Principals /\ principals'[s].scope = sc
               /\ principals[s] # None => principals[s].scope = sc
    BY <1>1, <2>1, DerivedTypes DEF OwnOrNew
  <2>2. CASE Removed(sc, us, s) /\ \A u \in DOMAIN us : us[u].subject # s
    <3>1. principals[s] \in Principals /\ principals[s].scope = sc
      BY <2>0, <2>2 DEF Removed
    <3>2. principals'[s] = [principals[s] EXCEPT !.enabled = FALSE]
      BY <1>1, <2>2
    <3>3. principals'[s] \in Principals /\ principals'[s].scope = sc
      BY <3>1, <3>2 DEF Principals
    <3> QED BY <2>0, <3>1, <3>3
  <2>3. CASE ~Removed(sc, us, s) /\ \A u \in DOMAIN us : us[u].subject # s
    <3>1. principals'[s] = principals[s]
      BY <1>1, <2>3
    <3> QED BY <2>0, <3>1
  <2> QED BY <2>0, <2>1, <2>2, <2>3
<1>4. principals' \in [Subjects -> Principals \union {None}]
  BY <1>2, <1>3
<1> QED BY <1>3, <1>4 DEF ScopeKept

\* Provisioning one row directly.
LEMMA ProvisionPrincipals ==
  ASSUME Rows, NEW sc \in Scopes, Provision(sc)
  PROVE  principals' \in [Subjects -> Principals \union {None}] /\ ScopeKept(sc)
<1>0. PICK s \in Subjects, g \in Grants :
        /\ OwnOrNew(sc, s)
        /\ principals' = [principals EXCEPT
             ![s] = [scope |-> sc, role |-> g.role, enabled |-> g.enabled]]
  BY DEF Provision
<1> DEFINE row == [scope |-> sc, role |-> g.role, enabled |-> g.enabled]
<1>1. row \in Principals /\ row.scope = sc
  BY AccessConstants DEF Principals
<1>2. principals \in [Subjects -> Principals \union {None}] /\ None \notin Principals
  BY AccessConstants DEF Rows
<1>3. principals' = [principals EXCEPT ![s] = row]
  BY <1>0
<1> HIDE DEF row
<1>4. principals' \in [Subjects -> Principals \union {None}]
  BY <1>1, <1>2, <1>3
<1>5. ScopeKept(sc)
  BY <1>0, <1>1, <1>2, <1>3 DEF ScopeKept, OwnOrNew
<1> QED BY <1>4, <1>5

-----------------------------------------------------------------------------
\* Principals follow the directories, through updates of any scope.

LEMMA UnchangedFollow ==
  ASSUME PrincipalsFollowDirectory, UNCHANGED dvars PROVE PrincipalsFollowDirectory'
<1>1. users' = users /\ groups' = groups /\ principals' = principals /\ direct' = direct
  BY DEF dvars
<1> SUFFICES ASSUME NEW x \in Subjects \ direct'
             PROVE  /\ \A o \in Scopes : \A u \in DOMAIN users'[o] :
                         users'[o][u].subject = x
                           => principals'[x] = Derived(o, users'[o], groups'[o], u)
                    /\ Enabled(x)' => \E u \in DOMAIN users'[principals'[x].scope] :
                                        users'[principals'[x].scope][u].subject = x
  BY DEF PrincipalsFollowDirectory
<1>2. Enabled(x)' => Enabled(x)
  BY <1>1 DEF Enabled
<1> QED BY <1>1, <1>2 DEF PrincipalsFollowDirectory

LEMMA UpdateKeeps ==
  ASSUME Rows, Directories, Bound, PrincipalsFollowDirectory,
         NEW sc \in Scopes, NEW us, NEW gs, Directory(us, gs), Update(sc, us, gs)
  PROVE  Directories' /\ Bound' /\ PrincipalsFollowDirectory'
<1>0. None \notin Principals /\ principals \in [Subjects -> Principals \union {None}]
  BY AccessConstants DEF Rows
<1>1. \A o \in Scopes : /\ users'[o] = IF o = sc THEN us ELSE users[o]
                        /\ groups'[o] = IF o = sc THEN gs ELSE groups[o]
  BY UpdateWrites
<1>2. \A u \in DOMAIN us :
        /\ us[u].subject \in Subjects
        /\ OwnOrNew(sc, us[u].subject) /\ us[u].subject \notin direct'
        /\ principals'[us[u].subject] = Derived(sc, us, gs, u)
        /\ Derived(sc, us, gs, u) # None /\ Derived(sc, us, gs, u).scope = sc
  <2>1. \A u \in DOMAIN us : us[u].subject \in Subjects
    BY DEF Directory, Users
  <2>2. \A u \in DOMAIN us : Derived(sc, us, gs, u) \in Principals /\ Derived(sc, us, gs, u).scope = sc
    BY DerivedTypes
  <2>3. \A u \in DOMAIN us :
          /\ OwnOrNew(sc, us[u].subject) /\ us[u].subject \notin direct'
          /\ principals'[us[u].subject] = Derived(sc, us, gs, u)
    BY UpdateWrites
  <2> QED BY <1>0, <2>1, <2>2, <2>3
<1>3. \A s \in Subjects : (\A u \in DOMAIN us : us[u].subject # s) =>
        /\ Removed(sc, us, s) => principals'[s] = [principals[s] EXCEPT !.enabled = FALSE]
        /\ ~Removed(sc, us, s) =>
             principals'[s] = principals[s] /\ (s \in direct' <=> s \in direct)
  BY UpdateWrites
<1>4. ScopeKept(sc)
  BY UpdatePrincipals
<1>5. Directories'
  BY <1>1 DEF Directories, Directory, Users, Groups
<1>6. \A o \in Scopes : \A u \in DOMAIN users[o] : users[o][u].subject \in Subjects
  BY DEF Directories, Directory, Users
<1>7. Bound'
  BY <1>1, <1>2, <1>4, <1>6 DEF Bound, ScopeKept
<1>8. ASSUME NEW s \in Subjects, s \notin direct'
      PROVE  /\ \A o \in Scopes : \A u \in DOMAIN users'[o] :
                  users'[o][u].subject = s
                    => principals'[s] = Derived(o, users'[o], groups'[o], u)
             /\ Enabled(s)' => \E u \in DOMAIN users'[principals'[s].scope] :
                                 users'[principals'[s].scope][u].subject = s
  <2>1. ASSUME NEW v \in DOMAIN us, us[v].subject = s
        PROVE  /\ \A o \in Scopes : \A u \in DOMAIN users'[o] :
                    users'[o][u].subject = s
                      => principals'[s] = Derived(o, users'[o], groups'[o], u)
               /\ \E u \in DOMAIN users'[principals'[s].scope] :
                    users'[principals'[s].scope][u].subject = s
    <3>1. principals'[s].scope = sc
      BY <1>2, <2>1
    <3>2. \A o \in Scopes : \A u \in DOMAIN users'[o] : users'[o][u].subject = s => o = sc
      BY <1>7, <3>1 DEF Bound
    <3>3. users'[sc] = us /\ groups'[sc] = gs
      BY <1>1
    <3> QED BY <1>2, <2>1, <3>1, <3>2, <3>3
  <2>2. CASE Removed(sc, us, s) /\ \A u \in DOMAIN us : us[u].subject # s
    <3>1. principals[s] \in Principals /\ principals[s].scope = sc
      BY <1>0, <2>2 DEF Removed
    <3>2. principals'[s] = [principals[s] EXCEPT !.enabled = FALSE]
      BY <1>3, <2>2
    <3>3. principals'[s].scope = sc /\ ~principals'[s].enabled
      BY <3>1, <3>2 DEF Principals
    <3>4. \A o \in Scopes : \A u \in DOMAIN users'[o] : users'[o][u].subject = s => o = sc
      BY <1>7, <3>3 DEF Bound
    <3> QED BY <1>1, <2>2, <3>3, <3>4 DEF Enabled
  <2>3. CASE ~Removed(sc, us, s) /\ \A u \in DOMAIN us : us[u].subject # s
    <3>1. principals'[s] = principals[s] /\ s \notin direct
      BY <1>3, <1>8, <2>3
    <3>2. \A o \in Scopes \ {sc} : users'[o] = users[o] /\ groups'[o] = groups[o]
      BY <1>1
    <3>3. users'[sc] = us
      BY <1>1
    <3>4. ASSUME NEW o \in Scopes, NEW u \in DOMAIN users'[o], users'[o][u].subject = s
          PROVE  principals'[s] = Derived(o, users'[o], groups'[o], u)
      <4>1. o # sc
        BY <2>3, <3>3, <3>4
      <4> QED BY <3>1, <3>2, <3>4, <4>1 DEF PrincipalsFollowDirectory
    <3>5. ASSUME Enabled(s)'
          PROVE  \E u \in DOMAIN users'[principals'[s].scope] :
                   users'[principals'[s].scope][u].subject = s
      <4>1. Enabled(s) /\ principals[s].scope \in Scopes /\ principals[s] # None
        BY <1>0, <3>1, <3>5 DEF Enabled, Principals
      <4>2. PICK u \in DOMAIN users[principals[s].scope] :
              users[principals[s].scope][u].subject = s
        BY <3>1, <4>1 DEF PrincipalsFollowDirectory
      <4>3. principals[s].scope # sc
        <5> SUFFICES ASSUME principals[s].scope = sc PROVE FALSE
          OBVIOUS
        <5>1. s \in RemovedSubjects(sc, us)
          BY <2>3, <4>2 DEF RemovedSubjects
        <5> QED BY <2>3, <4>1, <5>1 DEF Removed
      <4> QED BY <3>1, <3>2, <4>1, <4>2, <4>3
    <3> QED BY <3>4, <3>5
  <2> QED BY <2>1, <2>2, <2>3
<1>9. PrincipalsFollowDirectory'
  BY <1>8 DEF PrincipalsFollowDirectory
<1> QED BY <1>5, <1>7, <1>9

LEMMA ProvisionKeeps ==
  ASSUME Rows, Directories, Bound, PrincipalsFollowDirectory,
         NEW sc \in Scopes, Provision(sc)
  PROVE  Directories' /\ Bound' /\ PrincipalsFollowDirectory'
<1>0. principals \in [Subjects -> Principals \union {None}]
  BY DEF Rows
<1>1. PICK s \in Subjects, g \in Grants :
        /\ principals' = [principals EXCEPT
             ![s] = [scope |-> sc, role |-> g.role, enabled |-> g.enabled]]
        /\ direct' = direct \union {s} /\ users' = users /\ groups' = groups
  BY DEF Provision
<1>2. ScopeKept(sc)
  BY ProvisionPrincipals
<1>3. \A o \in Scopes : \A u \in DOMAIN users[o] : users[o][u].subject \in Subjects
  BY DEF Directories, Directory, Users
<1>4. Bound'
  BY <1>1, <1>2, <1>3 DEF Bound, ScopeKept
<1>5. \A x \in Subjects \ {s} : principals'[x] = principals[x]
  BY <1>0, <1>1
<1>6. Directories'
  BY <1>1 DEF Directories, Directory, Users, Groups
<1>7. PrincipalsFollowDirectory'
  <2> SUFFICES ASSUME NEW x \in Subjects \ direct'
               PROVE  /\ \A o \in Scopes : \A u \in DOMAIN users'[o] :
                           users'[o][u].subject = x
                             => principals'[x] = Derived(o, users'[o], groups'[o], u)
                      /\ Enabled(x)' => \E u \in DOMAIN users'[principals'[x].scope] :
                                          users'[principals'[x].scope][u].subject = x
    BY DEF PrincipalsFollowDirectory
  <2>1. x \in Subjects \ direct /\ principals'[x] = principals[x]
    BY <1>1, <1>5
  <2>2. users' = users /\ groups' = groups
    BY <1>1
  <2>3. Enabled(x)' => Enabled(x)
    BY <2>1 DEF Enabled
  <2> QED BY <2>1, <2>2, <2>3 DEF PrincipalsFollowDirectory
<1> QED BY <1>4, <1>6, <1>7

-----------------------------------------------------------------------------
\* What a request writes.

Writes(sc) == DirectoryStep(sc) \/ Provision(sc) \/ CreateKey(sc) \/ RevokeKey(sc)

\* The keys of a scope outside S neither appear nor are revoked, and no key
\* changes its scope or role or returns.
KeysKept(S) ==
  /\ \A k \in DOMAIN keys' \ DOMAIN keys : keys'[k].scope \in S
  /\ \A k \in DOMAIN keys :
       /\ k \in DOMAIN keys'
       /\ keys'[k].scope = keys[k].scope /\ keys'[k].role = keys[k].role
       /\ keys[k].revoked => keys'[k].revoked
       /\ keys[k].expired => keys'[k].expired
       /\ keys'[k].revoked => keys[k].revoked \/ keys[k].scope \in S

LEMMA SameKeysKept ==
  ASSUME NEW S, keys' = keys PROVE KeysKept(S)
BY Zenon DEF KeysKept

\* Principals and directories: every change is of the administrator's scope.
LEMMA WritesKeep ==
  ASSUME Rows, Directories, Bound, PrincipalsFollowDirectory,
         NEW sc \in Scopes, Writes(sc)
  PROVE  /\ Directories' /\ Bound' /\ PrincipalsFollowDirectory' /\ ScopeKept(sc)
         /\ principals' \in [Subjects -> Principals \union {None}]
         /\ DOMAIN users' = Scopes /\ DOMAIN groups' = Scopes
         /\ UNCHANGED <<logins, sessions>>
         /\ \A k \in DOMAIN keys' : keys'[k] \in Keys
         /\ KeysKept({sc})
<1>0. /\ DOMAIN users = Scopes /\ DOMAIN groups = Scopes
      /\ principals \in [Subjects -> Principals \union {None}]
      /\ \A k \in DOMAIN keys : keys[k] \in Keys
  BY DEF Rows
<1>1. ASSUME DirectoryStep(sc)
      PROVE  /\ Directories' /\ Bound' /\ PrincipalsFollowDirectory' /\ ScopeKept(sc)
             /\ principals' \in [Subjects -> Principals \union {None}]
             /\ DOMAIN users' = Scopes /\ DOMAIN groups' = Scopes
             /\ UNCHANGED svars
  <2>1. PICK us, gs : Directory(us, gs) /\ Update(sc, us, gs)
    BY <1>1, StepIsUpdate DEF Directories
  <2>2. Directories' /\ Bound' /\ PrincipalsFollowDirectory'
    BY <2>1, UpdateKeeps
  <2>3. principals' \in [Subjects -> Principals \union {None}] /\ ScopeKept(sc)
    BY <2>1, UpdatePrincipals
  <2>4. DOMAIN users' = Scopes /\ DOMAIN groups' = Scopes /\ UNCHANGED svars
    BY <2>1, UpdateWrites
  <2> QED BY <2>2, <2>3, <2>4
<1>2. ASSUME Provision(sc)
      PROVE  /\ Directories' /\ Bound' /\ PrincipalsFollowDirectory' /\ ScopeKept(sc)
             /\ principals' \in [Subjects -> Principals \union {None}]
             /\ DOMAIN users' = Scopes /\ DOMAIN groups' = Scopes
             /\ UNCHANGED svars
  <2>1. UNCHANGED <<users, groups, svars>>
    BY <1>2 DEF Provision
  <2> QED BY <1>0, <1>2, <2>1, ProvisionKeeps, ProvisionPrincipals
<1>3. ASSUME UNCHANGED dvars
      PROVE  /\ Directories' /\ Bound' /\ PrincipalsFollowDirectory' /\ ScopeKept(sc)
             /\ principals' \in [Subjects -> Principals \union {None}]
             /\ DOMAIN users' = Scopes /\ DOMAIN groups' = Scopes
  <2>1. users' = users /\ groups' = groups /\ principals' = principals /\ direct' = direct
    BY <1>3 DEF dvars
  <2>2. Directories' /\ Bound' /\ ScopeKept(sc)
    BY <2>1 DEF Directories, Directory, Users, Groups, Bound, ScopeKept
  <2>3. PrincipalsFollowDirectory'
    BY <1>3, UnchangedFollow
  <2> QED BY <1>0, <2>1, <2>2, <2>3
<1>4. ASSUME CreateKey(sc)
      PROVE  /\ \A k \in DOMAIN keys' : keys'[k] \in Keys
             /\ KeysKept({sc})
             /\ UNCHANGED <<dvars, logins, sessions>>
  <2>1. PICK k \in KeyIds[sc] \ DOMAIN keys, role \in KeyRoles :
          /\ keys' = With(keys, k, NewKey(sc, role))
          /\ UNCHANGED <<dvars, logins, sessions>>
    BY <1>4 DEF CreateKey
  <2> DEFINE row == NewKey(sc, role)
  <2>2. row \in Keys /\ row.scope = sc
    BY AccessConstants DEF Keys, NewKey
  <2>3. keys' = With(keys, k, row)
    BY <2>1
  <2> HIDE DEF row
  <2>4. /\ DOMAIN keys' = DOMAIN keys \union {k} /\ keys'[k] = row
        /\ \A x \in DOMAIN keys : keys'[x] = keys[x]
    BY <2>1, <2>3 DEF With
  <2>5. \A x \in DOMAIN keys : x \in DOMAIN keys'
    BY <2>4
  <2>6. \A x \in DOMAIN keys' \ DOMAIN keys : keys'[x].scope \in {sc}
    BY <2>2, <2>4
  <2>7. KeysKept({sc})
    BY Zenon, <2>4, <2>5, <2>6 DEF KeysKept
  <2> QED BY <1>0, <2>1, <2>2, <2>4, <2>7
<1>5. ASSUME RevokeKey(sc)
      PROVE  /\ \A k \in DOMAIN keys' : keys'[k] \in Keys
             /\ KeysKept({sc})
             /\ UNCHANGED <<dvars, logins, sessions>>
  <2>1. PICK k \in DOMAIN keys :
          keys[k].scope = sc /\ keys' = [keys EXCEPT ![k].revoked = TRUE]
    BY <1>5 DEF RevokeKey, Revocable
  <2>2. [keys[k] EXCEPT !.revoked = TRUE] \in Keys
    BY <1>0 DEF Keys
  <2>3. /\ DOMAIN keys' = DOMAIN keys /\ keys'[k] = [keys[k] EXCEPT !.revoked = TRUE]
        /\ \A x \in DOMAIN keys \ {k} : keys'[x] = keys[x]
    BY <2>1
  <2>4. UNCHANGED <<dvars, logins, sessions>>
    BY <1>5 DEF RevokeKey
  <2>5. /\ keys'[k].scope = keys[k].scope /\ keys'[k].role = keys[k].role
        /\ keys'[k].revoked = TRUE /\ keys'[k].expired = keys[k].expired
    BY <1>0, <2>3 DEF Keys
  <2>6. ASSUME NEW x \in DOMAIN keys
        PROVE  /\ keys'[x].scope = keys[x].scope /\ keys'[x].role = keys[x].role
               /\ keys[x].revoked => keys'[x].revoked
               /\ keys[x].expired => keys'[x].expired
               /\ keys'[x].revoked => keys[x].revoked \/ keys[x].scope \in {sc}
    <3>1. CASE x = k
      BY Zenon, <2>1, <2>5, <3>1
    <3>2. CASE x # k
      <4>1. keys'[x] = keys[x]
        BY <2>3, <3>2
      <4> QED BY Zenon, <4>1
    <3> QED BY <3>1, <3>2
  <2>7. KeysKept({sc})
    BY Zenon, <2>3, <2>6 DEF KeysKept
  <2> QED BY <1>0, <2>2, <2>3, <2>4, <2>7
<1>6. CASE DirectoryStep(sc) \/ Provision(sc)
  BY <1>0, <1>1, <1>2, <1>6, SameKeysKept DEF svars
<1>7. CASE CreateKey(sc)
  BY <1>3, <1>4, <1>7
<1>8. CASE RevokeKey(sc)
  BY <1>3, <1>5, <1>8
<1> QED BY <1>6, <1>7, <1>8 DEF Writes

-----------------------------------------------------------------------------
\* The inductive invariant.

IInv ==
  /\ Rows /\ Known /\ Directories /\ Bound /\ PrincipalsFollowDirectory
  /\ SignIns /\ SessionsInScope

LEMMA NoJobType == NoJob \in Jobs /\ NoJob.pc = "idle"
  BY DEF NoJob, Jobs

LEMMA HandleWrites ==
  ASSUME Known, NEW r \in Requests, Handle(r)
  PROVE  /\ job[r].who.scope \in Scopes /\ Writes(job[r].who.scope)
         /\ job[r].pc = "authorized" /\ MayAdminister(job[r].who)
         /\ job' = [job EXCEPT ![r] = NoJob] /\ UNCHANGED qvars
<1>1. job[r].who \in Identity
  BY DEF Handle, Known
<1>2. Writes(job[r].who.scope)
  BY Zenon DEF Handle, Writes, DirectoryStep
<1> QED BY <1>1, <1>2 DEF Handle, Identity

\* Everything that is not a handler leaves directories and principals alone,
\* and at most lets a key expire.
Quiet ==
  /\ UNCHANGED dvars /\ DOMAIN keys' = DOMAIN keys
  /\ \A k \in DOMAIN keys : keys'[k] \in Keys
  /\ KeysKept({})

LEMMA QuietOrHandled ==
  ASSUME Rows, [Next]_vars PROVE Quiet \/ \E r \in Requests : Handle(r)
<1>0. \A k \in DOMAIN keys : keys[k] \in Keys
  BY DEF Rows
<1>1. CASE UNCHANGED <<dvars, keys>>
  BY <1>0, <1>1, SameKeysKept DEF Quiet
<1>2. CASE ExpireKey
  <2>1. PICK k \in DOMAIN keys : keys' = [keys EXCEPT ![k].expired = TRUE]
    BY <1>2 DEF ExpireKey
  <2>2. [keys[k] EXCEPT !.expired = TRUE] \in Keys
    BY <1>0 DEF Keys
  <2>3. /\ keys'[k].scope = keys[k].scope /\ keys'[k].role = keys[k].role
        /\ keys'[k].revoked = keys[k].revoked /\ keys'[k].expired = TRUE
    BY <1>0, <2>1 DEF Keys
  <2>4. DOMAIN keys' = DOMAIN keys /\ \A x \in DOMAIN keys \ {k} : keys'[x] = keys[x]
    BY <2>1
  <2>5. ASSUME NEW x \in DOMAIN keys
        PROVE  /\ keys'[x].scope = keys[x].scope /\ keys'[x].role = keys[x].role
               /\ keys[x].revoked => keys'[x].revoked
               /\ keys[x].expired => keys'[x].expired
               /\ keys'[x].revoked => keys[x].revoked
    <3>1. CASE x = k
      BY Zenon, <2>3, <3>1
    <3>2. CASE x # k
      <4>1. keys'[x] = keys[x]
        BY <2>4, <3>2
      <4> QED BY Zenon, <4>1
    <3> QED BY <3>1, <3>2
  <2>6. KeysKept({})
    BY Zenon, <2>4, <2>5 DEF KeysKept
  <2> QED BY <1>0, <1>2, <2>1, <2>2, <2>6 DEF ExpireKey, Quiet
<1>3. ASSUME NEW r \in Requests,
             \/ Authenticate(r) \/ UseSession(r) \/ Answer(r)
             \/ \E l \in Logins : Consume(r, l)
             \/ Resolve(r) \/ CreateSession(r)
      PROVE  UNCHANGED <<dvars, keys>>
  BY <1>3 DEF Authenticate, UseSession, Answer, Consume, Resolve, CreateSession, svars
<1>4. ASSUME \/ \E l \in Logins : StartLogin(l) \/ ExpireLogin(l)
             \/ \E s \in sessions : Logout(s)
             \/ NextMinute \/ ReadMinute \/ CountRequest \/ ExpireBucket
      PROVE  UNCHANGED <<dvars, keys>>
  BY <1>4 DEF StartLogin, ExpireLogin, Logout, NextMinute, ReadMinute, CountRequest,
              ExpireBucket, svars
<1>5. CASE UNCHANGED vars
  BY <1>1, <1>5 DEF vars, svars
<1> QED BY <1>1, <1>2, <1>3, <1>4, <1>5 DEF Next

\* Directories, principals and keys, through every step.
LEMMA DirectoryNext ==
  ASSUME Rows, Known, Directories, Bound, PrincipalsFollowDirectory, [Next]_vars
  PROVE  /\ Directories' /\ Bound' /\ PrincipalsFollowDirectory'
         /\ principals' \in [Subjects -> Principals \union {None}]
         /\ DOMAIN users' = Scopes /\ DOMAIN groups' = Scopes
         /\ \A k \in DOMAIN keys' : keys'[k] \in Keys
         /\ \A s \in Subjects : principals[s] # None =>
              principals'[s] # None /\ principals'[s].scope = principals[s].scope
<1>1. CASE Quiet
  <2>1. users' = users /\ groups' = groups /\ principals' = principals /\ direct' = direct
    BY <1>1 DEF dvars, Quiet
  <2>2. Directories' /\ Bound'
    BY <2>1 DEF Directories, Directory, Users, Groups, Bound
  <2>3. PrincipalsFollowDirectory'
    BY <1>1, UnchangedFollow DEF Quiet
  <2> QED BY <1>1, <2>1, <2>2, <2>3 DEF Quiet, Rows
<1>2. ASSUME NEW r \in Requests, Handle(r)
      PROVE  /\ Directories' /\ Bound' /\ PrincipalsFollowDirectory'
             /\ principals' \in [Subjects -> Principals \union {None}]
             /\ DOMAIN users' = Scopes /\ DOMAIN groups' = Scopes
             /\ \A k \in DOMAIN keys' : keys'[k] \in Keys
             /\ ScopeKept(job[r].who.scope)
  BY <1>2, HandleWrites, WritesKeep
<1> QED BY <1>1, <1>2, QuietOrHandled DEF ScopeKept

\* The identities a request may carry are of the service's scopes and roles.
LEMMA CredentialTypes == Rows => Credentials \subseteq Identity
<1> SUFFICES ASSUME Rows, NEW who \in Credentials PROVE who \in Identity
  OBVIOUS
<1>1. ASSUME NEW k \in DOMAIN keys
      PROVE  [scope |-> keys[k].scope, role |-> keys[k].role] \in Identity
  BY DEF Rows, Keys, Identity
<1>2. ASSUME NEW s \in Subjects, Enabled(s) PROVE IdentityOf(s) \in Identity
  BY <1>2 DEF Rows, Enabled, Principals, IdentityOf, Identity
<1> QED BY <1>1, <1>2, AccessConstants DEF Credentials

\* A request's own step.
LEMMA KnownStep ==
  ASSUME Known, NEW r \in Requests, NEW x \in Jobs, job' = [job EXCEPT ![r] = x],
         x.pc \in {"authorized", "session"} => x.who \in Identity,
         x.pc \in {"exchange", "session"} => x.login \in Logins,
         x.pc = "session" => x.subject \in Subjects
  PROVE  Known'
  BY DEF Known

LEMMA KnownNext == ASSUME Rows, Known, [Next]_vars PROVE Known'
<1>0. job \in [Requests -> Jobs] /\ \A r \in Requests : job[r] \in Jobs
  BY DEF Known
<1>1. CASE job' = job
  BY <1>1 DEF Known
<1>2. ASSUME NEW r \in Requests, job' = [job EXCEPT ![r] = NoJob] PROVE Known'
  BY <1>2, NoJobType, KnownStep
<1>3. ASSUME NEW r \in Requests, NEW who \in Identity, Enter(r, who) PROVE Known'
  <2> DEFINE x == [NoJob EXCEPT !.pc = "authorized", !.who = who]
  <2>1. x \in Jobs /\ x.pc = "authorized" /\ x.who = who
    BY DEF NoJob, Jobs
  <2>2. job' = [job EXCEPT ![r] = x]
    BY <1>3 DEF Enter
  <2> HIDE DEF x
  <2> QED BY <2>1, <2>2, KnownStep
<1>4. ASSUME NEW r \in Requests, Authenticate(r) PROVE Known'
  BY <1>3, <1>4, CredentialTypes DEF Authenticate
<1>5. ASSUME NEW r \in Requests, UseSession(r) PROVE Known'
  <2>1. \A s \in Subjects : Enabled(s) => IdentityOf(s) \in Identity
    BY CredentialTypes DEF Credentials
  <2>2. \A s \in sessions : s.subject \in Subjects
    BY DEF Rows
  <2> QED BY <1>1, <1>3, <1>5, <2>1, <2>2 DEF UseSession
<1>6. ASSUME NEW r \in Requests, NEW l \in Logins, Consume(r, l) PROVE Known'
  <2> DEFINE x == [NoJob EXCEPT !.pc = "exchange", !.login = l]
  <2>1. x \in Jobs /\ x.pc = "exchange" /\ x.login = l
    BY DEF NoJob, Jobs
  <2>2. job' = [job EXCEPT ![r] = x]
    BY <1>6 DEF Consume
  <2> HIDE DEF x
  <2> QED BY <2>1, <2>2, KnownStep
<1>7. ASSUME NEW r \in Requests, Resolve(r) PROVE Known'
  <2>1. PICK s \in Subjects : /\ Enabled(s)
          /\ job' = [job EXCEPT ![r].pc = "session", ![r].subject = s, ![r].who = IdentityOf(s)]
    BY <1>7 DEF Resolve
  <2> DEFINE x == [job[r] EXCEPT !.pc = "session", !.subject = s, !.who = IdentityOf(s)]
  <2>2. IdentityOf(s) \in Identity /\ job[r].login \in Logins
    BY <1>7, <2>1, CredentialTypes DEF Credentials, Resolve, Known
  <2>3. /\ x \in Jobs /\ x.pc = "session" /\ x.login = job[r].login /\ x.subject = s
        /\ x.who = IdentityOf(s)
    BY <1>0, <2>2 DEF Jobs
  <2>4. job' = [job EXCEPT ![r] = x]
    BY <1>0, <2>1
  <2> HIDE DEF x
  <2> QED BY <2>2, <2>3, <2>4, KnownStep
<1>8. ASSUME NEW r \in Requests, CreateSession(r) \/ Answer(r) \/ Handle(r) PROVE Known'
  BY <1>2, <1>8 DEF CreateSession, Answer, Handle
<1>9. ASSUME \/ \E l \in Logins : StartLogin(l) \/ ExpireLogin(l)
             \/ ExpireKey
             \/ \E s \in sessions : Logout(s)
             \/ NextMinute \/ ReadMinute \/ CountRequest \/ ExpireBucket
             \/ UNCHANGED vars
      PROVE  job' = job
  BY <1>9 DEF StartLogin, ExpireLogin, ExpireKey, Logout, NextMinute, ReadMinute,
              CountRequest, ExpireBucket, vars
<1> QED BY <1>1, <1>4, <1>5, <1>6, <1>7, <1>8, <1>9 DEF Next

\* Signing in. What a session step may rely on: the scope of a principal stays.
LEMMA SignInNext ==
  ASSUME IInv, [Next]_vars
  PROVE  SignIns' /\ SessionsInScope'
         /\ logins' \in [Logins -> {"absent", "pending", "consumed"}]
         /\ sessions' \subseteq [login : Logins, by : Requests, subject : Subjects, scope : Scopes]
<1> DEFINE Signed == SignIns' /\ SessionsInScope'
             /\ logins' \in [Logins -> {"absent", "pending", "consumed"}]
             /\ sessions' \subseteq [login : Logins, by : Requests, subject : Subjects, scope : Scopes]
<1>0. /\ job \in [Requests -> Jobs] /\ SignIns /\ SessionsInScope /\ Known
      /\ logins \in [Logins -> {"absent", "pending", "consumed"}]
      /\ sessions \subseteq [login : Logins, by : Requests, subject : Subjects, scope : Scopes]
  BY DEF IInv, Rows, Known
<1>1. \A s \in Subjects : principals[s] # None =>
        principals'[s] # None /\ principals'[s].scope = principals[s].scope
  BY DirectoryNext DEF IInv
<1>2. /\ \A s \in sessions : s.subject \in Subjects /\ s.login \in Logins
      /\ \A r \in Requests : job[r].pc \in {"exchange", "session"} => job[r].login \in Logins
      /\ \A r \in Requests : job[r].pc = "session" => job[r].subject \in Subjects
  BY <1>0 DEF Known
\* Sessions only go, and logins are only consumed.
<1>3. ASSUME sessions' \subseteq sessions,
             \A l \in Logins : logins[l] = "consumed" => logins'[l] = "consumed",
             logins' \in [Logins -> {"absent", "pending", "consumed"}],
             \A r \in Requests : job'[r].pc \in {"exchange", "session"} => job'[r] = job[r]
      PROVE  Signed
  <2>1. SignIns'
    BY <1>0, <1>1, <1>2, <1>3 DEF SignIns
  <2>2. SessionsInScope'
    BY <1>0, <1>1, <1>2, <1>3 DEF SessionsInScope
  <2> QED BY <1>0, <1>3, <2>1, <2>2
<1> HIDE DEF Signed
<1>4. ASSUME NEW r \in Requests, job' = [job EXCEPT ![r] = NoJob] \/ job' = job,
             sessions' \subseteq sessions, logins' = logins
      PROVE  Signed
  <2>1. \A q \in Requests : job'[q].pc \in {"exchange", "session"} => job'[q] = job[q]
    BY <1>0, <1>4, NoJobType
  <2> QED BY <1>0, <1>3, <1>4, <2>1
<1>5. ASSUME NEW r \in Requests, NEW who, Enter(r, who), sessions' = sessions, logins' = logins
      PROVE  Signed
  <2>1. \A q \in Requests : job'[q].pc \in {"exchange", "session"} => job'[q] = job[q]
    BY <1>0, <1>5 DEF Enter, NoJob
  <2> QED BY <1>0, <1>3, <1>5, <2>1
<1>6. ASSUME NEW r \in Requests, Authenticate(r) PROVE Signed
  BY <1>5, <1>6 DEF Authenticate, svars
<1>7. ASSUME NEW r \in Requests, UseSession(r) PROVE Signed
  BY <1>4, <1>5, <1>7 DEF UseSession
<1>8. ASSUME NEW r \in Requests, Handle(r) PROVE Signed
  <2>1. sessions' = sessions /\ logins' = logins /\ job' = [job EXCEPT ![r] = NoJob]
    BY <1>8, HandleWrites, WritesKeep DEF IInv
  <2> QED BY <1>4, <2>1
<1>9. ASSUME NEW r \in Requests, Answer(r) PROVE Signed
  BY <1>4, <1>9 DEF Answer, svars
<1>10. ASSUME NEW l \in Logins, StartLogin(l) \/ ExpireLogin(l) PROVE Signed
  <2>1. sessions' = sessions /\ job' = job
    BY <1>10 DEF StartLogin, ExpireLogin
  <2>2. /\ \A k \in Logins : logins[k] = "consumed" => logins'[k] = "consumed"
        /\ logins' \in [Logins -> {"absent", "pending", "consumed"}]
    BY <1>0, <1>10 DEF StartLogin, ExpireLogin
  <2> QED BY <1>3, <2>1, <2>2
<1>11. ASSUME \/ ExpireKey \/ NextMinute \/ ReadMinute \/ CountRequest \/ ExpireBucket
              \/ UNCHANGED vars \/ \E s \in sessions : Logout(s)
       PROVE  Signed
  <2>1. sessions' \subseteq sessions /\ logins' = logins /\ job' = job
    BY <1>11 DEF ExpireKey, NextMinute, ReadMinute, CountRequest, ExpireBucket, vars, svars, Logout
  <2> QED BY <1>0, <1>3, <2>1
\* A callback takes a pending login: no request and no session has it.
<1>12. ASSUME NEW r \in Requests, NEW l \in Logins, Consume(r, l) PROVE Signed
  <2>1. /\ logins[l] = "pending" /\ sessions' = sessions /\ principals' = principals
        /\ \A k \in Logins : logins'[k] = IF k = l THEN "consumed" ELSE logins[k]
        /\ job'[r].pc = "exchange" /\ job'[r].login = l
        /\ \A q \in Requests \ {r} : job'[q] = job[q]
        /\ logins' \in [Logins -> {"absent", "pending", "consumed"}]
    BY <1>0, <1>12 DEF Consume, Consumable, NoJob, dvars
  <2>2. /\ \A q \in Requests : job[q].pc \in {"exchange", "session"} => job[q].login # l
        /\ \A s \in sessions : s.login # l
    BY <1>0, <2>1 DEF SignIns
  <2>3. SignIns'
    BY <1>0, <1>2, <2>1, <2>2 DEF SignIns
  <2>4. SessionsInScope'
    BY <1>0, <2>1 DEF SessionsInScope
  <2> QED BY <1>0, <2>1, <2>3, <2>4 DEF Signed
<1>13. ASSUME NEW r \in Requests, Resolve(r) PROVE Signed
  <2>1. PICK s \in Subjects : /\ Enabled(s)
          /\ job' = [job EXCEPT ![r].pc = "session", ![r].subject = s, ![r].who = IdentityOf(s)]
    BY <1>13 DEF Resolve
  <2>2. /\ job[r].pc = "exchange" /\ sessions' = sessions /\ logins' = logins
        /\ principals' = principals
    BY <1>13 DEF Resolve, svars, dvars
  <2>3. /\ job'[r].pc = "session" /\ job'[r].login = job[r].login /\ job'[r].subject = s
        /\ job'[r].who = IdentityOf(s)
        /\ \A q \in Requests \ {r} : job'[q] = job[q]
    BY <1>0, <2>1 DEF Jobs
  <2>4. principals[s] # None /\ IdentityOf(s).scope = principals[s].scope
    BY <2>1 DEF Enabled, IdentityOf
  <2>5. SignIns'
    BY <1>0, <2>2, <2>3, <2>4 DEF SignIns
  <2>6. SessionsInScope'
    BY <1>0, <2>2 DEF SessionsInScope
  <2> QED BY <1>0, <2>2, <2>5, <2>6 DEF Signed
<1>14. ASSUME NEW r \in Requests, CreateSession(r) PROVE Signed
  <2> DEFINE new == [login |-> job[r].login, by |-> r, subject |-> job[r].subject,
                     scope |-> job[r].who.scope]
  <2>1. /\ job[r].pc = "session" /\ logins' = logins /\ principals' = principals
        /\ sessions' \subseteq sessions \union {new}
        /\ job' = [job EXCEPT ![r] = NoJob]
    BY <1>14 DEF CreateSession, dvars
  <2>2. /\ new \in [login : Logins, by : Requests, subject : Subjects, scope : Scopes]
        /\ new.login = job[r].login /\ new.subject = job[r].subject
        /\ new.scope = job[r].who.scope
    BY <1>0, <2>1 DEF Known, Identity
  <2> HIDE DEF new
  <2>3. /\ job'[r].pc = "idle" /\ \A q \in Requests \ {r} : job'[q] = job[q]
    BY <1>0, <2>1, NoJobType
  <2>4. SignIns'
    BY <1>0, <2>1, <2>2, <2>3 DEF SignIns
  <2>5. SessionsInScope'
    BY <1>0, <2>1, <2>2 DEF SessionsInScope, SignIns
  <2> QED BY <1>0, <2>1, <2>2, <2>4, <2>5 DEF Signed
<1>15. Signed
  BY <1>6, <1>7, <1>8, <1>9, <1>10, <1>11, <1>12, <1>13, <1>14 DEF Next
<1> QED BY <1>15 DEF Signed

LEMMA Inductive == IInv /\ [Next]_vars => IInv'
<1> SUFFICES ASSUME IInv, [Next]_vars PROVE IInv'
  OBVIOUS
<1>1. /\ Directories' /\ Bound' /\ PrincipalsFollowDirectory'
      /\ principals' \in [Subjects -> Principals \union {None}]
      /\ DOMAIN users' = Scopes /\ DOMAIN groups' = Scopes
      /\ \A k \in DOMAIN keys' : keys'[k] \in Keys
  BY DirectoryNext DEF IInv
<1>2. Known'
  BY KnownNext DEF IInv
<1>3. SignIns' /\ SessionsInScope'
      /\ logins' \in [Logins -> {"absent", "pending", "consumed"}]
      /\ sessions' \subseteq [login : Logins, by : Requests, subject : Subjects, scope : Scopes]
  BY SignInNext
<1>4. Rows'
  BY <1>1, <1>3 DEF Rows, Keys
<1> QED BY <1>1, <1>2, <1>3, <1>4 DEF IInv

LEMMA IInvInit == Init => IInv
<1> SUFFICES ASSUME Init PROVE IInv
  OBVIOUS
<1>0. \A sc \in Scopes : DOMAIN users[sc] = {} /\ DOMAIN groups[sc] = {}
  BY DEF Init
<1>1. Rows
  BY DEF Init, Rows
<1>2. Known
  BY NoJobType DEF Init, Known
<1>3. Directories /\ Bound
  BY <1>0 DEF Directories, Directory, Bound
<1>4. PrincipalsFollowDirectory
  BY <1>0 DEF Init, PrincipalsFollowDirectory, Enabled
<1>5. SignIns /\ SessionsInScope
  BY DEF Init, NoJob, SignIns, SessionsInScope
<1> QED BY <1>1, <1>2, <1>3, <1>4, <1>5 DEF IInv

LEMMA AlwaysIInv == Spec => []IInv
  BY IInvInit, Inductive, PTL DEF Spec

-----------------------------------------------------------------------------
\* Every sequence of creates, patches and deletes, of any number of
\* administrators, leaves each directory with members that are its users and
\* with unique names and subjects.
THEOREM DirectoriesIntact == Spec => []DirectoryIntact
<1>1. IInv => DirectoryIntact
  BY DEF IInv, Directories, Directory, DirectoryIntact
<1> QED BY <1>1, AlwaysIInv, PTL

\* Authorization follows the directory: a change and its bindings commit
\* together, and no other scope's change gets between them.
THEOREM BindingsFollow == Spec => []PrincipalsFollowDirectory
<1>1. IInv => PrincipalsFollowDirectory
  BY DEF IInv
<1> QED BY <1>1, AlwaysIInv, PTL

\* However sign-ins overlap with provisioning, a session has its subject's
\* scope, and a login state makes one session.
THEOREM SessionsKeepScope == Spec => []SessionsInScope
<1>1. IInv => SessionsInScope
  BY DEF IInv
<1> QED BY <1>1, AlwaysIInv, PTL

\* The scopes whose administrators' requests a step answers.
Administered ==
  {job[r].who.scope : r \in {x \in Requests :
     job[x].pc = "authorized" /\ job[x].who.role = "admin" /\ job'[x] = NoJob}}

\* A scope's principals and keys change only through its own administrators.
LEMMA OwnScopeOnly ==
  ASSUME IInv, [Next]_vars
  PROVE  /\ \A s \in Subjects : principals'[s] # principals[s] =>
              /\ principals'[s].scope \in Administered
              /\ principals[s] # None => principals'[s].scope = principals[s].scope
         /\ KeysKept(Administered)
<1>1. CASE Quiet
  <2>1. KeysKept(Administered)
    BY Zenon, <1>1 DEF Quiet, KeysKept
  <2> QED BY <1>1, <2>1 DEF Quiet, dvars
<1>2. ASSUME NEW r \in Requests, Handle(r)
      PROVE  /\ \A s \in Subjects : principals'[s] # principals[s] =>
                  /\ principals'[s].scope \in Administered
                  /\ principals[s] # None => principals'[s].scope = principals[s].scope
             /\ KeysKept(Administered)
  <2>1. /\ job[r].who.scope \in Scopes /\ Writes(job[r].who.scope)
        /\ job[r].pc = "authorized" /\ job[r].who.role = "admin"
        /\ job' = [job EXCEPT ![r] = NoJob]
    BY <1>2, HandleWrites DEF IInv, MayAdminister
  <2>2. job'[r] = NoJob
    BY <2>1 DEF IInv, Known
  <2>3. {job[r].who.scope} \subseteq Administered
    BY <2>1, <2>2 DEF Administered
  <2>4. ScopeKept(job[r].who.scope) /\ KeysKept({job[r].who.scope})
    BY <2>1, WritesKeep DEF IInv
  <2>5. KeysKept(Administered)
    BY Zenon, <2>3, <2>4 DEF KeysKept
  <2> QED BY <2>3, <2>4, <2>5 DEF ScopeKept
<1> QED BY <1>1, <1>2, QuietOrHandled DEF IInv

\* No request of one scope touches what another scope holds: its principals,
\* the keys it issues and those it revokes.
THEOREM ScopesStayApart == Spec => ScopesApart
<1>1. IInv /\ [Next]_vars =>
        [LET admins == {job[r].who.scope : r \in {x \in Requests :
               job[x].pc = "authorized" /\ job[x].who.role = "admin" /\ job'[x] = NoJob}}
         IN  /\ \A s \in Subjects : principals'[s] # principals[s] =>
                  /\ principals'[s].scope \in admins
                  /\ principals[s] # None => principals'[s].scope = principals[s].scope
             /\ \A k \in DOMAIN keys' \ DOMAIN keys : keys'[k].scope \in admins
             /\ \A k \in DOMAIN keys :
                  /\ k \in DOMAIN keys'
                  /\ keys'[k].scope = keys[k].scope /\ keys'[k].role = keys[k].role
                  /\ keys[k].revoked => keys'[k].revoked
                  /\ keys[k].expired => keys'[k].expired
                  /\ keys'[k].revoked => keys[k].revoked \/ keys[k].scope \in admins]_vars
  BY Zenon, OwnScopeOnly DEF KeysKept, Administered
<1> QED BY <1>1, AlwaysIInv, PTL DEF Spec, ScopesApart

-----------------------------------------------------------------------------
\* The quota. While a minute has the bucket, what it was allowed beyond its
\* earlier visits is what the bucket counts.
Minutes == 0..MaxMinute
Capped(n) == IF n <= Limit THEN n ELSE Limit

QuotaTypes ==
  /\ quota.allowed \in [Minutes -> Nat] /\ quota.returns \in [Minutes -> Nat]
  /\ DOMAIN quota = {"now", "waiting", "allowed", "returns", "calls"}
  /\ bucket.minute \in Int /\ bucket.count \in Nat

Counts ==
  \A m \in Minutes :
    quota.allowed[m] <= Limit * quota.returns[m] +
                        (IF bucket.minute = m THEN Capped(bucket.count) ELSE Limit)

LEMMA CountNext ==
  ASSUME QuotaTypes, Counts, [Next]_vars PROVE QuotaTypes' /\ Counts'
<1>0. /\ Limit \in Nat /\ Limit >= 1 /\ MaxMinute \in Nat
  BY AccessConstants
<1>1. CASE UNCHANGED qvars
  BY <1>1 DEF qvars, QuotaTypes, Counts, Minutes, Capped
<1>2. CASE NextMinute \/ ReadMinute
  <2>1. /\ quota'.allowed = quota.allowed /\ quota'.returns = quota.returns
        /\ DOMAIN quota' = DOMAIN quota /\ bucket' = bucket
    BY <1>2 DEF NextMinute, ReadMinute, QuotaTypes
  <2> QED BY <2>1 DEF QuotaTypes, Counts, Minutes, Capped
<1>3. CASE ExpireBucket
  <2>1. quota' = quota /\ bucket'.minute = -1 /\ bucket'.count = 0
    BY <1>3 DEF ExpireBucket
  <2>2. ASSUME NEW m \in Minutes
        PROVE  quota'.allowed[m] <= Limit * quota'.returns[m] + Limit
    <3> DEFINE l == Limit * quota.returns[m]
    <3>1. l \in Nat /\ quota.allowed[m] \in Nat /\ Capped(bucket.count) <= Limit
      BY <1>0 DEF QuotaTypes, Capped
    <3>2. quota.allowed[m] <= l + Capped(bucket.count) \/ quota.allowed[m] <= l + Limit
      BY DEF Counts
    <3>3. Capped(bucket.count) \in Nat
      BY <1>0 DEF QuotaTypes, Capped
    <3> HIDE DEF l
    <3>4. quota.allowed[m] <= l + Limit
      BY <1>0, <3>1, <3>2, <3>3
    <3> QED BY <2>1, <3>4 DEF l
  <2>3. \A m \in Minutes : bucket'.minute # m
    BY <2>1, <1>0 DEF Minutes
  <2> QED BY <2>1, <2>2, <2>3 DEF QuotaTypes, Counts, Minutes, Capped
<1>4. CASE CountRequest
  <2>1. PICK m \in Minutes :
          LET count == IF bucket.minute = m THEN bucket.count + 1 ELSE 1
          IN  /\ bucket' = [minute |-> m, count |-> count]
              /\ quota' = [quota EXCEPT
                   !.waiting[m] = @ - 1,
                   !.allowed[m] = IF Allowed(count) THEN @ + 1 ELSE @,
                   !.returns[m] = IF bucket.minute # m /\ quota.allowed[m] > 0
                                  THEN @ + 1 ELSE @]
    BY <1>4 DEF CountRequest, Minutes
  <2> DEFINE count == IF bucket.minute = m THEN bucket.count + 1 ELSE 1
  <2>2. /\ bucket'.minute = m /\ bucket'.count = count /\ DOMAIN quota' = DOMAIN quota
        /\ quota'.allowed = [quota.allowed EXCEPT ![m] = IF Allowed(count) THEN @ + 1 ELSE @]
        /\ quota'.returns = [quota.returns EXCEPT ![m] =
             IF bucket.minute # m /\ quota.allowed[m] > 0 THEN @ + 1 ELSE @]
    BY <2>1 DEF QuotaTypes
  <2>3. count \in Nat /\ count >= 1
    BY DEF QuotaTypes
  <2>4. QuotaTypes'
    <3> HIDE DEF count
    <3>1. quota'.allowed \in [Minutes -> Nat]
      BY <2>2 DEF QuotaTypes
    <3>2. quota'.returns \in [Minutes -> Nat]
      BY <2>2 DEF QuotaTypes
    <3>3. bucket'.minute \in Int /\ bucket'.count \in Nat
      BY <1>0, <2>2, <2>3 DEF Minutes
    <3>4. DOMAIN quota' = {"now", "waiting", "allowed", "returns", "calls"}
      BY <2>2 DEF QuotaTypes
    <3> QED BY <3>1, <3>2, <3>3, <3>4 DEF QuotaTypes, Minutes
  <2>5. ASSUME NEW n \in Minutes, n # m
        PROVE  quota'.allowed[n] <= Limit * quota'.returns[n] + Limit
    <3> DEFINE l == Limit * quota.returns[n]
    <3>1. /\ l \in Nat /\ quota.allowed[n] \in Nat
          /\ Capped(bucket.count) <= Limit /\ Capped(bucket.count) \in Nat
      BY <1>0 DEF QuotaTypes, Capped
    <3>2. quota.allowed[n] <= l + Capped(bucket.count) \/ quota.allowed[n] <= l + Limit
      BY DEF Counts
    <3>3. quota'.allowed[n] = quota.allowed[n] /\ quota'.returns[n] = quota.returns[n]
      BY <2>2, <2>5 DEF QuotaTypes
    <3> HIDE DEF l
    <3>4. quota.allowed[n] <= l + Limit
      BY <1>0, <3>1, <3>2
    <3> QED BY <3>3, <3>4 DEF l
  <2>6. quota'.allowed[m] <= Limit * quota'.returns[m] + Capped(count)
    <3> DEFINE l == Limit * quota.returns[m]
               a == quota.allowed[m]
    <3>1. /\ l \in Nat /\ a \in Nat /\ quota.returns[m] \in Nat
          /\ Limit * (quota.returns[m] + 1) = l + Limit
      BY <1>0 DEF QuotaTypes
    <3>2. /\ quota'.allowed[m] = IF count <= Limit THEN a + 1 ELSE a
          /\ quota'.returns[m] = IF bucket.minute # m /\ a > 0
                                 THEN quota.returns[m] + 1 ELSE quota.returns[m]
      BY <2>2 DEF QuotaTypes, Allowed
    <3>3. a <= l + (IF bucket.minute = m THEN Capped(bucket.count) ELSE Limit)
      BY DEF Counts
    <3>4. CASE bucket.minute = m
      <4>1. Limit * quota'.returns[m] = l
        BY <3>2, <3>4
      <4>2. a <= l + Capped(bucket.count) /\ count = bucket.count + 1 /\ bucket.count \in Nat
        BY <3>3, <3>4 DEF QuotaTypes
      <4> HIDE DEF l, a, count
      <4> QED BY <1>0, <3>1, <3>2, <4>1, <4>2 DEF Capped
    <3>5. CASE bucket.minute # m /\ a > 0
      <4>1. Limit * quota'.returns[m] = l + Limit
        BY <3>1, <3>2, <3>5
      <4>2. a <= l + Limit /\ count = 1
        BY <3>3, <3>5
      <4> HIDE DEF l, a, count
      <4> QED BY <1>0, <3>1, <3>2, <4>1, <4>2 DEF Capped
    <3>6. CASE bucket.minute # m /\ a = 0
      <4>1. Limit * quota'.returns[m] = l /\ count = 1
        BY <3>2, <3>6
      <4> HIDE DEF l, a, count
      <4> QED BY <1>0, <3>1, <3>2, <3>6, <4>1 DEF Capped
    <3> QED BY <3>1, <3>4, <3>5, <3>6
  <2>7. Counts'
    <3>1. ASSUME NEW n \in Minutes
          PROVE  quota'.allowed[n] <= Limit * quota'.returns[n] +
                   (IF bucket'.minute = n THEN Capped(bucket'.count) ELSE Limit)
      BY <2>2, <2>5, <2>6
    <3> QED BY <3>1 DEF Counts, Minutes, Capped
  <2> QED BY <2>4, <2>7
<1>5. ASSUME ~CountRequest, ~ExpireBucket, ~NextMinute, ~ReadMinute PROVE UNCHANGED qvars
  BY <1>5 DEF Next, vars, Authenticate, UseSession, Handle, Answer, Consume, Resolve,
              CreateSession, StartLogin, ExpireLogin, ExpireKey, Logout, qvars
<1> QED BY <1>1, <1>2, <1>3, <1>4, <1>5

\* In a minute an actor gets at most the limit, and as much again each time its
\* bucket returned to that minute from another.
THEOREM QuotaHolds == Spec => []QuotaPerMinute
<1>1. Init => QuotaTypes /\ Counts
  <2> SUFFICES ASSUME Init PROVE QuotaTypes /\ Counts
    OBVIOUS
  <2>1. /\ quota.allowed = [m \in Minutes |-> 0] /\ quota.returns = [m \in Minutes |-> 0]
        /\ DOMAIN quota = {"now", "waiting", "allowed", "returns", "calls"}
        /\ bucket.minute = -1 /\ bucket.count = 0
    BY DEF Init, NewQuota, Minutes
  <2>2. Limit \in Nat /\ MaxMinute \in Nat
    BY AccessConstants
  <2> QED BY <2>1, <2>2 DEF QuotaTypes, Counts, Minutes
<1>2. QuotaTypes /\ Counts /\ [Next]_vars => (QuotaTypes /\ Counts)'
  BY CountNext
<1>3. QuotaTypes /\ Counts => QuotaPerMinute
  <2> SUFFICES ASSUME QuotaTypes, Counts, NEW m \in Minutes
               PROVE  quota.allowed[m] <= Limit * (1 + quota.returns[m])
    BY DEF QuotaPerMinute, Minutes
  <2> DEFINE l == Limit * quota.returns[m]
  <2>0. Limit \in Nat
    BY AccessConstants
  <2>1. /\ l \in Nat /\ quota.allowed[m] \in Nat
        /\ Capped(bucket.count) <= Limit /\ Capped(bucket.count) \in Nat
        /\ Limit * (1 + quota.returns[m]) = l + Limit
    BY <2>0 DEF QuotaTypes, Capped
  <2>2. quota.allowed[m] <= l + Capped(bucket.count) \/ quota.allowed[m] <= l + Limit
    BY DEF Counts
  <2> HIDE DEF l
  <2> QED BY <2>0, <2>1, <2>2
<1> QED BY <1>1, <1>2, <1>3, PTL DEF Spec

===============================================================================
