---------------------------- MODULE RolesProofs ----------------------------
(***************************************************************************)
(* What holds of roles, grants and accounts for any number of requests,    *)
(* names and ids, and however often the process is started again.          *)
(***************************************************************************)
EXTENDS Roles, TLAPS

\* Where a request is fits what it was called for, and a registration that is
\* about to write has found its role.
CallsInv ==
  \A r \in Requests :
    /\ pc[r] = "checkName" => req[r].op \in {"createRole", "createPerm"}
    /\ pc[r] = "checkRole" => req[r].op \in {"assign", "changeRole"}
    /\ pc[r] = "checkUser" => req[r].op \in {"changeRole", "register"}
    /\ pc[r] = "checkPerm" => req[r].op = "assign"
    /\ pc[r] = "findDefault" => req[r].op = "register"
    /\ pc[r] = "write" /\ req[r].op = "register" => req[r].role \in RoleIds

\* No request runs before the seed is done, and what the seed has inserted so
\* far is there.
BootInv ==
  /\ ~Serving => \A r \in Requests : pc[r] = "idle"
  /\ Serving => users[AdminUser] # NONE
  /\ ~Serving =>
       /\ \A k \in DOMAIN SeedRoles : k < boot => RolesNamed(SeedRoles[k]) # {}
       /\ \A k \in DOMAIN SeedPerms : LastRole + k < boot => PermsNamed(SeedPerms[k]) # {}
       /\ \A k \in DOMAIN SeedRoles :
            LastPerm + k < boot => RolesNamed(SeedRoles[k]) \X Granted(SeedRoles[k]) \subseteq grants

Inv == TypeOK /\ ReferencesHold /\ CallsInv /\ BootInv

-----------------------------------------------------------------------------
(* Calls *)

\* The parameters of each call are what its handler needs.
LEMMA CallShape ==
  ASSUME NEW c \in AdminCalls \cup Registrations \cup {NoCall}
  PROVE  /\ c.op = "createRole" => c.name \in RoleNames
         /\ c.op = "updateRole" => c.role \in RoleIds /\ c.name \in RoleNames \cup {NONE}
         /\ c.op = "deleteRole" => c.role \in RoleIds
         /\ c.op \in {"assign", "revoke"} => c.role \in RoleIds /\ c.perm \in PermIds
         /\ c.op = "createPerm" => c.name \in PermNames
         /\ c.op = "deletePerm" => c.perm \in PermIds
         /\ c.op = "changeRole" => c.role \in RoleIds /\ c.user \in Users
         /\ c.op = "register" => c.role \in RoleIds \cup {NONE} /\ c.user \in Users
         /\ c.op = "register" => c \in Registrations
  BY DEF AdminCalls, Registrations, NoCall, Call

\* A registration that has found its role is one still.
LEMMA RoleFound ==
  ASSUME NEW c \in Registrations, NEW i \in RoleIds
  PROVE  [c EXCEPT !.role = i] \in Registrations
  BY DEF Registrations, Call

\* A call fits its first statement.
LEMMA FirstFits ==
  ASSUME NEW c \in AdminCalls \cup Registrations
  PROVE  /\ FirstStatement(c.op) \in Locations
         /\ FirstStatement(c.op) = "checkName" => c.op \in {"createRole", "createPerm"}
         /\ FirstStatement(c.op) = "checkRole" => c.op \in {"assign", "changeRole"}
         /\ FirstStatement(c.op) = "checkUser" => c.op \in {"changeRole", "register"}
         /\ FirstStatement(c.op) # "checkPerm" /\ FirstStatement(c.op) # "findDefault"
         /\ FirstStatement(c.op) = "write" => c.op # "register"
  BY DEF FirstStatement, Locations

-----------------------------------------------------------------------------
(* Types and locations *)

\* The control of a request, apart from the tables.
ControlOK ==
  /\ boot \in 1 .. Served
  /\ pc \in [Requests -> Locations]
  /\ req \in [Requests -> AdminCalls \cup Registrations \cup {NoCall}]

LEMMA FinishControl ==
  ASSUME ControlOK, CallsInv, NEW r \in Requests, Finish(r)
  PROVE  ControlOK' /\ CallsInv'
  BY DEF ControlOK, CallsInv, Finish, Locations

LEMMA GotoControl ==
  ASSUME ControlOK, CallsInv, NEW r \in Requests, NEW l \in Locations, Goto(r, l),
         l \notin {"checkName", "checkUser"},
         l = "checkRole" => req[r].op = "changeRole",
         l = "checkPerm" => req[r].op = "assign",
         l = "findDefault" => req[r].op = "register",
         l = "write" => req[r].op # "register"
  PROVE  ControlOK' /\ CallsInv'
<1>1. /\ pc' = [pc EXCEPT ![r] = l] /\ req' = req /\ boot' = boot
  BY DEF Goto
<1>2. ControlOK'
  BY <1>1 DEF ControlOK
<1>3. CallsInv'
  BY <1>1 DEF ControlOK, CallsInv
<1> QED
  BY <1>2, <1>3

LEMMA ArriveControl ==
  ASSUME ControlOK, CallsInv, NEW r \in Requests, Arrive(r)
  PROVE  ControlOK' /\ CallsInv'
<1>1. PICK c \in AdminCalls \cup {d \in Registrations : d.role = NONE} :
        /\ req' = [req EXCEPT ![r] = c]
        /\ pc' = [pc EXCEPT ![r] = FirstStatement(c.op)]
  BY DEF Arrive
<1>2. boot' = boot
  BY DEF Arrive
<1>3. ControlOK'
  BY <1>1, <1>2, FirstFits DEF ControlOK
<1>4. CallsInv'
  BY <1>1, FirstFits DEF ControlOK, CallsInv
<1> QED
  BY <1>3, <1>4

LEMMA FindDefaultControl ==
  ASSUME ControlOK, CallsInv, NEW r \in Requests, FindDefault(r)
  PROVE  ControlOK' /\ CallsInv'
<1>1. CASE Answer(r)
  BY <1>1, FinishControl DEF Answer
<1>2. CASE ~Answer(r)
  <2>1. PICK i \in RoleIds : req' = [req EXCEPT ![r].role = i]
    BY <1>2 DEF FindDefault, RolesNamed
  <2>2. pc' = [pc EXCEPT ![r] = "write"] /\ boot' = boot
    BY <1>2 DEF FindDefault
  <2>3. req[r].op = "register" /\ req[r] \in Registrations
    BY CallShape DEF FindDefault, CallsInv, ControlOK
  <2>4. [req[r] EXCEPT !.role = i] \in Registrations /\ [req[r] EXCEPT !.role = i].role = i
    BY <2>3, RoleFound DEF Registrations, Call
  <2>5. ControlOK'
    BY <2>1, <2>2, <2>4 DEF ControlOK, Locations
  <2>6. CallsInv'
    BY <2>1, <2>2, <2>4 DEF ControlOK, CallsInv
  <2> QED
    BY <2>5, <2>6
<1> QED
  BY <1>1, <1>2

\* Every step of a request keeps calls and locations in order.
LEMMA HandleControl ==
  ASSUME ControlOK, CallsInv, NEW r \in Requests, Handle(r)
  PROVE  ControlOK' /\ CallsInv'
<1>1. CASE Arrive(r)
  BY <1>1, ArriveControl
<1>2. CASE CheckName(r)
  BY <1>2, FinishControl, GotoControl DEF CheckName, Answer, CallsInv, Locations
<1>3. CASE CheckRole(r)
  BY <1>3, FinishControl, GotoControl DEF CheckRole, Answer, CallsInv, Locations
<1>4. CASE CheckPerm(r)
  BY <1>4, FinishControl, GotoControl DEF CheckPerm, Answer, CallsInv, Locations
<1>5. CASE CheckUser(r)
  BY <1>5, FinishControl, GotoControl DEF CheckUser, Answer, CallsInv, Locations
<1>6. CASE FindDefault(r)
  BY <1>6, FindDefaultControl
<1>7. CASE Write(r) \/ StatementFails(r)
  <2>1. Finish(r)
    BY <1>7 DEF Write, StatementFails, CreateRole, UpdateRole, DeleteRole, Assign, Revoke,
      CreatePerm, DeletePerm, SetUserRole, Answer
  <2> QED
    BY <2>1, FinishControl
<1> QED
  BY <1>1, <1>2, <1>3, <1>4, <1>5, <1>6, <1>7 DEF Handle

-----------------------------------------------------------------------------
(* The tables *)

TablesOK ==
  /\ roles \in [RoleIds -> RoleNames \cup {FREE, GONE}]
  /\ perms \in [PermIds -> PermNames \cup {FREE, GONE}]
  /\ grants \subseteq RoleIds \X PermIds
  /\ users \in [Users -> RoleIds \cup {NONE}]
  /\ ReferencesHold

\* A role gets a name no other role has, be it new or renamed.
LEMMA RoleNamedAnew ==
  ASSUME TablesOK, NEW i \in RoleIds, NEW n \in RoleNames, roles[i] # GONE,
         RolesNamed(n) \ {i} = {}, roles' = [roles EXCEPT ![i] = n],
         UNCHANGED <<perms, grants, users>>
  PROVE  TablesOK'
<1>1. \A j \in RoleIds : roles[j] = n => j = i
  BY DEF RolesNamed
<1>2. \A j \in RoleIds : LiveRole(j) => LiveRole(j)'
  BY DEF TablesOK, LiveRole
<1>3. ReferencesHold'
  <2>1. \A j, k \in RoleIds : LiveRole(j)' /\ roles'[j] = roles'[k] => j = k
    BY <1>1 DEF TablesOK, ReferencesHold, LiveRole
  <2>2. \A g \in grants : g[1] \in RoleIds
    BY DEF TablesOK
  <2> QED
    BY <1>2, <2>1, <2>2 DEF TablesOK, ReferencesHold, LiveRole, LivePerm
<1> QED
  BY <1>3 DEF TablesOK

LEMMA PermAdded ==
  ASSUME TablesOK, NEW n \in PermNames, PermsNamed(n) = {}, InsertPerm(n),
         UNCHANGED <<roles, grants, users>>
  PROVE  /\ TablesOK'
         /\ \A q \in PermIds : LivePerm(q) => perms'[q] = perms[q]
         /\ \E q \in PermIds : perms'[q] = n
<1>1. PICK p \in PermIds : perms[p] = FREE /\ perms' = [perms EXCEPT ![p] = n]
  BY DEF InsertPerm, NextId, TablesOK
<1>2. \A q \in PermIds : perms[q] # n
  BY DEF PermsNamed
<1>3. ~LivePerm(p)
  BY <1>1, RolesAssumption DEF LivePerm
<1>4. \A q \in PermIds : LivePerm(q) => perms'[q] = perms[q] /\ LivePerm(q)'
  BY <1>1, <1>3 DEF TablesOK, LivePerm
<1>5. ReferencesHold'
  <2>1. \A q, k \in PermIds : LivePerm(q)' /\ perms'[q] = perms'[k] => q = k
    BY <1>1, <1>2 DEF TablesOK, ReferencesHold, LivePerm
  <2>2. \A g \in grants : g[2] \in PermIds
    BY DEF TablesOK
  <2> QED
    BY <1>4, <2>1, <2>2 DEF TablesOK, ReferencesHold, LiveRole, LivePerm
<1> QED
  BY <1>1, <1>4, <1>5 DEF TablesOK

LEMMA RoleAdded ==
  ASSUME TablesOK, NEW n \in RoleNames, RolesNamed(n) = {}, InsertRole(n),
         UNCHANGED <<perms, grants, users>>
  PROVE  /\ TablesOK'
         /\ \A i \in RoleIds : LiveRole(i) => roles'[i] = roles[i]
         /\ \E i \in RoleIds : roles'[i] = n
<1>1. PICK i \in RoleIds : roles[i] = FREE /\ roles' = [roles EXCEPT ![i] = n]
  BY DEF InsertRole, NextId, TablesOK
<1>2. ~LiveRole(i) /\ roles[i] # GONE
  BY <1>1, RolesAssumption DEF LiveRole
<1>3. TablesOK'
  BY <1>1, <1>2, RoleNamedAnew
<1> QED
  BY <1>1, <1>2, <1>3 DEF TablesOK, LiveRole

LEMMA RoleRemoved ==
  ASSUME TablesOK, NEW i \in RoleIds, ~Held(i), roles' = [roles EXCEPT ![i] = GONE],
         grants' = {g \in grants : g[1] # i}, UNCHANGED <<perms, users>>
  PROVE  TablesOK'
<1>1. GONE \notin RoleNames
  BY RolesAssumption
<1>2. ReferencesHold'
  <2>1. \A j, k \in RoleIds : LiveRole(j)' /\ roles'[j] = roles'[k] => j = k
    BY <1>1 DEF TablesOK, ReferencesHold, LiveRole
  <2>2. \A g \in grants' : LiveRole(g[1])' /\ LivePerm(g[2])'
    BY DEF TablesOK, ReferencesHold, LiveRole, LivePerm
  <2>3. \A u \in Users : (users[u] # NONE => LiveRole(users[u]))'
    <3> SUFFICES ASSUME NEW u \in Users, (users[u] # NONE)' PROVE LiveRole(users[u])'
      OBVIOUS
    <3>1. users[u] \in RoleIds /\ users[u] # i /\ LiveRole(users[u])
      BY DEF TablesOK, ReferencesHold, Held
    <3> QED
      BY <3>1 DEF TablesOK, LiveRole
  <2> QED
    BY <2>1, <2>2, <2>3 DEF TablesOK, ReferencesHold, LivePerm
<1> QED
  BY <1>2 DEF TablesOK

LEMMA PermRemoved ==
  ASSUME TablesOK, NEW p \in PermIds, perms' = [perms EXCEPT ![p] = GONE],
         grants' = {g \in grants : g[2] # p}, UNCHANGED <<roles, users>>
  PROVE  TablesOK'
<1>1. GONE \notin PermNames
  BY RolesAssumption
<1>2. ReferencesHold'
  <2>1. \A j, k \in PermIds : LivePerm(j)' /\ perms'[j] = perms'[k] => j = k
    BY <1>1 DEF TablesOK, ReferencesHold, LivePerm
  <2>2. \A g \in grants' : LiveRole(g[1])' /\ LivePerm(g[2])'
    BY DEF TablesOK, ReferencesHold, LiveRole, LivePerm
  <2> QED
    BY <2>1, <2>2 DEF TablesOK, ReferencesHold, LiveRole
<1> QED
  BY <1>2 DEF TablesOK

\* Grants between rows that exist.
LEMMA GrantsChanged ==
  ASSUME TablesOK, grants' \subseteq RoleIds \X PermIds,
         \A g \in grants' : LiveRole(g[1]) /\ LivePerm(g[2]),
         UNCHANGED <<roles, perms, users>>
  PROVE  TablesOK'
  BY DEF TablesOK, ReferencesHold, LiveRole, LivePerm

\* An account gets a role that exists.
LEMMA UserChanged ==
  ASSUME TablesOK, NEW u \in Users, NEW i \in RoleIds, LiveRole(i),
         users' = [users EXCEPT ![u] = i], UNCHANGED <<roles, perms, grants>>
  PROVE  TablesOK'
  BY DEF TablesOK, ReferencesHold, LiveRole, LivePerm

LEMMA TablesKept == ASSUME TablesOK, UNCHANGED tables PROVE TablesOK'
  BY DEF TablesOK, tables, ReferencesHold, LiveRole, LivePerm

\* The write of each operation keeps the tables consistent.
LEMMA WriteTables ==
  ASSUME TablesOK, ControlOK, CallsInv, NEW r \in Requests, Write(r)
  PROVE  TablesOK'
<1> DEFINE c == req[r]
<1>1. c \in AdminCalls \cup Registrations \cup {NoCall}
  BY DEF ControlOK
<1>2. CASE Answer(r)
  BY <1>2, TablesKept DEF Answer
<1>3. CASE CreateRole(r) /\ ~Answer(r)
  BY <1>1, <1>3, CallShape, RoleAdded DEF CreateRole, Writing
<1>4. CASE UpdateRole(r) /\ ~Answer(r)
  <2>1. c.role \in RoleIds /\ c.name \in RoleNames
    BY <1>1, <1>4, CallShape DEF UpdateRole, Writing
  <2>2. roles[c.role] # GONE
    BY <1>4, RolesAssumption DEF UpdateRole, LiveRole
  <2> QED
    BY <1>4, <2>1, <2>2, RoleNamedAnew DEF UpdateRole
<1>5. CASE DeleteRole(r) /\ ~Answer(r)
  BY <1>1, <1>5, CallShape, RoleRemoved DEF DeleteRole, Writing
<1>6. CASE Assign(r) /\ ~Answer(r)
  <2>1. c.role \in RoleIds /\ c.perm \in PermIds
    BY <1>1, <1>6, CallShape DEF Assign, Writing
  <2>2. /\ LiveRole(c.role) /\ LivePerm(c.perm)
        /\ grants' = grants \cup {<<c.role, c.perm>>}
        /\ UNCHANGED <<roles, perms, users>>
    BY <1>6 DEF Assign
  <2>3. \A g \in grants' : LiveRole(g[1]) /\ LivePerm(g[2])
    BY <2>2 DEF TablesOK, ReferencesHold
  <2>4. grants' \subseteq RoleIds \X PermIds
    BY <2>1, <2>2 DEF TablesOK
  <2> QED
    BY <2>2, <2>3, <2>4, GrantsChanged
<1>7. CASE Revoke(r)
  <2>1. grants' \subseteq grants /\ UNCHANGED <<roles, perms, users>>
    BY <1>7 DEF Revoke
  <2> QED
    BY <2>1, GrantsChanged DEF TablesOK, ReferencesHold
<1>8. CASE CreatePerm(r) /\ ~Answer(r)
  BY <1>1, <1>8, CallShape, PermAdded DEF CreatePerm, Writing
<1>9. CASE DeletePerm(r) /\ ~Answer(r)
  BY <1>1, <1>9, CallShape, PermRemoved DEF DeletePerm, Writing
<1>10. CASE SetUserRole(r) /\ ~Answer(r)
  <2>1. c.role \in RoleIds /\ c.user \in Users
    BY <1>1, <1>10, CallShape DEF SetUserRole, CallsInv
  <2> QED
    BY <1>10, <2>1, UserChanged DEF SetUserRole
<1> QED
  BY <1>2, <1>3, <1>4, <1>5, <1>6, <1>7, <1>8, <1>9, <1>10 DEF Write

-----------------------------------------------------------------------------
(* The seed *)

\* Where each part of the seed begins.
LEMMA SeedNumbers ==
  /\ LastRole \in Nat /\ LastPerm \in Nat /\ LastGrant \in Nat
  /\ LastRole > 0 /\ LastRole <= LastPerm /\ LastGrant = LastPerm + LastRole
  /\ SeedAccount = LastGrant + 1 /\ Served = LastGrant + 2
  /\ DOMAIN SeedRoles = 1 .. LastRole
  /\ \A k \in Nat : k \in DOMAIN SeedPerms <=> k >= 1 /\ LastRole + k <= LastPerm
  /\ \A k \in DOMAIN SeedPerms : k \in Nat
  /\ \A k \in DOMAIN SeedRoles : SeedRoles[k] \in RoleNames
  /\ \A k \in DOMAIN SeedPerms : SeedPerms[k] \in PermNames
<1>1. Len(SeedRoles) \in Nat /\ Len(SeedPerms) \in Nat
  BY RolesAssumption
<1>2. DOMAIN SeedRoles = 1 .. Len(SeedRoles) /\ DOMAIN SeedPerms = 1 .. Len(SeedPerms)
  BY RolesAssumption
<1>3. Len(SeedRoles) > 0
  BY <1>1, <1>2, RolesAssumption
<1>4. /\ \A k \in DOMAIN SeedRoles : SeedRoles[k] \in RoleNames
      /\ \A k \in DOMAIN SeedPerms : SeedPerms[k] \in PermNames
  BY <1>2, RolesAssumption
<1> QED
  BY <1>1, <1>2, <1>3, <1>4 DEF LastRole, LastPerm, LastGrant, SeedAccount, Served

\* What a statement of the seed does to the invariant and to the tables.
SeedDone == /\ TablesOK' /\ BootInv' /\ SeedKeeps
            /\ boot' = boot + 1
            /\ Serving' => Seeded'

LEMMA SeedRoleDone ==
  ASSUME TablesOK, ControlOK, BootInv, SeedRole
  PROVE  SeedDone
<1> DEFINE n == SeedRoles[boot]
<1>1. boot \in DOMAIN SeedRoles /\ n \in RoleNames /\ boot \in Nat
  BY SeedNumbers DEF SeedRole, ControlOK
<1>2. boot' = boot + 1 /\ pc' = pc /\ UNCHANGED <<perms, grants, users>> /\ ~Serving /\ ~Serving'
  BY <1>1, SeedNumbers DEF SeedRole, NextSeed, Serving
<1>3. /\ TablesOK'
      /\ \A i \in RoleIds : LiveRole(i) => roles'[i] = roles[i]
      /\ \E i \in RoleIds : roles'[i] = n
      /\ RolesNamed(n) # {} => roles' = roles
  <2>1. CASE RolesNamed(n) # {}
    <3>1. UNCHANGED tables
      BY <1>2, <2>1 DEF SeedRole, tables
    <3> QED
      BY <2>1, <3>1, TablesKept DEF tables, RolesNamed
  <2>2. CASE RolesNamed(n) = {}
    BY <1>1, <1>2, <2>2, RoleAdded DEF SeedRole
  <2> QED
    BY <2>1, <2>2
<1>4. BootInv'
  <2>1. \A k \in DOMAIN SeedRoles : k < boot + 1 => \E i \in RoleIds : roles'[i] = SeedRoles[k]
    <3> SUFFICES ASSUME NEW k \in DOMAIN SeedRoles, k < boot + 1
                 PROVE  \E i \in RoleIds : roles'[i] = SeedRoles[k]
      OBVIOUS
    <3>1. CASE k = boot
      BY <1>3, <3>1
    <3>2. CASE k < boot
      <4>1. PICK i \in RoleIds : roles[i] = SeedRoles[k]
        BY <1>2, <3>2 DEF BootInv, RolesNamed
      <4> QED
        BY <1>3, <4>1, SeedNumbers DEF LiveRole
    <3> QED
      BY <1>1, <3>1, <3>2, SeedNumbers
  <2>2. boot + 1 <= LastRole + 1
    BY <1>1, SeedNumbers
  <2>3. \A k \in DOMAIN SeedPerms : ~(LastRole + k < boot + 1)
    BY <1>1, <2>2, SeedNumbers
  <2>4. \A k \in DOMAIN SeedRoles : ~(LastPerm + k < boot + 1)
    BY <1>1, <2>2, SeedNumbers
  <2> QED
    BY <1>2, <2>1, <2>3, <2>4 DEF BootInv, RolesNamed
<1>5. SeedKeeps
  <2>1. Seeded => UNCHANGED tables
    BY <1>1, <1>2, <1>3 DEF Seeded, tables
  <2> QED
    BY <1>2, <1>3, <2>1 DEF SeedKeeps, tables
<1> QED
  BY <1>2, <1>3, <1>4, <1>5 DEF SeedDone

LEMMA SeedPermDone ==
  ASSUME TablesOK, ControlOK, BootInv, SeedPerm
  PROVE  SeedDone
<1> DEFINE b == boot - LastRole
           n == SeedPerms[b]
<1>1. b \in DOMAIN SeedPerms /\ n \in PermNames /\ b \in Nat /\ boot \in Nat /\ boot = LastRole + b
  BY SeedNumbers DEF SeedPerm, ControlOK
<1>2. boot' = boot + 1 /\ pc' = pc /\ UNCHANGED <<roles, grants, users>> /\ ~Serving /\ ~Serving'
  BY <1>1, SeedNumbers DEF SeedPerm, NextSeed, Serving
<1>3. /\ TablesOK'
      /\ \A q \in PermIds : LivePerm(q) => perms'[q] = perms[q]
      /\ \E q \in PermIds : perms'[q] = n
      /\ PermsNamed(n) # {} => perms' = perms
  <2>1. CASE PermsNamed(n) # {}
    <3>1. UNCHANGED tables
      BY <1>2, <2>1 DEF SeedPerm, tables
    <3> QED
      BY <2>1, <3>1, TablesKept DEF tables, PermsNamed
  <2>2. CASE PermsNamed(n) = {}
    BY <1>1, <1>2, <2>2, PermAdded DEF SeedPerm
  <2> QED
    BY <2>1, <2>2
<1>4. BootInv'
  <2>1. \A k \in DOMAIN SeedPerms : LastRole + k < boot + 1 => \E q \in PermIds : perms'[q] = SeedPerms[k]
    <3> SUFFICES ASSUME NEW k \in DOMAIN SeedPerms, LastRole + k < boot + 1
                 PROVE  \E q \in PermIds : perms'[q] = SeedPerms[k]
      OBVIOUS
    <3>1. CASE k = b
      BY <1>3, <3>1
    <3>2. CASE LastRole + k < boot
      <4>1. PICK q \in PermIds : perms[q] = SeedPerms[k]
        BY <1>2, <3>2 DEF BootInv, PermsNamed
      <4> QED
        BY <1>3, <4>1, SeedNumbers DEF LivePerm
    <3>3. k \in Nat /\ LastRole \in Nat
      BY SeedNumbers
    <3>4. k = b \/ LastRole + k < boot
      <4> HIDE DEF b
      <4> QED
        BY <1>1, <3>3
    <3> QED
      BY <3>1, <3>2, <3>4
  <2>2. \A k \in DOMAIN SeedRoles : k < boot + 1 => k < boot
    BY <1>1, SeedNumbers DEF SeedPerm
  <2>3. \A k \in DOMAIN SeedRoles : ~(LastPerm + k < boot + 1)
    BY <1>1, SeedNumbers DEF SeedPerm
  <2> QED
    BY <1>2, <2>1, <2>2, <2>3 DEF BootInv, RolesNamed, PermsNamed
<1>5. SeedKeeps
  <2>1. Seeded => UNCHANGED tables
    BY <1>1, <1>2, <1>3 DEF Seeded, tables
  <2> QED
    BY <1>2, <1>3, <2>1 DEF SeedKeeps, tables
<1> QED
  BY <1>2, <1>3, <1>4, <1>5 DEF SeedDone

LEMMA SeedGrantDone ==
  ASSUME TablesOK, ControlOK, BootInv, SeedGrant
  PROVE  SeedDone
<1> DEFINE b == boot - LastPerm
           n == SeedRoles[b]
<1>1. b \in DOMAIN SeedRoles /\ n \in RoleNames /\ b \in Nat /\ boot \in Nat /\ boot = LastPerm + b
  BY SeedNumbers DEF SeedGrant, ControlOK
<1>2. /\ boot' = boot + 1 /\ pc' = pc /\ UNCHANGED <<roles, perms, users>> /\ ~Serving /\ ~Serving'
      /\ grants' = grants \cup (RolesNamed(n) \X Granted(n))
  BY <1>1, SeedNumbers DEF SeedGrant, NextSeed, Serving
<1>3. TablesOK'
  <2>1. \A g \in RolesNamed(n) \X Granted(n) :
          /\ g \in RoleIds \X PermIds
          /\ LiveRole(g[1]) /\ LivePerm(g[2])
    BY <1>1 DEF RolesNamed, Granted, LiveRole
  <2>2. grants' \subseteq RoleIds \X PermIds
    BY <1>2, <2>1 DEF TablesOK
  <2>3. \A g \in grants' : LiveRole(g[1]) /\ LivePerm(g[2])
    BY <1>2, <2>1 DEF TablesOK, ReferencesHold
  <2> QED
    BY <1>2, <2>2, <2>3, GrantsChanged
<1>4. BootInv'
  <2>1. \A k \in DOMAIN SeedRoles : LastPerm + k < boot + 1 =>
          RolesNamed(SeedRoles[k]) \X Granted(SeedRoles[k]) \subseteq grants'
    <3> SUFFICES ASSUME NEW k \in DOMAIN SeedRoles, LastPerm + k < boot + 1
                 PROVE  RolesNamed(SeedRoles[k]) \X Granted(SeedRoles[k]) \subseteq grants'
      OBVIOUS
    <3>1. k = b \/ LastPerm + k < boot
      BY <1>1, SeedNumbers
    <3> QED
      BY <1>2, <3>1 DEF BootInv
  <2>2. \A m : RolesNamed(m)' = RolesNamed(m) /\ PermsNamed(m)' = PermsNamed(m) /\ Granted(m)' = Granted(m)
    BY <1>2 DEF RolesNamed, PermsNamed, Granted, LivePerm
  <2>3. \A k \in DOMAIN SeedRoles : k < boot
    BY <1>1, SeedNumbers DEF SeedGrant
  <2>4. \A k \in DOMAIN SeedPerms : LastRole + k < boot
    BY <1>1, SeedNumbers DEF SeedGrant
  <2> QED
    BY <1>2, <2>1, <2>2, <2>3, <2>4 DEF BootInv
<1>5. SeedKeeps
  <2>1. Seeded => UNCHANGED tables
    BY <1>1, <1>2 DEF Seeded, tables
  <2> QED
    BY <1>2, <2>1 DEF SeedKeeps, tables
<1> QED
  BY <1>2, <1>3, <1>4, <1>5 DEF SeedDone

LEMMA SeedAdminDone ==
  ASSUME TablesOK, ControlOK, BootInv, SeedAdmin
  PROVE  SeedDone
<1>1. boot' = boot + 1 /\ pc' = pc /\ UNCHANGED <<roles, perms, grants>> /\ ~Serving /\ Serving'
  BY SeedNumbers DEF SeedAdmin, NextSeed, Serving
<1>2. /\ TablesOK'
      /\ users'[AdminUser] # NONE
      /\ \A u \in Users : users[u] # NONE => users'[u] = users[u]
      /\ users[AdminUser] # NONE => users' = users
  <2>1. CASE users[AdminUser] # NONE
    <3>1. UNCHANGED tables
      BY <1>1, <2>1 DEF SeedAdmin, tables
    <3> QED
      BY <2>1, <3>1, TablesKept DEF tables
  <2>2. CASE users[AdminUser] = NONE
    <3>1. PICK i \in RoleIds : /\ roles[i] = AdminRole
                               /\ users' = [users EXCEPT ![AdminUser] = i]
      BY <2>2 DEF SeedAdmin, RolesNamed
    <3>2. AdminUser \in Users /\ LiveRole(i) /\ i # NONE
      BY <3>1, RolesAssumption DEF LiveRole
    <3> QED
      BY <1>1, <2>2, <3>1, <3>2, UserChanged DEF TablesOK
  <2> QED
    BY <2>1, <2>2
<1>3. Seeded'
  <2>1. \A k \in DOMAIN SeedRoles : k < boot /\ LastPerm + k < boot
    BY SeedNumbers DEF SeedAdmin
  <2>2. \A k \in DOMAIN SeedPerms : LastRole + k < boot
    BY SeedNumbers DEF SeedAdmin
  <2>3. \A m : RolesNamed(m)' = RolesNamed(m) /\ PermsNamed(m)' = PermsNamed(m) /\ Granted(m)' = Granted(m)
    BY <1>1 DEF RolesNamed, PermsNamed, Granted, LivePerm
  <2> QED
    BY <1>1, <1>2, <2>1, <2>2, <2>3 DEF BootInv, Seeded
<1>4. SeedKeeps
  <2>1. Seeded => UNCHANGED tables
    BY <1>1, <1>2 DEF Seeded, tables
  <2> QED
    BY <1>1, <1>2, <2>1 DEF SeedKeeps, tables
<1>5. BootInv'
  BY <1>1, <1>2 DEF BootInv
<1> QED
  BY <1>1, <1>2, <1>3, <1>4, <1>5 DEF SeedDone

-----------------------------------------------------------------------------
(* The inductive invariant *)

LEMMA InvParts == Inv <=> TablesOK /\ ControlOK /\ CallsInv /\ BootInv
  BY DEF Inv, TypeOK, TablesOK, ControlOK

LEMMA RolesInit == Init => Inv
<1> SUFFICES ASSUME Init PROVE Inv
  OBVIOUS
<1>1. 1 \in RoleIds /\ NONE \notin RoleIds /\ FREE # GONE /\ Served \in Nat /\ Served > 1 /\ AdminUser \in Users
  BY RolesAssumption, SeedNumbers DEF RoleIds
<1>2. TablesOK
  <2>1. roles \in [RoleIds -> RoleNames \cup {FREE, GONE}] /\ perms \in [PermIds -> PermNames \cup {FREE, GONE}]
    BY RolesAssumption DEF Init
  <2>2. \A i \in RoleIds : LiveRole(i) => i = 1
    BY RolesAssumption DEF Init, LiveRole
  <2>3. \A p \in PermIds : ~LivePerm(p)
    BY RolesAssumption DEF Init, LivePerm
  <2>4. \A i, j \in RoleIds : LiveRole(i) /\ roles[i] = roles[j] => i = j
    BY <2>2 DEF LiveRole
  <2> QED
    BY <2>1, <2>3, <2>4 DEF Init, TablesOK, ReferencesHold
<1>3. ControlOK
  BY <1>1 DEF Init, ControlOK, Locations
<1>4. CallsInv
  BY DEF Init, CallsInv
<1>5. BootInv
  <2>1. \A k \in DOMAIN SeedRoles : ~(k < 1) /\ ~(LastPerm + k < 1)
    BY SeedNumbers
  <2>2. \A k \in DOMAIN SeedPerms : ~(LastRole + k < 1)
    BY SeedNumbers
  <2> QED
    BY <1>1, <2>1, <2>2 DEF Init, BootInv, Serving
<1> QED
  BY <1>2, <1>3, <1>4, <1>5, InvParts

\* A step of the seed leaves the requests alone.
LEMMA SeedStepDone == ASSUME Inv, Seed PROVE Inv' /\ SeedDone
<1>1. SeedDone
  BY InvParts, SeedRoleDone, SeedPermDone, SeedGrantDone, SeedAdminDone DEF Seed
<1>2. ControlOK' /\ CallsInv'
  <2>1. UNCHANGED <<pc, req>> /\ boot' = boot + 1 /\ boot <= SeedAccount
    BY SeedNumbers, InvParts DEF Seed, SeedRole, SeedPerm, SeedGrant, SeedAdmin, NextSeed, ControlOK
  <2> QED
    BY <2>1, SeedNumbers, InvParts DEF ControlOK, CallsInv
<1>3. Inv' <=> TablesOK' /\ ControlOK' /\ CallsInv' /\ BootInv'
  BY InvParts, PTL
<1> QED
  BY <1>1, <1>2, <1>3 DEF SeedDone

\* A request runs only while the process serves, and no account goes away.
LEMMA HandleServes ==
  ASSUME Inv, NEW r \in Requests, Handle(r)
  PROVE  /\ Serving /\ boot' = boot
         /\ \A u \in Users : users[u] # NONE => users'[u] # NONE
<1>1. Serving
  BY InvParts DEF Handle, Arrive, CheckName, CheckRole, CheckPerm, CheckUser, FindDefault, Write,
    StatementFails, CreateRole, UpdateRole, DeleteRole, Assign, Revoke, CreatePerm, DeletePerm,
    SetUserRole, Writing, BootInv
<1>2. boot' = boot
  BY DEF Handle, Arrive, CheckName, CheckRole, CheckPerm, CheckUser, FindDefault, Write,
    StatementFails, CreateRole, UpdateRole, DeleteRole, Assign, Revoke, CreatePerm, DeletePerm,
    SetUserRole, Answer, Finish, Goto
<1>3. CASE SetUserRole(r) /\ ~Answer(r)
  <2>1. req[r].role \in RoleIds /\ req[r].user \in Users
    BY <1>3, CallShape, InvParts DEF SetUserRole, CallsInv, ControlOK
  <2>2. users' = [users EXCEPT ![req[r].user] = req[r].role] /\ NONE \notin RoleIds
    BY <1>3, RolesAssumption DEF SetUserRole
  <2> QED
    BY <1>1, <1>2, <2>1, <2>2, InvParts DEF TablesOK
<1>4. CASE ~(SetUserRole(r) /\ ~Answer(r))
  <2>1. users' = users
    BY <1>4 DEF Handle, Arrive, CheckName, CheckRole, CheckPerm, CheckUser, FindDefault, Write,
      StatementFails, CreateRole, UpdateRole, DeleteRole, Assign, Revoke, CreatePerm, DeletePerm,
      Answer, Goto, tables
  <2> QED
    BY <1>1, <1>2, <2>1
<1> QED
  BY <1>3, <1>4

LEMMA HandleStep == ASSUME Inv, NEW r \in Requests, Handle(r) PROVE Inv'
<1>1. ControlOK' /\ CallsInv'
  BY HandleControl, InvParts
<1>2. TablesOK'
  <2>1. CASE Write(r)
    BY <2>1, WriteTables, InvParts
  <2>2. CASE ~Write(r)
    <3>1. UNCHANGED tables
      BY <2>2 DEF Handle, Arrive, CheckName, CheckRole, CheckPerm, CheckUser, FindDefault,
        StatementFails, Answer, Goto, tables
    <3> QED
      BY <3>1, TablesKept, InvParts
  <2> QED
    BY <2>1, <2>2
<1>3. BootInv'
  BY HandleServes, InvParts, RolesAssumption DEF BootInv, Serving
<1>4. Inv' <=> TablesOK' /\ ControlOK' /\ CallsInv' /\ BootInv'
  BY InvParts, PTL
<1> QED
  BY <1>1, <1>2, <1>3, <1>4

LEMMA RestartStep == ASSUME Inv, Restart PROVE Inv'
<1>1. TablesOK'
  BY TablesKept, InvParts DEF Restart
<1>2. ControlOK' /\ CallsInv'
  BY SeedNumbers, InvParts DEF Restart, ControlOK, CallsInv, Locations
<1>3. BootInv'
  <2>1. \A k \in DOMAIN SeedRoles : ~(k < 1) /\ ~(LastPerm + k < 1)
    BY SeedNumbers
  <2>2. \A k \in DOMAIN SeedPerms : ~(LastRole + k < 1)
    BY SeedNumbers
  <2>3. boot' = 1 /\ pc' = [r \in Requests |-> "idle"] /\ Served # 1
    BY SeedNumbers DEF Restart
  <2> QED
    BY <2>1, <2>2, <2>3 DEF BootInv, Serving
<1>4. Inv' <=> TablesOK' /\ ControlOK' /\ CallsInv' /\ BootInv'
  BY InvParts, PTL
<1> QED
  BY <1>1, <1>2, <1>3, <1>4

LEMMA InvNext == Inv /\ [Next]_vars => Inv'
<1> SUFFICES ASSUME Inv, [Next]_vars PROVE Inv'
  OBVIOUS
<1>1. CASE Seed
  BY <1>1, SeedStepDone
<1>2. CASE Restart
  BY <1>2, RestartStep
<1>3. ASSUME NEW r \in Requests, Handle(r) PROVE Inv'
  BY <1>3, HandleStep
<1>4. CASE UNCHANGED vars
  BY <1>4 DEF vars, Inv, TypeOK, ReferencesHold, CallsInv, BootInv, Serving, LiveRole, LivePerm,
    RolesNamed, PermsNamed, Granted
<1> QED
  BY <1>1, <1>2, <1>3, <1>4 DEF Next

-----------------------------------------------------------------------------
(* The theorems *)

\* Roles is type correct.
THEOREM RolesTypeCorrect == Spec => []TypeOK
<1>1. Inv => TypeOK
  BY DEF Inv
<1> QED
  BY <1>1, RolesInit, InvNext, PTL DEF Spec

\* Names stay unique, and grants and accounts refer to rows that exist.
THEOREM ReferencesAlwaysHold == Spec => []ReferencesHold
<1>1. Inv => ReferencesHold
  BY DEF Inv
<1> QED
  BY <1>1, RolesInit, InvNext, PTL DEF Spec

\* After any crash and any change by admins the seed restores the defaults and
\* nothing else.
THEOREM SeedSafe == Spec => SeedIsSafe
<1>1. Inv /\ [Next]_vars => SeedStep
  <2> SUFFICES ASSUME Inv, [Next]_vars, boot # boot', boot' # 1
               PROVE  SeedKeeps /\ (Serving' => Seeded')
    BY DEF SeedStep
  <2>1. CASE Seed
    BY <2>1, SeedStepDone DEF SeedDone
  <2>2. CASE Restart
    BY <2>2 DEF Restart
  <2>3. ASSUME NEW r \in Requests, Handle(r) PROVE FALSE
    BY <2>3, HandleServes
  <2> QED
    BY <2>1, <2>2, <2>3 DEF Next, vars
<1> QED
  BY <1>1, RolesInit, InvNext, PTL DEF Spec, SeedIsSafe

-----------------------------------------------------------------------------
(* Admins come from admins *)

\* A step that leaves accounts and the names they refer to alone makes no admin.
LEMMA NoNewAdmins ==
  ASSUME Inv, Admins = {}, UNCHANGED users, \A i \in RoleIds : LiveRole(i) => roles'[i] = roles[i]
  PROVE  Admins' = {}
<1>1. \A u \in Users : users[u] # NONE => users[u] \in RoleIds /\ LiveRole(users[u])
  BY DEF Inv, TypeOK, ReferencesHold
<1> QED
  BY <1>1 DEF Admins

LEMMA SeedKeepsLockedOut == ASSUME Inv, LockedOut, Seed PROVE LockedOut'
<1>1. SeedKeeps /\ UNCHANGED <<pc, req>>
  BY SeedStepDone DEF SeedDone, Seed, SeedRole, SeedPerm, SeedGrant, SeedAdmin, NextSeed
<1>2. UNCHANGED users
  BY DEF LockedOut, Seed, SeedRole, SeedPerm, SeedGrant, SeedAdmin
<1>3. Admins' = {}
  BY <1>1, <1>2, NoNewAdmins DEF SeedKeeps, LockedOut
<1>4. \A r \in Requests : pc[r] = "idle"
  BY SeedNumbers, InvParts DEF BootInv, Serving, Seed, SeedRole, SeedPerm, SeedGrant, SeedAdmin, ControlOK
<1> QED
  BY <1>1, <1>2, <1>3, <1>4 DEF LockedOut

LEMMA HandleKeepsLockedOut ==
  ASSUME Inv, LockedOut, NEW r \in Requests, Handle(r)
  PROVE  LockedOut'
<1>1. pc[r] # "idle" => req[r].op = "register" /\ (req[r].role \in RoleIds => roles[req[r].role] # AdminRole)
  BY DEF LockedOut
<1>2. UNCHANGED <<roles, perms, grants>>
  BY <1>1 DEF Handle, Arrive, CheckName, CheckRole, CheckPerm, CheckUser, FindDefault, Write,
    StatementFails, CreateRole, UpdateRole, DeleteRole, Assign, Revoke, CreatePerm, DeletePerm,
    SetUserRole, Writing, Answer, Goto, tables
<1>3. Admins' = {} /\ users'[AdminUser] # NONE
  <2>0. users'[AdminUser] # NONE
    BY HandleServes, RolesAssumption DEF LockedOut
  <2>1. CASE SetUserRole(r) /\ ~Answer(r)
    <3>1. req[r].role \in RoleIds /\ req[r].user \in Users
      BY <2>1, CallShape, InvParts DEF SetUserRole, CallsInv, ControlOK
    <3>2. users' = [users EXCEPT ![req[r].user] = req[r].role]
      BY <2>1 DEF SetUserRole
    <3>3. roles[req[r].role] # AdminRole
      BY <1>1, <2>1, <3>1 DEF SetUserRole
    <3> QED
      BY <1>2, <2>0, <3>1, <3>2, <3>3 DEF LockedOut, Admins, Inv, TypeOK
  <2>2. CASE ~(SetUserRole(r) /\ ~Answer(r))
    <3>1. users' = users
      BY <2>2 DEF Handle, Arrive, CheckName, CheckRole, CheckPerm, CheckUser, FindDefault, Write,
        StatementFails, CreateRole, UpdateRole, DeleteRole, Assign, Revoke, CreatePerm, DeletePerm,
        Answer, Goto, tables
    <3> QED
      BY <1>2, <2>0, <3>1 DEF LockedOut, Admins
  <2> QED
    BY <2>1, <2>2
<1>4. pc'[r] # "idle" => /\ req'[r].op = "register"
                         /\ req'[r].role \in RoleIds => roles[req'[r].role] # AdminRole
  <2>1. CASE Arrive(r)
    <3>1. PICK c \in AdminCalls \cup {d \in Registrations : d.role = NONE} :
            /\ c.op # "register" => Admins # {}
            /\ req' = [req EXCEPT ![r] = c]
      BY <2>1 DEF Arrive
    <3>2. c.op = "register" /\ c \in Registrations
      BY <3>1, CallShape DEF LockedOut
    <3>3. c.role = NONE
      BY <3>1, <3>2 DEF AdminCalls, Call
    <3> QED
      BY <3>1, <3>2, <3>3, RolesAssumption, InvParts DEF ControlOK
  <2>2. CASE FindDefault(r) /\ ~Answer(r)
    <3>1. PICK i \in RoleIds : roles[i] = DefaultRole /\ req' = [req EXCEPT ![r].role = i]
      BY <2>2 DEF FindDefault, RolesNamed
    <3>2. req[r] \in Registrations /\ req[r].op = "register"
      BY <2>2, CallShape, InvParts DEF FindDefault, CallsInv, ControlOK
    <3>3. [req[r] EXCEPT !.role = i].op = "register" /\ [req[r] EXCEPT !.role = i].role = i
      BY <3>2 DEF Registrations, Call
    <3> QED
      BY <3>1, <3>3, RolesAssumption, InvParts DEF ControlOK
  <2>3. CASE ~Arrive(r) /\ ~(FindDefault(r) /\ ~Answer(r))
    <3>1. pc'[r] = "idle" \/ (pc[r] # "idle" /\ req' = req)
      BY <2>3, InvParts DEF Handle, CheckName, CheckRole, CheckPerm, CheckUser, FindDefault, Write,
        StatementFails, CreateRole, UpdateRole, DeleteRole, Assign, Revoke, CreatePerm, DeletePerm,
        SetUserRole, Writing, Answer, Finish, Goto, ControlOK
    <3> QED
      BY <1>1, <3>1
  <2> QED
    BY <2>1, <2>2, <2>3
<1>5. \A s \in Requests \ {r} : pc'[s] = pc[s] /\ req'[s] = req[s]
  BY InvParts DEF Handle, Arrive, CheckName, CheckRole, CheckPerm, CheckUser, FindDefault, Write,
    StatementFails, CreateRole, UpdateRole, DeleteRole, Assign, Revoke, CreatePerm, DeletePerm,
    SetUserRole, Writing, Answer, Finish, Goto, ControlOK
<1> QED
  BY <1>2, <1>3, <1>4, <1>5 DEF LockedOut

\* Without an admin, and without a request of one in flight, nobody becomes one.
THEOREM AdminsOnlyFromAdmins == Spec => AdminsComeFromAdmins
<1>1. Inv /\ [Next]_vars => StaysLockedOut
  <2> SUFFICES ASSUME Inv, [Next]_vars, LockedOut PROVE LockedOut'
    BY DEF StaysLockedOut
  <2>1. CASE Seed
    BY <2>1, SeedKeepsLockedOut
  <2>2. CASE Restart
    BY <2>2 DEF Restart, tables, LockedOut, Admins
  <2>3. ASSUME NEW r \in Requests, Handle(r) PROVE LockedOut'
    BY <2>3, HandleKeepsLockedOut
  <2>4. CASE UNCHANGED vars
    BY <2>4 DEF vars, LockedOut, Admins
  <2> QED
    BY <2>1, <2>2, <2>3, <2>4 DEF Next
<1> QED
  BY <1>1, RolesInit, InvNext, PTL DEF Spec, AdminsComeFromAdmins
=============================================================================
