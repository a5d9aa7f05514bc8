------------------------------- MODULE Roles -------------------------------
(***************************************************************************)
(* Roles, permissions, grants and the role of each user: RoleHandler,      *)
(* PermissionHandler, AdminUserHandler.ChangeRole, the default role of a   *)
(* registration, and SeedData, which every start of the process runs       *)
(* before it serves requests.                                              *)
(*                                                                         *)
(* No handler uses a transaction: it checks in one statement and acts in a *)
(* later one, and what is left in between are the constraints of the       *)
(* tables (unique names, foreign keys).  pc[r] is the statement request r  *)
(* executes next, req[r] what it was called with.  A request that is       *)
(* answered, whatever the answer, is idle again; comments say which answer *)
(* it is.  Handlers that only read (Get, List) and the rows read again for *)
(* an answer (GetPermissions, GetWithRole) change nothing and are left out.*)
(*                                                                         *)
(* External, and modelled from how it is used: PostgreSQL runs each        *)
(* statement as a transaction of its own and draws ids in order.           *)
(***************************************************************************)
EXTENDS Naturals, Sequences

CONSTANTS
  Requests,                \* requests that can be in flight at once
  Users, AdminUser,        \* accounts, and the one the seed inserts
  MaxRoleId, MaxPermId,    \* bounds: ids are 1 .. Max
  RoleNames, PermNames,    \* names that are ever used
  SeedRoles, SeedPerms,    \* the names SeedData inserts, in its order
  AdminRole, DefaultRole,  \* 'admin' and 'user'
  DefaultGrants,           \* what the seed grants to each role but AdminRole
  NONE, FREE, GONE         \* no value; an id not drawn yet; a deleted row

RoleIds == 1 .. MaxRoleId
PermIds == 1 .. MaxPermId

ASSUME RolesAssumption ==
  /\ MaxRoleId \in Nat \ {0} /\ MaxPermId \in Nat
  /\ AdminUser \in Users
  /\ SeedRoles \in Seq(RoleNames) /\ SeedPerms \in Seq(PermNames)
  /\ AdminRole \in RoleNames /\ DefaultRole \in RoleNames
  /\ \E k \in DOMAIN SeedRoles : SeedRoles[k] = AdminRole
  /\ AdminRole # DefaultRole
  /\ DefaultGrants \in [RoleNames -> SUBSET PermNames]
  /\ NONE \notin RoleNames \cup PermNames \cup RoleIds \cup PermIds \cup Users
  /\ {FREE, GONE} \cap (RoleNames \cup PermNames) = {} /\ FREE # GONE

VARIABLES
  roles,     \* roles.name by id
  perms,     \* permissions.name by id
  grants,    \* role_permissions
  users,     \* users.role_id by account
  boot,      \* the statement of SeedData to run next, or Served
  pc, req    \* each request's next statement and its parameters

tables == <<roles, perms, grants, users>>
vars == <<roles, perms, grants, users, boot, pc, req>>

\* SeedData is a statement per role, per permission, per role that gets
\* permissions (the same roles in the same order), and one for the account.
LastRole == Len(SeedRoles)
LastPerm == LastRole + Len(SeedPerms)
LastGrant == LastPerm + Len(SeedRoles)
SeedAccount == LastGrant + 1
Served == LastGrant + 2
Serving == boot = Served

Call(op, role, perm, user, name) ==
  [op |-> op, role |-> role, perm |-> perm, user |-> user, name |-> name]

NoCall == Call("none", NONE, NONE, NONE, NONE)

\* The calls that change something.  An update may leave the name as it is.
AdminCalls ==
  {Call("createRole", NONE, NONE, NONE, n) : n \in RoleNames}
    \cup {Call("updateRole", i, NONE, NONE, n) : i \in RoleIds, n \in RoleNames \cup {NONE}}
    \cup {Call("deleteRole", i, NONE, NONE, NONE) : i \in RoleIds}
    \cup {Call(op, i, p, NONE, NONE) : op \in {"assign", "revoke"}, i \in RoleIds, p \in PermIds}
    \cup {Call("createPerm", NONE, NONE, NONE, n) : n \in PermNames}
    \cup {Call("deletePerm", NONE, p, NONE, NONE) : p \in PermIds}
    \cup {Call("changeRole", i, NONE, u, NONE) : i \in RoleIds, u \in Users}

\* The role of a registration is NONE until it has looked up the default one.
Registrations == {Call("register", i, NONE, u, NONE) : i \in RoleIds \cup {NONE}, u \in Users}

Locations == {"idle", "checkName", "checkRole", "checkPerm", "checkUser",
              "findDefault", "write"}

\* The first statement of each handler.
FirstStatement(op) ==
  CASE op \in {"createRole", "createPerm"} -> "checkName"
    [] op = "assign" -> "checkRole"
    [] op \in {"changeRole", "register"} -> "checkUser"
    [] OTHER -> "write"

-----------------------------------------------------------------------------
(* The tables *)

RolesNamed(n) == {i \in RoleIds : roles[i] = n}
PermsNamed(n) == {p \in PermIds : perms[p] = n}
LiveRole(i) == roles[i] \in RoleNames
LivePerm(p) == perms[p] \in PermNames

\* The id that BIGSERIAL draws next, while the bound has one left.
NextId(table) == {i \in DOMAIN table : table[i] = FREE /\ \A j \in 1 .. i - 1 : table[j] # FREE}

\* The accounts RequireRole lets through: GetWithRole joins by role_id.
Admins == {u \in Users : users[u] # NONE /\ roles[users[u]] = AdminRole}

InsertRole(n) == \E i \in NextId(roles) : roles' = [roles EXCEPT ![i] = n]
InsertPerm(n) == \E p \in NextId(perms) : perms' = [perms EXCEPT ![p] = n]

-----------------------------------------------------------------------------
(* SeedData, one statement at a time; every INSERT is ON CONFLICT DO NOTHING *)

NextSeed == boot' = boot + 1 /\ UNCHANGED <<pc, req>>

SeedRole ==
  /\ boot <= LastRole
  /\ LET n == SeedRoles[boot]
     IN \/ RolesNamed(n) # {} /\ UNCHANGED roles
        \/ RolesNamed(n) = {} /\ InsertRole(n)
  /\ NextSeed
  /\ UNCHANGED <<perms, grants, users>>

SeedPerm ==
  /\ LastRole < boot /\ boot <= LastPerm
  /\ LET n == SeedPerms[boot - LastRole]
     IN \/ PermsNamed(n) # {} /\ UNCHANGED perms
        \/ PermsNamed(n) = {} /\ InsertPerm(n)
  /\ NextSeed
  /\ UNCHANGED <<roles, grants, users>>

\* Admins are granted whatever the table holds, the others a fixed list.
Granted(n) == {p \in PermIds : LivePerm(p) /\ (n = AdminRole \/ perms[p] \in DefaultGrants[n])}

SeedGrant ==
  /\ LastPerm < boot /\ boot <= LastGrant
  /\ LET n == SeedRoles[boot - LastPerm]
     IN grants' = grants \cup (RolesNamed(n) \X Granted(n))
  /\ NextSeed
  /\ UNCHANGED <<roles, perms, users>>

\* Mutant: the conflict is resolved by giving the account its role back.
SeedAdminUpserts ==
  /\ boot = SeedAccount
  /\ \E i \in RolesNamed(AdminRole) : users' = [users EXCEPT ![AdminUser] = i]
  /\ NextSeed
  /\ UNCHANGED <<roles, perms, grants>>

\* INSERT ... SELECT: the account is given whatever role is named admin.
SeedAdmin ==
  /\ boot = SeedAccount
  /\ \/ users[AdminUser] # NONE /\ UNCHANGED users
     \/ /\ users[AdminUser] = NONE
        /\ \E i \in RolesNamed(AdminRole) : users' = [users EXCEPT ![AdminUser] = i]
  /\ NextSeed
  /\ UNCHANGED <<roles, perms, grants>>

\* A statement of the seed fails and run returns, or the process dies at any
\* time; it is started again and the seed begins anew.
Restart ==
  /\ boot' = 1
  /\ pc' = [r \in Requests |-> "idle"]
  /\ req' = [r \in Requests |-> NoCall]
  /\ UNCHANGED tables

Seed == SeedRole \/ SeedPerm \/ SeedGrant \/ SeedAdmin

-----------------------------------------------------------------------------
(* The handlers *)

Goto(r, where) ==
  /\ pc' = [pc EXCEPT ![r] = where]
  /\ UNCHANGED <<tables, boot, req>>

\* Request r is answered.
Finish(r) ==
  /\ pc' = [pc EXCEPT ![r] = "idle"]
  /\ req' = [req EXCEPT ![r] = NoCall]
  /\ UNCHANGED boot

Answer(r) == Finish(r) /\ UNCHANGED tables

\* Mutant: the group of admin routes is mounted without RequireRole.
ArriveUnchecked(r) ==
  /\ Serving /\ pc[r] = "idle"
  /\ \E c \in AdminCalls \cup {d \in Registrations : d.role = NONE} :
       /\ req' = [req EXCEPT ![r] = c]
       /\ pc' = [pc EXCEPT ![r] = FirstStatement(c.op)]
  /\ UNCHANGED <<tables, boot>>

\* An admin's request reaches its handler, or anybody's registration does.
Arrive(r) ==
  /\ Serving /\ pc[r] = "idle"
  /\ \E c \in AdminCalls \cup {d \in Registrations : d.role = NONE} :
       /\ c.op # "register" => Admins # {}
       /\ req' = [req EXCEPT ![r] = c]
       /\ pc' = [pc EXCEPT ![r] = FirstStatement(c.op)]
  /\ UNCHANGED <<tables, boot>>

Named(c) == IF c.op = "createRole" THEN RolesNamed(c.name) ELSE PermsNamed(c.name)

\* GetByName; 409 if there is one.
CheckName(r) ==
  /\ pc[r] = "checkName"
  /\ \/ Named(req[r]) # {} /\ Answer(r)
     \/ Named(req[r]) = {} /\ Goto(r, "write")

\* GetByID of the role of AssignPermission and ChangeRole; 404 if it is gone.
CheckRole(r) ==
  /\ pc[r] = "checkRole"
  /\ \/ ~LiveRole(req[r].role) /\ Answer(r)
     \/ /\ LiveRole(req[r].role)
        /\ Goto(r, IF req[r].op = "assign" THEN "checkPerm" ELSE "write")

CheckPerm(r) ==
  /\ pc[r] = "checkPerm"
  /\ \/ ~LivePerm(req[r].perm) /\ Answer(r)
     \/ LivePerm(req[r].perm) /\ Goto(r, "write")

\* ChangeRole wants the account to exist (404), a registration that it does
\* not (409).
CheckUser(r) ==
  /\ pc[r] = "checkUser"
  /\ LET exists == users[req[r].user] # NONE
         wanted == req[r].op = "changeRole"
     IN \/ exists # wanted /\ Answer(r)
        \/ exists = wanted /\ Goto(r, IF wanted THEN "checkRole" ELSE "findDefault")

\* Mutant: the error of the look-up is dropped and the id stays 0.
FindDefaultIgnored(r) ==
  /\ pc[r] = "findDefault"
  /\ \/ RolesNamed(DefaultRole) = {} /\ req' = [req EXCEPT ![r].role = 0]
     \/ \E i \in RolesNamed(DefaultRole) : req' = [req EXCEPT ![r].role = i]
  /\ pc' = [pc EXCEPT ![r] = "write"]
  /\ UNCHANGED <<tables, boot>>

\* 500 if an admin has renamed the default role.
FindDefault(r) ==
  /\ pc[r] = "findDefault"
  /\ \/ RolesNamed(DefaultRole) = {} /\ Answer(r)
     \/ /\ \E i \in RolesNamed(DefaultRole) : req' = [req EXCEPT ![r].role = i]
        /\ pc' = [pc EXCEPT ![r] = "write"]
        /\ UNCHANGED <<tables, boot>>

\* The write of each operation: what a constraint refuses is answered 500.
Writing(r, op) == pc[r] = "write" /\ req[r].op = op

CreateRole(r) ==
  /\ Writing(r, "createRole")
  /\ \/ RolesNamed(req[r].name) # {} /\ Answer(r)
     \/ /\ RolesNamed(req[r].name) = {}
        /\ InsertRole(req[r].name)
        /\ Finish(r)
        /\ UNCHANGED <<perms, grants, users>>

\* No row is 404; a name that another role has is refused by the index, and
\* is a 500.
UpdateRole(r) ==
  /\ Writing(r, "updateRole")
  /\ LET i == req[r].role
         n == req[r].name
     IN \/ (~LiveRole(i) \/ RolesNamed(n) \ {i} # {}) /\ Answer(r)
        \/ LiveRole(i) /\ n = NONE /\ Answer(r)
        \/ /\ LiveRole(i) /\ n # NONE /\ RolesNamed(n) \ {i} = {}
           /\ roles' = [roles EXCEPT ![i] = n]
           /\ Finish(r)
           /\ UNCHANGED <<perms, grants, users>>

\* Mutant: the foreign key of users cascades to nothing.
DeleteRoleUnchecked(r) ==
  /\ Writing(r, "deleteRole")
  /\ LiveRole(req[r].role)
  /\ roles' = [roles EXCEPT ![req[r].role] = GONE]
  /\ grants' = {g \in grants : g[1] # req[r].role}
  /\ Finish(r)
  /\ UNCHANGED <<perms, users>>

Held(i) == \E u \in Users : users[u] = i

\* 500 if the role is not there (deleteByID), or if an account has it
\* (ON DELETE RESTRICT); its grants go with it (ON DELETE CASCADE).
DeleteRole(r) ==
  /\ Writing(r, "deleteRole")
  /\ LET i == req[r].role
     IN \/ (~LiveRole(i) \/ Held(i)) /\ Answer(r)
        \/ /\ LiveRole(i) /\ ~Held(i)
           /\ roles' = [roles EXCEPT ![i] = GONE]
           /\ grants' = {g \in grants : g[1] # i}
           /\ Finish(r)
           /\ UNCHANGED <<perms, users>>

\* The foreign keys refuse a role or permission deleted since it was checked.
Assign(r) ==
  /\ Writing(r, "assign")
  /\ LET g == <<req[r].role, req[r].perm>>
         referable == LiveRole(g[1]) /\ LivePerm(g[2])
     IN \/ ~referable /\ Answer(r)
        \/ /\ referable
           /\ grants' = grants \cup {g}
           /\ Finish(r)
           /\ UNCHANGED <<roles, perms, users>>

\* 204 whether or not there was such a grant.
Revoke(r) ==
  /\ Writing(r, "revoke")
  /\ grants' = grants \ {<<req[r].role, req[r].perm>>}
  /\ Finish(r)
  /\ UNCHANGED <<roles, perms, users>>

CreatePerm(r) ==
  /\ Writing(r, "createPerm")
  /\ \/ PermsNamed(req[r].name) # {} /\ Answer(r)
     \/ /\ PermsNamed(req[r].name) = {}
        /\ InsertPerm(req[r].name)
        /\ Finish(r)
        /\ UNCHANGED <<roles, grants, users>>

DeletePerm(r) ==
  /\ Writing(r, "deletePerm")
  /\ LET p == req[r].perm
     IN \/ ~LivePerm(p) /\ Answer(r)
        \/ /\ LivePerm(p)
           /\ perms' = [perms EXCEPT ![p] = GONE]
           /\ grants' = {g \in grants : g[2] # p}
           /\ Finish(r)
           /\ UNCHANGED <<roles, users>>

\* UserRepo.UpdateRole, and the INSERT of a registration: the foreign key
\* refuses a role that is gone, the index of users an e-mail that is taken.
SetUserRole(r) ==
  /\ pc[r] = "write" /\ req[r].op \in {"changeRole", "register"}
  /\ LET refused == \/ ~LiveRole(req[r].role)
                    \/ req[r].op = "register" /\ users[req[r].user] # NONE
     IN \/ refused /\ Answer(r)
        \/ /\ ~refused
           /\ users' = [users EXCEPT ![req[r].user] = req[r].role]
           /\ Finish(r)
           /\ UNCHANGED <<roles, perms, grants>>

\* A statement returns an error without effect: 500.
StatementFails(r) == pc[r] # "idle" /\ Answer(r)

Write(r) == \/ CreateRole(r) \/ UpdateRole(r) \/ DeleteRole(r) \/ Assign(r)
            \/ Revoke(r) \/ CreatePerm(r) \/ DeletePerm(r) \/ SetUserRole(r)

Handle(r) == \/ Arrive(r) \/ CheckName(r) \/ CheckRole(r) \/ CheckPerm(r)
             \/ CheckUser(r) \/ FindDefault(r) \/ Write(r) \/ StatementFails(r)

\* The migrations have inserted the default role.
Init ==
  /\ roles = [i \in RoleIds |-> IF i = 1 THEN DefaultRole ELSE FREE]
  /\ perms = [p \in PermIds |-> FREE]
  /\ grants = {}
  /\ users = [u \in Users |-> NONE]
  /\ boot = 1
  /\ pc = [r \in Requests |-> "idle"]
  /\ req = [r \in Requests |-> NoCall]

Next == Seed \/ Restart \/ \E r \in Requests : Handle(r)

Spec == Init /\ [][Next]_vars

-----------------------------------------------------------------------------
(* Properties *)

\* Every variable has a value the code can give it.
TypeOK ==
  /\ roles \in [RoleIds -> RoleNames \cup {FREE, GONE}]
  /\ perms \in [PermIds -> PermNames \cup {FREE, GONE}]
  /\ grants \subseteq RoleIds \X PermIds
  /\ users \in [Users -> RoleIds \cup {NONE}]
  /\ boot \in 1 .. Served
  /\ pc \in [Requests -> Locations]
  /\ req \in [Requests -> AdminCalls \cup Registrations \cup {NoCall}]

\* Whatever overlaps: names stay unique, grants link rows that exist, and
\* every account has a role that exists, which is what lets GetWithRole and
\* RequireRole read the role of any account.
ReferencesHold ==
  /\ \A i, j \in RoleIds : LiveRole(i) /\ roles[i] = roles[j] => i = j
  /\ \A p, q \in PermIds : LivePerm(p) /\ perms[p] = perms[q] => p = q
  /\ \A g \in grants : LiveRole(g[1]) /\ LivePerm(g[2])
  /\ \A u \in Users : users[u] # NONE => LiveRole(users[u])

\* What SeedData inserts is there.
Seeded ==
  /\ \A k \in DOMAIN SeedRoles : RolesNamed(SeedRoles[k]) # {}
  /\ \A k \in DOMAIN SeedPerms : PermsNamed(SeedPerms[k]) # {}
  /\ \A k \in DOMAIN SeedRoles : RolesNamed(SeedRoles[k]) \X Granted(SeedRoles[k]) \subseteq grants
  /\ users[AdminUser] # NONE

\* A step of the seed takes nothing back.
SeedKeeps ==
  /\ \A i \in RoleIds : LiveRole(i) => roles'[i] = roles[i]
  /\ \A p \in PermIds : LivePerm(p) => perms'[p] = perms[p]
  /\ grants \subseteq grants'
  /\ \A u \in Users : users[u] # NONE => users'[u] = users[u]
  /\ Seeded => UNCHANGED tables

SeedStep == (boot # boot' /\ boot' # 1) => SeedKeeps /\ (Serving' => Seeded')

\* However the process died and whatever admins deleted or renamed before:
\* when requests are served again all defaults are there, and on the way there
\* the seed changed no role, permission, grant or account there was, and
\* nothing at all if nothing was missing ("Safe to call multiple times").
SeedIsSafe == [][SeedStep]_vars

\* Nobody is an admin, and no request in flight can make anybody one.
LockedOut ==
  /\ users[AdminUser] # NONE
  /\ Admins = {}
  /\ \A r \in Requests :
       pc[r] # "idle" => /\ req[r].op = "register"
                         /\ req[r].role \in RoleIds => roles[req[r].role] # AdminRole

StaysLockedOut == LockedOut => LockedOut'

\* Admins come from admins: with none left and none of their requests still
\* running, no registration, restart or seed makes one.  So nobody gains the
\* role by another way, and renaming the role 'admin' or changing the last
\* admin's role cannot be undone through the program.
AdminsComeFromAdmins == [][StaysLockedOut]_vars
=============================================================================
