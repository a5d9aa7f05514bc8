SPECIFICATION Spec
CONSTANTS
  r1 = r1
  r2 = r2
  a = a
  u = u
  admin = admin
  user = user
  x = x
  usersRead = usersRead
  NONE = NONE
  FREE = FREE
  GONE = GONE
  Requests = {r1, r2}
  Users = {a, u}
  AdminUser = a
  MaxRoleId = 3
  MaxPermId = 2
  RoleNames = {admin, user, x}
  PermNames = {usersRead}
  SeedRoles <- MCSeedRoles
  SeedPerms <- MCSeedPerms
  AdminRole = admin
  DefaultRole = user
  DefaultGrants <- MCDefaultGrants
SYMMETRY Symmetry
INVARIANTS
  TypeOK
  ReferencesHold
PROPERTIES
  SeedIsSafe
  AdminsComeFromAdmins
