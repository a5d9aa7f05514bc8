SPECIFICATION Spec
CONSTANTS
  r1 = r1
  r2 = r2
  t1 = t1
  t2 = t2
  a = a
  b = b
  NULL = NULL
  Requests = {r1, r2}
  Tokens = {t1, t2}
  Users = {a, b}
  Lifetime = 2
  IdleTimeout = 1
INVARIANTS
  TypeOK
  SessionsKeepOwner
  AdminsAct
PROPERTIES
  SessionsEnd
