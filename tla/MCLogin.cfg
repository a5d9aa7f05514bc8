SPECIFICATION Spec
CONSTANTS
  r1 = r1
  r2 = r2
  r3 = r3
  NULL = NULL
  Requests = {r1, r2, r3}
  MaxFailedLoginAttempts = 2
  LockoutDuration = 3
INVARIANTS
  TypeOK
  LockCountsEveryFailure
  LateGuessesBounded
PROPERTIES
  LockEnds
