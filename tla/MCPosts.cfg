SPECIFICATION Spec
CONSTANTS
  r1 = r1
  r2 = r2
  r3 = r3
  p1 = p1
  p2 = p2
  p3 = p3
  NULL = NULL
  Requests = {r1, r2, r3}
  Ids = {p1, p2, p3}
  Roots <- MCRoots
  Bases <- MCBases
  MaxSlugAttempts = 2
  MaxClock = 2
SYMMETRY Symmetry
INVARIANTS
  TypeOK
  SlugsNeverShared
  AttemptsForced
  StampMatchesStatus
  AnswersHold
  CountersNeverOverstate
PROPERTIES
  RowsOnlyAge
  NotFoundIsTrue
  ImplementsPublicBlog
