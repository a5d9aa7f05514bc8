SPECIFICATION FairSpec
CONSTANTS
  r1 = r1
  r2 = r2
  r3 = r3
  p1 = p1
  p2 = p2
  p3 = p3
  NULL = NULL
  Requests = {r1, r2, r3}
  Ids = {p1, p2, p3}
  Roots <- MCRoots
  Bases <- OneBase
  MaxSlugAttempts = 2
  MaxClock = 1
PROPERTIES
  RequestsFinish
