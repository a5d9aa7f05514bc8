SPECIFICATION Spec
CONSTANTS
  r1 = r1
  r2 = r2
  r3 = r3
  p1 = p1
  NULL = NULL
  Requests = {r1, r2, r3}
  Ids = {p1}
  Roots <- MCRoots
  Bases <- MCBases
  MaxSlugAttempts = 2
  MaxClock = 2
PROPERTIES
  PublishedKeepsStamp
