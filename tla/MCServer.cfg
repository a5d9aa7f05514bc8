SPECIFICATION FairSpec
CONSTANTS
  Requests = {r1, r2}
  PoolSize = 1
  MaxSignals = 2
  MaxEntered = 3
INVARIANTS
  StopsClean
  CountedAndAnswered
PROPERTY
  StopsEventually
