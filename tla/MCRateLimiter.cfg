SPECIFICATION FairSpec
CONSTANTS
  r1 = r1
  r2 = r2
  a = a
  b = b
  l1 = l1
  l2 = l2
  l3 = l3
  NULL = NULL
  Requests = {r1, r2}
  Clients = {a, b}
  Limiters = {l1, l2, l3}
  Burst = 2
  Period = 2
  IdleLimit = 5
  MaxStall = 1
INVARIANTS
  TypeOK
  AsksOwnBucket
PROPERTIES
  ImplementsTokenBuckets
  EntriesGo
