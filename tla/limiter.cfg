SPECIFICATION Spec
CONSTANTS
  Key = {k1, k2}
  Caller = {p1, p2}
  Burst = 3
  Rate = 1
  IdleTTL = 3
  MaxTime = 6
  MaxStall = 1
  MaxBuckets = 4
SYMMETRY ClientSymmetry
PROPERTY ImplementsTokenBucket
CHECK_DEADLOCK FALSE
