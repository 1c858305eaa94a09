SPECIFICATION FairSpec
CHECK_DEADLOCK FALSE
CONSTANTS
  c1 = c1
  c2 = c2
  a = a
  b = b
  Conn = {c1, c2}
  Addr = {a, b}
  Bind = a
  MaxListens = 2
  MaxAcceptErrors = 0
  MaxConcurrent = 1
  StatsEnabled = TRUE
INVARIANT HandlerTypeOK
INVARIANT SemAccounting
INVARIANT EveryPathCounted
INVARIANT TotalLeads
INVARIANT LoggedStateAgrees
INVARIANT DrainedAndCounted
PROPERTY ShutdownEnds
