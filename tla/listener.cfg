SPECIFICATION ListenerFairSpec
CHECK_DEADLOCK FALSE
CONSTANTS
  c1 = c1
  c2 = c2
  a = a
  b = b
  Conn = {c1, c2}
  Addr = {a, b}
  Bind = a
  MaxListens = 4
  MaxAcceptErrors = 1
INVARIANT ListenerTypeOK
INVARIANT RunReturnsOnlyOnShutdown
INVARIANT OrphansAreOverwritten
INVARIANT BindAddrIsServed
PROPERTY ShutdownReturns
PROPERTY QueuedIsServed
