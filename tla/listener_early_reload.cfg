SPECIFICATION ListenerSpec
CHECK_DEADLOCK FALSE
CONSTANTS
  c1 = c1
  a = a
  b = b
  Conn = {c1}
  Addr = {a, b}
  Bind = a
  MaxListens = 3
  MaxAcceptErrors = 0
INVARIANT NoOrphanListener
