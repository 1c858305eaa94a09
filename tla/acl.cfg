SPECIFICATION Spec
CHECK_DEADLOCK FALSE
CONSTANTS
  W = 3
  V4 <- MCV4
  LoopbackV4 <- MCLoopbackV4
  Loopback <- MCLoopback
  Configs <- MCConfigs
INVARIANT AclIsPolicy
