SPECIFICATION Spec
CHECK_DEADLOCK FALSE
SYMMETRY Symmetric
CONSTANTS
  c1 = c1
  c2 = c2
  Conn = {c1, c2}
  StatsEnabled = TRUE
  N = 3
  Outcomes = {"hit", "miss", "error_write"}
  MaxSec = 4
  MaxDelay = 2
  MaxSwaps = 1
INVARIANT SnapshotConserves
INVARIANT StoreOfSnapshot
INVARIANT RateIsWindow
