SPECIFICATION FairSpec
CHECK_DEADLOCK FALSE
CONSTANTS
  i1 = i1
  i2 = i2
  Intervals = {i1, i2}
  Interval = i1
  MaxClock = 3
  MaxSets = 2
INVARIANT TypeOK
INVARIANT HttpNotBehindFile
PROPERTY FileAdvances
PROPERTY IntervalApplied
