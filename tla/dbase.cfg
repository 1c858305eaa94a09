SPECIFICATION TimedSpec
CONSTANTS
  f1 = f1
  f2 = f2
  File = {f1, f2}
  NObj = 2
  MaxVersion = 2
  FetchSlots = 1
  LoadSlots = 2
  MaxCrashes = 1
  Faults = {"mkdir", "fetch", "parse"}
  Day = 4
  DailyAt = 2
  PollInterval = 3
  RetryOnFailure = 1
INVARIANT WholeFiles
INVARIANT ServedIsCached
INVARIANT AllSourcesServed
PROPERTY SwapComplete
PROPERTY ImplementsMirror
PROPERTY EventuallyFresh
PROPERTY AnchorKept
