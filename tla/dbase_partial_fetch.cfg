SPECIFICATION FairSpec
CONSTANTS
  f1 = f1
  f2 = f2
  File = {f1, f2}
  NObj = 1
  MaxVersion = 2
  FetchSlots = 2
  LoadSlots = 2
  MaxCrashes = 0
  Faults = {"fetch"}
PROPERTY FreshAfterFaults
