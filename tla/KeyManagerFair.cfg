SPECIFICATION FairSpec
CONSTANTS
  Keys = {k1, k2}
  Handlers = {h1}
  None = None
  MaxTime = 2
  Expiries = {0, 1}
  Graces = {0, 1}
  MaxFaults = 1
  InputGates = TRUE
INVARIANT TypeOK
PROPERTIES
  ExpiredKeyRetired
  DeadEntriesCleared
  GraceRecordCleared
