SPECIFICATION ObjectSpec
CONSTANTS
  None = None
  CleanupInterval = 3
  RetryInterval = 1
  Requests = {r1, r2}
  MaxFaults = 2
  Limit = 3
  Window = 8
  Second = 3
INVARIANT ObjectTypeOK
PROPERTIES
  NeverDropped
  CleanupRecurs
  FixedWindowSpec
  RefusedAgainOnlyAtReset
