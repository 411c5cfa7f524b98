SPECIFICATION FairSpec
CONSTANTS
  Requests = {r1, r2, r3}
  FailureThreshold = 5
  ResetTimeout = 2
  MaxAttempts = 3
  Backoff = 1
  Timeout = 2
INVARIANT TypeOK
PROPERTIES
  BlockedLoadShrinks
  OpenCircuitLapses
  RequestAnswered
