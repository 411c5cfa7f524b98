SPECIFICATION HalfOpenSpec
CONSTANTS
  Requests = {r1, r2}
  FailureThreshold = 5
  ResetTimeout = 2
  MaxAttempts = 3
  Backoff = 1
  Timeout = 2
PROPERTY HalfOpenReopens
