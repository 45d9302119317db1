SPECIFICATION RunnerSpec
CONSTANTS
  r1 = r1
  r2 = r2
  Runner = {r1, r2}
  MaxRetries = 1
  MaxFaults = 1
  None = None
INVARIANT RunnerTypeOK
PROPERTY NoAttemptAfterStop
CHECK_DEADLOCK FALSE
