SPECIFICATION Spec
CONSTANTS
  r1 = r1
  Runner = {r1}
  MaxRetries = 1
  MaxFaults = 2
  None = None
  DiscoverEvery = 2
PROPERTIES OpenRunIsClosed EndIsReported
CHECK_DEADLOCK FALSE
