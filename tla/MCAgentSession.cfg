SPECIFICATION Spec
CONSTANTS
  None = None
  Clients = {"job", "dm"}
  MaxShells = 2
  MaxLines = 3
INVARIANTS TypeOK StallTimerMeansOpenCall SuccessMeansUnguarded
PROPERTY SessionIsReported
CHECK_DEADLOCK FALSE
