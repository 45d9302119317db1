CONSTANTS
  Projects = {1, 2}
  OldRecords = {1}
  ManyFiles = 2
  Writable <- MCWritable
  Records <- MCRecords
  Flags <- MCFlags
  Limit <- MCLimit
  Amounts = {1, 9}
  Derived = 9
  MaxEdits = 2
  MaxCommits = 2
SPECIFICATION Spec
INVARIANTS TypeOK ResourceUseIsNotMissed UnsupportedBlockerIsReported ValidatorAgrees WasteIsNoWork UnbookedRunsAgree BudgetReadersAgree
CHECK_DEADLOCK FALSE
