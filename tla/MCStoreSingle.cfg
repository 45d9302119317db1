SPECIFICATION Spec
CONSTANTS
  c1 = c1
  Thread = {c1}
  Process = {c1}
  ProcOf <- MCOwnProcess
  JobId = {1, 2}
  JobSchedules <- MCTwoSchedules
  SecondMs = 1
  Occurrences <- MCOccurrences
  NoTime = NoTime
  NoFingerprint = NoFingerprint
  LegacyStore <- MCLegacy
  FirstMain = NoFile
  NoFile = NoFile
  Empty = Empty
  Torn = Torn
  NoData = NoData
  Ops = {"load", "add", "remove", "setEnabled", "record", "edit"}
  MayDie = {c1}
  MaxNow = 1
  MaxRuns = 1
INVARIANTS
  AddedJobsPersist
  QuiescentFileParses
  NextRunFollowsSchedule
PROPERTY ImplementsJobTable
