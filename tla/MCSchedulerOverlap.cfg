SPECIFICATION Spec
CONSTANTS
  t1 = t1
  t2 = t2
  u1 = u1
  u2 = u2
  daemon = daemon
  a = a
  b = b
  Tick = {t1, t2}
  Cli = {}
  Daemon = daemon
  Thread <- MCThread
  Process <- MCProcess
  ProcOf <- MCProcOf
  Name = {a, b}
  NameOf <- MCTwoNames
  MaxConcurrentSessions = 1
  HasBeforeRun = FALSE
  Commands = {}
  MaxNow = 1
  MaxRuns = 1
  MaxExits = 0
  JobId = {1, 2}
  JobSchedules <- MCOneEvery
  SecondMs = 1
  Occurrences <- MCOccurrences
  NoTime = NoTime
  NoFingerprint = NoFingerprint
  LegacyStore <- MCEmpty
  FirstMain <- MCTwoJobs
  NoFile = NoFile
  Empty = Empty
  Torn = Torn
  NoData = NoData
INVARIANTS
  ConcurrencyLimit
