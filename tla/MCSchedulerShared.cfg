SPECIFICATION Spec
CONSTANTS
  t1 = t1
  t2 = t2
  u1 = u1
  u2 = u2
  daemon = daemon
  a = a
  b = b
  Tick = {t1}
  Cli = {u1}
  Daemon = daemon
  Thread <- MCThread
  Process <- MCProcess
  ProcOf <- MCProcOf
  Name = {a, b}
  NameOf <- MCTwoNames
  MaxConcurrentSessions = 1
  HasBeforeRun = TRUE
  Commands = {"load", "remove", "setEnabled", "run"}
  MaxNow = 1
  MaxRuns = 1
  MaxExits = 1
  JobId = {1}
  JobSchedules <- MCOneEvery
  SecondMs = 1
  Occurrences <- MCOccurrences
  NoTime = NoTime
  NoFingerprint = NoFingerprint
  LegacyStore <- MCEmpty
  FirstMain <- MCOneJob
  NoFile = NoFile
  Empty = Empty
  Torn = Torn
  NoData = NoData
INVARIANTS
  RunCountNeverOverstates
