SPECIFICATION FairSpec
CONSTANTS
  t1 = t1
  t2 = t2
  u1 = u1
  u2 = u2
  daemon = daemon
  a = a
  b = b
  Tick = {t1}
  Cli = {}
  Daemon = daemon
  Thread <- MCThread
  Process <- MCProcess
  ProcOf <- MCProcOf
  Name = {a, b}
  NameOf <- MCTwoNames
  MaxConcurrentSessions = 1
  HasBeforeRun = TRUE
  Commands = {}
  MaxNow = 4
  MaxRuns = 2
  MaxExits = 2
  JobId = {1, 2}
  JobSchedules <- MCOneEvery
  SecondMs = 1
  Occurrences <- MCOccurrences
  NoTime = NoTime
  NoFingerprint = NoFingerprint
  LegacyStore <- MCEmpty
  FirstMain <- MCTwoJobs
  NoFile = NoFile
  Empty = Empty
  Torn = Torn
  NoData = NoData
INVARIANTS
  TypeOK
  SlotsBelongToSessions
PROPERTIES
  NoInstantServedTwice
  StartsOnlyDueJobs
  DueJobsAreServed
