SPECIFICATION Spec
CONSTANTS
  d1 = d1
  d2 = d2
  a1 = a1
  a2 = a2
  o1 = o1
  o2 = o2
  Daemon = {d1, d2}
  Starter = {a1, a2}
  Stopper = {o1, o2}
  ChildOf <- MCChildOf
  Stale = Stale
  Nobody = Nobody
INVARIANTS TypeOK OneServiceRuns ServingDaemonIsFindable
PROPERTY TermEndsDaemon
CHECK_DEADLOCK FALSE
