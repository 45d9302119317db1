SPECIFICATION TimerSpec
CONSTANTS
  SecondMs = 2
  Occurrences <- MCOccurrences
  NoTime = NoTime
  TimerSchedules <- MCSchedules
  MaxClock = 12
INVARIANTS
  AnchoredIntervalTakesNextGridInstant
  ComputedTimeIsInTheFuture
PROPERTY RunMovesTimeForward
