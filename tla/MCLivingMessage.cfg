SPECIFICATION LivingSpec
CONSTANTS
  Sessions = {s1, s2}
  Threads = {k}
  ThreadOf <- MCThreadOf
  MaxMessages = 2
  MaxPosts = 2
  MaxCalls = 2
INVARIANTS OnlyItsResultEndsIt DeferredUpdateHasTimer
SYMMETRY Symmetry
CHECK_DEADLOCK FALSE
