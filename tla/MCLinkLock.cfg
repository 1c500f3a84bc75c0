SPECIFICATION Spec
CONSTANTS
  a1 = a1
  a2 = a2
  b1 = b1
  hostA = hostA
  hostB = hostB
  None = None
  Proc = {a1, a2, b1}
  Host = {hostA, hostB}
  hostOf <- TwoAndOne
  Beats = {a1}
  Attempts = 2
  LockStale = 2
  BreakerStale = 1
  HandoffWait = 1
  MaxClock = 3
  MaxCrashes = 1
  MaxErrors = 0
  TimelyHolders = TRUE
  TimelyBreakers = TRUE
  BreakersFinish = TRUE
INVARIANTS MutualExclusion
PROPERTIES NeverStolen ImplementsService
CHECK_DEADLOCK TRUE
