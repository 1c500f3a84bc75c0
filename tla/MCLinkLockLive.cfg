SPECIFICATION FairSpec
CONSTANTS
  a1 = a1
  a2 = a2
  b1 = b1
  hostA = hostA
  hostB = hostB
  None = None
  Proc = {a1, b1}
  Host = {hostA, hostB}
  hostOf <- OneAndOne
  Beats = {a1}
  Attempts = 2
  LockStale = 2
  BreakerStale = 1
  HandoffWait = 1
  MaxClock = 4
  MaxCrashes = 1
  MaxErrors = 2
  TimelyHolders = TRUE
  TimelyBreakers = TRUE
  BreakersFinish = FALSE
PROPERTIES AcquireEnds CorpseGoes
CHECK_DEADLOCK TRUE
