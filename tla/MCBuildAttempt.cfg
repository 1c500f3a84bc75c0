SPECIFICATION FairSpec
CONSTANTS
  c1 = c1
  c2 = c2
  Cmd = {c1, c2}
  None = None
  MaxAttempts = 2
  MaxRequeues = 1
  MaxFails = 1
  StartsApart = TRUE
  StopsInPeace = TRUE
  JobsRecorded = TRUE
INVARIANTS
  JobsKnown
  NeverChain
PROPERTIES
  OutcomeKept
  WatchEnds
CHECK_DEADLOCK FALSE
