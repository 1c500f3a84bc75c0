SPECIFICATION FairSpec
CONSTANTS
  None = None
  MaxRestarts = 2
  Segments = 2
  MaxRequeues = 1
  MaxFails = 0
  Fails <- NoFails
  Commands <- Careful
  UserWaits = TRUE
  JobsRecorded = TRUE
  DeletesRemove = TRUE
  QuickLaunch = TRUE
INVARIANTS
  SimInv
  RunIsActive
PROPERTIES
  ReapsTheDead
  DeleteSparesJobs
  JobsLeave
CHECK_DEADLOCK FALSE
