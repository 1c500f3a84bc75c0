SPECIFICATION Spec
CONSTANTS
  None = None
  MaxRestarts = 2
  Segments = 1
  MaxRequeues = 0
  MaxFails = 1
  Fails <- BothFails
  Commands <- Ops
  UserWaits = TRUE
  JobsRecorded = FALSE
  DeletesRemove = FALSE
  QuickLaunch = TRUE
PROPERTIES
  ReaperSparesRuns
CHECK_DEADLOCK FALSE
