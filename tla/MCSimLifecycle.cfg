SPECIFICATION Spec
CONSTANTS
  None = None
  MaxRestarts = 3
  Segments = 2
  MaxRequeues = 0
  MaxFails = 0
  Fails <- NoFails
  Commands <- Batch
  UserWaits = TRUE
  JobsRecorded = TRUE
  DeletesRemove = FALSE
  QuickLaunch = TRUE
INVARIANTS
  OneRun
  JobsKnown
PROPERTIES
  EndIsTrue
CHECK_DEADLOCK FALSE
