SPECIFICATION Spec
CONSTANTS
  f1 = f1
  f2 = f2
  File = {f1, f2}
  Commit <- Trees
  None = None
  MaxEdits = 1
  MaxCuts = 0
  Upsets = {"detach"}
PROPERTIES
  EditsKept
CHECK_DEADLOCK FALSE
