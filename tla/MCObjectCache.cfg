SPECIFICATION FairSpec
CONSTANTS
  Proc = {p1, p2}
  File = {f1}
  Content = {"s", "s2", "none"}
  Absent = "none"
  codeOf <- Code
  Bare <- BareContents
  Speaking = {"s"}
  Ino = {i1, i2}
  None = None
  Faults <- AllFaults
  MaxEdits = 1
  MaxFaults = 1
INVARIANTS
  EntriesTrue
  NamesWhole
PROPERTIES
  ServesAsCompiled
  Heals
CHECK_DEADLOCK FALSE
