SPECIFICATION HomeSpec
CONSTANTS
  f1 = f1
  f2 = f2
  File = {f1, f2}
  Commit <- Trees
  MaxEdits = 1
  MaxCuts = 2
  Upsets = {}
  Cmd = {c1, c2}
  Alias = {a, b}
  Root = {r1, r2}
  Shared = {b}
  Sim = {s1, s2}
  Ino = {1, 2, 3}
  MaxStarts = 4
  MaxId = 2
  MaxBuild = 3
  Keep = 1
  MaxDeaths = 1
  MaxJobs = 2
  MaxSets = 2
  MaxRequeues = 1
  MaxFails = 1
  None = None
SYMMETRY Alike
INVARIANTS
  HomeTypeOK
  DatabaseTrue
  FrozenIsBuilt
  BuildsThere
  FetchedIsWhole
  JobsFound
  SuiteAlone
PROPERTIES
  UpdatesKeep
  EditsKept
CHECK_DEADLOCK FALSE
