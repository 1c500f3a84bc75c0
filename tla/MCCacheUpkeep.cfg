SPECIFICATION CollectSpec
CONSTANTS
  Key = {k1}
  Build = {b1}
  LogId = {l1, l2, l3}
  None = None
  Age = 1
  Aims <- AllAims
  ToSize = 1
  MaxTime = 2
  MaxGen = 2
  Cmd = {c1, c2}
  x1 = x1
  x2 = x2
  y1 = y1
  g1 = g1
  g2 = g2
  Gen = {g1, g2}
  Sha = {x1, x2, y1}
  genOf <- Generations
  Grace = 1
  MaxDeaths = 1
  MaxLines = 2
  Height = 1
  Seed = 3
  Steps = {1}
  Hits = {1, 5}
  MaxCuts = 1
  MaxSteps = 6
SYMMETRY Symmetry
INVARIANTS
  SparesUsed
  RemovesWhatItSaw
  TreesThere
  LogWhole
  FrameDue
PROPERTIES
  FoldKeepsUses
  ViewStays
CHECK_DEADLOCK FALSE
