SPECIFICATION FairSpec
CONSTANTS
  Workers = {w1, w2}
  Main = main
  Servers = 2
  Rides = 1
  Core = {zone, items}
  Supplementary = {s1}
  Levels = {l1, l2, l3}
  StageTable = stages
  FileCap = 1
  MaxTotal = 3
  MaxRedirects = 1
  MaxRetries = 1
  Injected = FALSE
INVARIANTS KeptWithinCap OvershootBounded CleanReuse
PROPERTIES AttemptsRunOut StagedWhole RunEnds
CHECK_DEADLOCK FALSE
