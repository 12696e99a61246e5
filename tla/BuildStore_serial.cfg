\* Two runs that never overlap, crashes anywhere, one server, two retained builds.
SPECIFICATION FairSerialSpec
CONSTANTS
  Procs = {p1, p2}
  Readers = {r1}
  Contents = {a, b, bad}
  Passing = {a, b}
  Retain = 2
  MaxSecond = 1
  MaxPerSecond = 3
  MaxWrites = 4
  None = None
INVARIANTS TypeOK ActiveResolvable RetentionBound RollbackKept
PROPERTIES BuildsImmutable ImplementsActiveBuild ReaderConnects
CHECK_DEADLOCK FALSE
