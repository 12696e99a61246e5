\* Two runs that overlap, with the default retention.
SPECIFICATION Spec
CONSTANTS
  Procs = {p1, p2}
  Readers = {r1}
  Contents = {a, b}
  Passing = {a, b}
  Retain = 3
  MaxSecond = 0
  MaxPerSecond = 2
  MaxWrites = 2
  None = None
PROPERTIES BuildsImmutable
CHECK_DEADLOCK FALSE
