\* Three commands that overlap and die anywhere, one reader.
SPECIFICATION Spec
CONSTANTS
  Procs = {p1, p2, p3}
  Readers = {r1}
SYMMETRY Symmetry
INVARIANTS SentOnlyProven RosterKept
PROPERTY PurgeLeavesNothing
CHECK_DEADLOCK FALSE
