\* Principals come and go while time passes; two ticks are a whole window.
SPECIFICATION FairSpec
CONSTANTS
  Requests = {r1, r2}
  Principals = {a, b}
  Rpm = 2
  MaxInflight = 1
  Second = 1
  Window = 2
  MaxTime = 3
PROPERTY ChurnReclaimed
CHECK_DEADLOCK FALSE
