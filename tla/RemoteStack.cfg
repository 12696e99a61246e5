\* Calls of one principal; two ticks to a second, a window of two seconds.
SPECIFICATION StackSpec
CONSTANTS
  Requests = {r1, r2, r3}
  Principals = {a}
  Rpm = 1
  MaxInflight = 1
  Second = 2
  Window = 4
  MaxTime = 6
  Timeout = 1
INVARIANTS InflightExact RateBound RetryAfterHonest OneResponse
PROPERTY TimeoutFreesSlot
CHECK_DEADLOCK FALSE
