SPECIFICATION Spec
CONSTANTS
  Calls = {c1, c2}
  Limit = 1
  Window = 2
  MaxNow = 2
INVARIANTS
  OneAtATime
  JobsAccounted
  RateBounded
PROPERTIES
  EveryCallEnds
\* Every call may have ended; only the clock goes on.
CHECK_DEADLOCK FALSE
