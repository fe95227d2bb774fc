SPECIFICATION Spec
CONSTANTS
  p1 = p1
  p2 = p2
  e1 = e1
  e2 = e2
  Processes <- MCProcesses
  Earlier <- MCEarlier
  Initial <- MCInitial
  Time <- MCTime
  Sizes <- MCSizes
  MaxCount = 2
  MaxAge = 1
  MaxTotal = 3
  MaxTries = 2
  Null = Null
INVARIANTS
  Exclusive
  StoreIsWhole
  RetentionBounded
PROPERTIES
  LeftLockStays
  EveryCallEnds
\* Every process may have ended.
CHECK_DEADLOCK FALSE
