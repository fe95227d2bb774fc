SPECIFICATION Spec
CONSTANTS
  i1 = i1
  i2 = i2
  Ids = {i1, i2}
  Initially <- MCInitially
  Processes = {p1, p2}
  Gone = Gone
  Null = Null
  MaxFaults = 1
  MaxTries = 3
INVARIANTS
  RegistryConsistent
PROPERTIES
  SecretsKept
  EveryCallEnds
\* Every command may have ended.
CHECK_DEADLOCK FALSE
