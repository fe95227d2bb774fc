SPECIFICATION PoolSpec
CONSTANTS
  Ips <- MCIps
  Values <- MCValues
  Canonical <- MCCanonical
  NoIp <- MCNoIp
  MaxEntries = 2
  Steady = FALSE
  StaleThreshold = 1
  MaxNow = 2
INVARIANTS
  CandidatesAreRight
PROPERTIES
  ImplementsTiers
  OnlyTheOldestLeaves
