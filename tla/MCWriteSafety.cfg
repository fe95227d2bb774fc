SPECIFICATION Spec
CONSTANTS
  Calls = {c1, c2}
  Interfaces <- MCInterfaces
  Requests <- MCRequests
  Null = Null
INVARIANTS
  AuditAgrees
PROPERTIES
  BackupProtects
  ReportedChangeWasSeen
  EveryCallEnds
