SPECIFICATION SegmentSpec
CONSTANTS
  c1 = c1
  c2 = c2
  ToolCalls = {c1, c2}
  Routers <- MCRouters
  Limit = 2
  MaxVlan = 3
  Wishes <- MCWishes
  MaxFailed = 1
  MaxLate = 1
INVARIANTS
  ReportedSegmentsAreReal
PROPERTIES
  OnlyOwnTornDown
  EveryToolCallEnds
\* Every call may have ended.
CHECK_DEADLOCK FALSE
