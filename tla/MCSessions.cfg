SPECIFICATION Spec
CONSTANTS
  Requests = {r1, r2}
  Null = Null
  Kinds = {"get", "startup", "ci", "show", "mutate"}
INVARIANTS
  SharedHandshake
  AnswersOwnRequest
PROPERTIES
  LeavingHarmsNobody
  ImplementsContract
  EveryRequestEnds
\* Every request may have ended.
CHECK_DEADLOCK FALSE
