SPECIFICATION Spec
CONSTANTS
  Calls = {c1, c2}
  Configs = {a, b}
  Null = Null
  Mode = "lan"
  Rest = 1
SYMMETRY MCSymmetry
INVARIANTS
  CacheIsSound
PROPERTIES
  AnswersAreCurrent
  ClaimsWereTrue
CHECK_DEADLOCK FALSE
