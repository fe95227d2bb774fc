SPECIFICATION ProceduresSpec
CONSTANTS
  None = None
  NoServer = NoServer
  Logins = {l1, l2}
  Endpoints = {e1, e2}
  Passwords = 2
  Addresses = 2
  Budget = 30
  AttemptTimeout = 10
  Attempts = 5
  Tools = {"internet", "dns", "device", "wifi", "client"}
  Said = {"yes", "no"}
  Paths = {"available", "unavailable"}
  MayRefuse = {"routes", "dns", "runtime", "proxyConfig", "associations"}
  Servers = {s1, s2}
  Calls = {c1, c2}
  Requests = {r1}
  MaxTries = 1
  MaxPending = 1
  LockAttempts = 2
INVARIANTS
  SavedAsChecked
  VerdictIsBacked
  FailureProvesNothing
  JournalIsSound
PROPERTIES
  ProceduresEnd
CHECK_DEADLOCK FALSE
