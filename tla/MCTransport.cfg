SPECIFICATION TransportSpec
CONSTANTS
  e1 = e1
  e2 = e2
  Ips <- MCTwoEdges
  Answers <- MCTwoAnswers
  MaxEntries = 2
  Steady = TRUE
  Senders = {s1, s2}
  Attempts = 2
  r1 = r1
  r2 = r2
  Requests <- MCTwoRequests
  Null = Null
  Cookies = {k1, k2, k3}
INVARIANTS
  SendsBounded
PROPERTIES
  HealthIsEarned
  LoginIsSound
  LanImplementsContract
  EverySendEnds
