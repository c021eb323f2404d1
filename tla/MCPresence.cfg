\* Two servers, one with two connections and one with one; three logins.
SPECIFICATION Spec
CONSTANTS
  s1 = s1
  s2 = s2
  s3 = s3
  alice = alice
  bob = bob
  chatserver1 = chatserver1
  chatserver2 = chatserver2
  Sessions <- ThreeSessions
  Servers <- TwoServers
  Home <- OnTwoServers
  Uids <- TwoUsers
  NoUid = NoUid
  NoSession = NoSession
  NoServer = NoServer
  MaxLogins = 3
  RedisMayFail = FALSE
INVARIANTS
  TypeOK
  NoStaleBinding
  ReachableWhenLoggedIn
  LoginCountExact
  RoutableByUip
SYMMETRY Symmetry
\* Every connection ends and no new one comes: the behaviour stops.
CHECK_DEADLOCK FALSE
