\* Is a logged-in user always bound to a session?
SPECIFICATION Spec
CONSTANTS
  s1 = s1
  s2 = s2
  s3 = s3
  alice = alice
  bob = bob
  chatserver1 = chatserver1
  chatserver2 = chatserver2
  Sessions <- TwoSessions
  Servers <- OneServer
  Home <- OnOneServer
  Uids <- TwoUsers
  NoUid = NoUid
  NoSession = NoSession
  NoServer = NoServer
  MaxLogins = 2
  RedisMayFail = FALSE
INVARIANTS
  LoggedInIsBound
\* Every connection ends and no new one comes: the behaviour stops.
CHECK_DEADLOCK FALSE
