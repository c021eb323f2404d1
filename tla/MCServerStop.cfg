\* A server with two connections closes them and stops; Redis commands may
\* fail.
SPECIFICATION FairLifeSpec
CONSTANTS
  s1 = s1
  s2 = s2
  alice = alice
  chatserver1 = chatserver1
  chatserver2 = chatserver2
  Sessions <- TwoSessions
  Servers <- OneServer
  Home <- OnOneServer
  Uids <- OneUser
  NoUid = NoUid
  NoSession = NoSession
  NoServer = NoServer
  MaxLogins = 2
  Unstable <- OneServer
  MaxRestarts = 1
  MaxLost = 1
  RedisMayFail = TRUE
PROPERTIES
  ClosedUserUnbound
  ShutdownCompletes
\* The servers stop and are not started for ever: the behaviour stops.
CHECK_DEADLOCK FALSE
