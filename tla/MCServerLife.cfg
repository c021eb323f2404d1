\* Stops, crashes and restarts; Redis commands may fail.
SPECIFICATION LifeSpec
CONSTANTS
  s1 = s1
  s2 = s2
  alice = alice
  chatserver1 = chatserver1
  chatserver2 = chatserver2
  Sessions <- TwoSessions
  Servers <- TwoServers
  Home <- OnTwoServers
  Uids <- OneUser
  NoUid = NoUid
  NoSession = NoSession
  NoServer = NoServer
  MaxLogins = 2
  Unstable <- OneServer
  MaxRestarts = 1
  MaxLost = 1
  RedisMayFail = TRUE
INVARIANTS
  BindingsFitSessions
  CountSinceStart
  RoutableAfterCrash
  StoppedIsUnlisted
\* The servers stop and are not started for ever: the behaviour stops.
CHECK_DEADLOCK FALSE
