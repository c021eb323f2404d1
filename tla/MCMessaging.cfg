\* Applications, acceptances and texts, one failure; one user moves once.
SPECIFICATION FairSpec
CONSTANTS
  alice = alice
  bob = bob
  chatserver1 = chatserver1
  chatserver2 = chatserver2
  Users <- TwoUsers
  Servers <- TwoServers
  NoServer = NoServer
  Kinds <- All
  MaxLogins <- OneTwo
  MaxRequests = 2
  MaxFailures = 1
\* All logins and requests are used up: the behaviour stops.
CHECK_DEADLOCK FALSE
INVARIANTS
  InformedOrMissed
  ToldIsStored
  AcceptedAreFriends
  TextsInOrder
  TextDelivered
PROPERTIES
  HandlersEnd
