\* One text, no failure: which ids do the users receive?
SPECIFICATION Spec
CONSTANTS
  alice = alice
  bob = bob
  chatserver1 = chatserver1
  chatserver2 = chatserver2
  Users <- TwoUsers
  Servers <- TwoServers
  NoServer = NoServer
  Kinds <- Texts
  MaxLogins <- Once
  MaxRequests = 1
  MaxFailures = 0
\* All logins and requests are used up: the behaviour stops.
CHECK_DEADLOCK FALSE
INVARIANTS
  RspAnswersRequest
