\* Three users share up to two connections.
SPECIFICATION FairSpec
CONSTANTS
  Users = {worker, rpc, io}
  PoolSize = 2
  NoContext = NoContext
INVARIANTS
  OwnedOnce
  NoneLost
PROPERTIES
  NoEndlessWait
  CloseCompletes
\* After close() the users get no connection and the behaviour ends; and
\* close() may hang, which CloseCompletes delimits.
CHECK_DEADLOCK FALSE
