\* The logic worker and two gRPC threads share up to three connections.
SPECIFICATION FairSpec
CONSTANTS
  Users = {worker, rpc1, rpc2}
  Nesters = {worker}
  PoolSize = 3
  MaxFriends = 2
INVARIANTS
  NoneLost
PROPERTIES
  NoEndlessWait
\* A worker that needs two connections of a pool that was built with one
\* waits for ever, which NoEndlessWait delimits.
CHECK_DEADLOCK FALSE
