\* Two workers and a gRPC thread fill the cache of a user whose row changes.
SPECIFICATION FairSpec
CONSTANTS
  alice = alice
  w1 = w1
  w2 = w2
  r1 = r1
  Users <- OneUser
  Workers <- TwoWorkers
  RpcThreads <- OneThread
  MaxVersion = 2
  MayFail = TRUE
INVARIANTS
  CacheAsFilled
PROPERTIES
  RefreshBringsChanges
  MissedOnce
