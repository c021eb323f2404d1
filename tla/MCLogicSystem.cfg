\* Safety, liveness and refinement: two sessions, three messages.
SPECIFICATION FairSpec
CONSTANTS
  Sessions = {s1, s2}
  Registered = {login}
  Unregistered = {unknown}
  MaxPosts = 3
INVARIANTS
  NoLostWakeup
PROPERTIES
  PostNotStarved
  StopCompletes
  ImplementsMailbox
\* The process ends: after Join nothing happens any more, and a worker that
\* misses the stop notification leaves the destructor in join for ever.
CHECK_DEADLOCK FALSE
