\* Safety, liveness and refinement of the read path of one connection.
SPECIFICATION FairSpec
CONSTANTS
  Frames <- MCFrames
  MAX_LENGTH = 2048
  MSG_CHAT_LOGIN = 2001
  SIZE_MAX = 65535
  MaxFrames = 3
INVARIANTS
  TypeOK
PROPERTIES
  ImplementsMailbox
  FramesDelivered
  RefusedIsClosed
\* The client writes MaxFrames frames at most: the behaviour stops.
CHECK_DEADLOCK FALSE
