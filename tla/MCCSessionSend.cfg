\* Safety and liveness of the send queue of one connection.
SPECIFICATION FairSpec
CONSTANTS
  Sizes <- MCSizes
  MAX_LENGTH = 2048
  MAX_SENDQUE = 2
  MaxCalls = 5
INVARIANTS
  TypeOK
  OneWriteAtATime
  SentInOrder
  LengthFaithful
PROPERTIES
  MuteAfterFailure
  DeliveredOrBroken
\* After MaxCalls calls and the close of the socket nothing is left to do.
CHECK_DEADLOCK FALSE
