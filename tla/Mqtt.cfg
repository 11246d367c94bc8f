SPECIFICATION FairSpec
CONSTANTS
  QueueLen = 2
  Commands <- MCCommands
  MaxChanges = 2
  MaxDrops = 1
  MaxMoves = 3
  MaxMessages = 1
CHECK_DEADLOCK FALSE
INVARIANTS
  TypeOK
  Subscribed
  AtMostOnce
  AllDelivered
PROPERTIES
  MessagesPassed
  HandledOrEmbrace
