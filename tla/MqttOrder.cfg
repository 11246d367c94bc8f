SPECIFICATION Spec
CONSTANTS
  QueueLen = 2
  Commands <- MCCommands
  MaxChanges = 2
  MaxDrops = 1
  MaxMoves = 1
  MaxMessages = 0
CHECK_DEADLOCK FALSE
INVARIANTS
  NewestShown
