SPECIFICATION Spec
CONSTANTS
  QueueLen = 2
  TxLen = 3
  MaxSettings = 1
INVARIANTS
  AlwaysKnows
