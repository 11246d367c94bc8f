SPECIFICATION FairSpec
CONSTANTS
  QueueLen = 2
  TxLen = 3
  MaxSettings = 1
INVARIANTS
  TypeOK
  DetectedIsActual
  WantedIsActual
PROPERTIES
  Settles
