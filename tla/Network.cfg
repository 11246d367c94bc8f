SPECIFICATION FairSpec
CONSTANTS
  QueueLen = 2
  Span = 4
  Configs <- MCConfigs
  MaxTrouble = 3
INVARIANTS
  TypeOK
  ClientFollowsNetwork
  LogFollowsNetwork
PROPERTIES
  BackOnline
  Boots
CHECK_DEADLOCK FALSE
