SPECIFICATION FairSpec
CONSTANTS
  QueueLen = 2
  Span = 4
  Configs <- EthOnlyConfigs
  MaxTrouble = 1
PROPERTIES
  EitherSectionBoots
CHECK_DEADLOCK FALSE
