SPECIFICATION Spec
CONSTANTS
  Bits = 8
  Width = 10
  Repeats = {1, 3}
  HalfPeriod = 950
  HeaderErrors <- MCHeaderErrors
  Errors <- MCErrors
  None = None
CHECK_DEADLOCK FALSE
INVARIANTS
  ReadAsSent
  OnlyShortened
  ToggledWhole
