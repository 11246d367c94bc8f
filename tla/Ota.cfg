SPECIFICATION FairSpec
CONSTANTS
  Chunks = 2
  Factory = Factory
  Good = Good
  Bad = Bad
  NoImage = NoImage
  Images <- MCImages
  Unusable <- MCUnusable
  MaxUpdates = 2
INVARIANTS
  TypeOK
  AcceptedIsKept
  FallbackKept
  FirmwareStarts
PROPERTIES
  OpensAgain
  FillThenActivate
