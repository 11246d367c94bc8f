SPECIFICATION Spec
CONSTANTS
  QueueLen = 4
  MaxWaiting = 1
  PowerPayloads = {"on"}
  TemperaturePayloads = {20}
  ModePayloads = {"cool", "off", "turbo"}
  FanPayloads = {}
  Levels = {0, 1}
  RemoteFrames <- MCFrames
  SavesMayFail = FALSE
  NoFrame = NoFrame
  NoValue = NoValue
INVARIANTS
  TypeOK
  CrashLosesOnlyThisUpdate
  FrameMatchesState
  SettledPublished
PROPERTIES
  PublishedInOrder
  RelayTransparent
  StuckForever
