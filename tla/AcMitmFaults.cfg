SPECIFICATION FairSpec
CONSTANTS
  QueueLen = 2
  MaxWaiting = 2
  PowerPayloads = {"on", "off"}
  TemperaturePayloads = {99}
  ModePayloads = {}
  FanPayloads = {"high", "turbo"}
  Levels = {}
  RemoteFrames <- MCNoise
  SavesMayFail = TRUE
  NoFrame = NoFrame
  NoValue = NoValue
INVARIANTS
  CrashLosesOnlyThisUpdate
PROPERTIES
  HandledOrStuck
