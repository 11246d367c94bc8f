SPECIFICATION FairSpec
CONSTANTS
  QueueLen = 10
  MaxWaiting = 10
  PowerPayloads = {}
  TemperaturePayloads = {}
  ModePayloads = {}
  FanPayloads = {}
  Levels = {}
  RemoteFrames <- MCOneKey
  SavesMayFail = FALSE
  NoFrame = NoFrame
  NoValue = NoValue
PROPERTIES
  CommandsGoThrough
