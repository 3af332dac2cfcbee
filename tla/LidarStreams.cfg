SPECIFICATION Spec
CONSTANTS
  Lidars = {"a", "b"}
  Configured = {"a"}
  Echoes <- MCEchoes
  UnitsPerMs = 3
  publish_interval = 7
  PointNum = 2
  StampBits = 8
  OffsetBits = 4
  DoubleStep = 4
  SensorAhead = 7
  MaxQueued = 2
  Loads <- MCLoads
  lidars_ <- MClidars_
INVARIANTS StreamsAreSound FramesOnTime HostFramesInterval ConfiguredPointsArePosed NoLostImuWakeup
PROPERTIES FramesAreTheStream ThreadsGoOn ImuQueuesAreChannels
CHECK_DEADLOCK FALSE
