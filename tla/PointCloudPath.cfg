SPECIFICATION FairSpec
CONSTANTS
  frame1 = frame1
  frame2 = frame2
  frame3 = frame3
  Packets <- MCPackets
  PacketsOf <- MCPacketsOf
  Torn = Torn
  NoPacket = NoPacket
  IndexBits = 2
  LidarCount = 2
  QueueSize = 2
INVARIANTS WakeupsAreSound
PROPERTIES RingsAreChannels PacketsFlow DestructorReturns
