SPECIFICATION FairSpec
CONSTANTS
  front = front
  rear = rear
  guest = guest
  Lidars = {front, rear, guest}
  NoHandle = NoHandle
  Settings <- TwoSettings
  Configurations <- TwiceOrTooMany
  SlotCount = 2
  NoSlot = NoSlot
  MaxAnnouncements = 3
INVARIANTS SlotsAreSound BitsAreAttended SamplesAsConfigured
PROPERTIES EveryLidarComesUp
CHECK_DEADLOCK FALSE
