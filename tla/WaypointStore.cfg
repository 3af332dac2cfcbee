SPECIFICATION StoreFairSpec
CONSTANTS
  Names = {base, sample}
  EmptyName = EmptyName
  NoTag = NoTag
  Pose <- Perms
  Mul <- Compose
  Inv <- Invert
  Id <- Identity
  OdomPoses <- OnlyFlip
  MapPoses <- OnlyFlip
  MaxStamp = 2
  Autosave = Autosave
  OtherPaths = {chosen}
  NoFile = NoFile
  NotSaving = NotSaving
  DiskMayFill = TRUE
  MaxSessions = 2
INVARIANTS SavesAreWhole
PROPERTIES EarlierSessionKept TagReachesDisk
CHECK_DEADLOCK FALSE
