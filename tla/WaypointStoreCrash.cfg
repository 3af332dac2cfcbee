SPECIFICATION StoreSpec
CONSTANTS
  Names = {base}
  EmptyName = EmptyName
  NoTag = NoTag
  Pose <- Perms
  Mul <- Compose
  Inv <- Invert
  Id <- Identity
  OdomPoses <- OnlyFlip
  MapPoses <- OnlyFlip
  MaxStamp = 1
  Autosave = Autosave
  OtherPaths = {}
  NoFile = NoFile
  NotSaving = NotSaving
  DiskMayFill = FALSE
  MaxSessions = 2
INVARIANTS CrashKeepsAutosave
CHECK_DEADLOCK FALSE
