SPECIFICATION FairSpec
CONSTANTS
  Names = {base, sample, flag}
  EmptyName = EmptyName
  NoTag = NoTag
  Pose <- Perms
  Mul <- Compose
  Inv <- Invert
  Id <- Identity
  OdomPoses <- OnlyFlip
  MapPoses <- IdentityOrTurn
  MaxStamp = 2
INVARIANTS ListsAreSound
PROPERTIES ImplementsManager MarkersCatchUp
CHECK_DEADLOCK FALSE
