SPECIFICATION FairSpec
CONSTANTS
  Names = {base, sample}
  EmptyName = EmptyName
  NoTag = NoTag
  Pose <- Perms
  Mul <- Compose
  Inv <- Invert
  Id <- Identity
  OdomPoses <- TurnOrFlip
  MapPoses <- IdentityOrTurn
  MaxStamp = 3
INVARIANTS TagsAreKept TagsAreWhereMade AnswerIsCorrectedTag
PROPERTIES ImplementsRegistry EveryTagIsAnswered
CHECK_DEADLOCK FALSE
