SPECIFICATION Spec
CONSTANTS
  Route <- ThreeStops
  Mode = "through"
  Places <- FarLine
  Threshold = 1
  NotFound = NotFound
  None = None
  MaxGoals = 2
  MaxMoves = 1
  MaxInterrupts = 2
  InterruptAt = {"resolve", "sending", "drive", "refresh", "resending", "late"}
INVARIANTS ReachedIsTrue SuccessMeansAllReached
CHECK_DEADLOCK FALSE
