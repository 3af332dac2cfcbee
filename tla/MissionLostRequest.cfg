SPECIFICATION Spec
CONSTANTS
  Route <- TwoStops
  Mode = "pose"
  Places <- FarLine
  Threshold = 1
  NotFound = NotFound
  None = None
  MaxGoals = 2
  MaxMoves = 1
  MaxInterrupts = 1
  InterruptAt = {"sending", "resending"}
INVARIANTS NoRunawayGoal
CHECK_DEADLOCK FALSE
