SPECIFICATION FairSpec
CONSTANTS
  Route <- TwoStops
  Mode = "pose"
  Places <- Line
  Threshold = 1
  NotFound = NotFound
  None = None
  MaxGoals = 2
  MaxMoves = 2
  MaxInterrupts = 1
  InterruptAt = {"resolve", "drive", "refresh"}
INVARIANTS GoalsAreTracked BooksMatchNav NothingForgotten
PROPERTIES MissionEndsAtRest DriftStaysBelowThreshold
CHECK_DEADLOCK FALSE
