SPECIFICATION Spec
CONSTANTS
  Route <- ThreeStops
  Mode = "through"
  Places <- FarLine
  Threshold = 1
  NotFound = NotFound
  None = None
  MaxGoals = 2
  MaxMoves = 1
  MaxInterrupts = 0
  InterruptAt = {}
PROPERTIES ResendsOnlyAhead
CHECK_DEADLOCK FALSE
