SPECIFICATION Spec
CONSTANTS
  FrontCenter = 0
  FrontSector = 30
  BackSector = 30
  MinElevation <- MCMinElevation
  MaxElevation = 53
  MinUsablePoints = 2
  MinUsableRange = 7
  ZMin = 1
  ZMax = 2
  FlagPassThrough = FALSE
  RadiusSquared = 2
  MinNeighbours = 1
  Resolution = 2
  FixedOrigin <- MCFixedOrigin
  FixedSize <- MCFixedSize
  OdomToLidar <- MCOdomToLidar
  QueueDepth = 2
  Files <- MCFiles
  MaxNavStarts = 2
  Scans <- MCScans
  GlimNear = 5
  GlimFar = 100
  MaxClouds = 3
  MaxRuns = 2
INVARIANTS MapIsSound CoverNeverStarvesGlim GridShowsCloud FileMapLosesOnlyTheEdge
PROPERTIES MapIsKept LatestMapReachesNav
CHECK_DEADLOCK FALSE
