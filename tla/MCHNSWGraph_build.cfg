SPECIFICATION Spec
CONSTANTS
  Points <- Corners
  MaxNeighbors = 2
  EfConstruction = 1
  MaxLevel = 1
  MaxNodes = 5
CHECK_DEADLOCK FALSE
INVARIANTS DescentSucceeds SavedGraphsLoad WideSearchIsExact
