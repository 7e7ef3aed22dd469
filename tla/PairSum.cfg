CONSTANTS
  MAX_CELL = 16
  Input <- MCInput
  Launches <- MCPointSums
SPECIFICATION Spec
INVARIANTS
  PointsInFirst
