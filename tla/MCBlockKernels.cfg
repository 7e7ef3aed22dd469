CONSTANTS
  MAX_CELL = 16
  Input <- MCInput
  Launches <- MCLaunches
SPECIFICATION Spec
INVARIANTS
  Deterministic
  SumsExact
  RacesExactly
  LowerPlusPrefix
