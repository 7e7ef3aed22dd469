CONSTANTS
  MAX_2 = 8
  Order = 127
  MaxB = 4
  NoResult = NoResult
  TestScalars = {10}
  Inputs <- MCRangeInputs
  Methods <- MCRangeMethods
  OptimalChains <- MCOptimalChains
SPECIFICATION Spec
INVARIANTS
  NoErrors
CHECK_DEADLOCK FALSE
