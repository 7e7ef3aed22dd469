CONSTANTS
  MAX_2 = 8
  Order = 127
  MaxB = 4
  NoResult = NoResult
  TestScalars = {5, 13, 23, 38, 51}
  Inputs <- MCInputs
  Methods <- MCMethods
  OptimalChains <- MCOptimalChains
SPECIFICATION FairSpec
INVARIANTS
  EvaluatesSoundChain
  NoErrors
  ReportedCostIsSpent
PROPERTIES
  Finishes
CHECK_DEADLOCK FALSE
