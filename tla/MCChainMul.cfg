CONSTANTS
  MAX_2 = 3
  Order = 11
  MaxDbl = 2
  MaxTpl = 2
  NoResult = NoResult
  Jobs <- MCJobs
  Scalars <- MCScalars
SPECIFICATION FairSpec
INVARIANTS
  TypeOK
  HornerInv
  Aligned
  NeverStale
  CostPredicted
PROPERTIES
  ImplementsScalarMul
  Returns
