CONSTANTS
  MAX_2 = 9
  MAX_3 = 5
  ALPHA = 2
  BETA = 2
  MaxScalar = 40
  MaxAdditions = 4
  MaxLead <- MCMaxLead
  Scalars <- MCScalars
  LaterScalars <- MCLaterScalars
SPECIFICATION FairSpec
INVARIANTS
  TypeOK
  CellsHoldResidues
  ReturnsChainOfN
  SixthExact
  Optimal
PROPERTIES
  Returns
