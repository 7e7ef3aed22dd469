CONSTANTS
  Order = 61
  MAX_2 = 8
  BITS = 6
  MaxScalar = 200
  NoResult = NoResult
  MaxExponent = 2
  Scalars <- MCScalars
  Chains <- MCChains
SPECIFICATION Spec
INVARIANTS
  LoopsExact
  SparseDigits
PROPERTIES
  ImplementsScalarMul
