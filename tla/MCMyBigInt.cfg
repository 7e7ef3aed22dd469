CONSTANTS
  INTS = 4
  Radix = 4
  Divisor = 3
  Modulus = 6
  Pairs <- MCPairs
  Numbers <- MCNumbers
SPECIFICATION Spec
INVARIANTS
  SubtractionWrongOnOnes
  SubtractionWrongOnZero
  ComparisonRight
  MultipleExact
  DivisionInv
  ResidueExact
