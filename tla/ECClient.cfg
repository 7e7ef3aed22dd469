CONSTANTS
  Order = 7
  Objects = {p, q}
  Public = p
  MaxK = 6
SPECIFICATION Spec
INVARIANT ResultsExact
CHECK_DEADLOCK FALSE
