CONSTANTS
  N = 11
  W = 4
  Bits = 4
  Values <- MCValues
  Randoms <- MCRandoms
  Digests <- MCDigests
SPECIFICATION Spec
INVARIANTS
  ProofAccepted
CHECK_DEADLOCK FALSE
