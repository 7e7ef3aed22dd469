CONSTANTS
  MAX_2 = 2
  MaxExponent = 2
  Indeterminate = Indeterminate
  Chains <- MCChains
SPECIFICATION Spec
INVARIANTS
  ResultIsMultiple
