CONSTANTS
  MAX_2 = 14
  MaxB = 6
  Jobs <- MCJobs
  LaterJobs <- MCLaterJobs
SPECIFICATION FairSpec
INVARIANTS
  TypeOK
  DescentInv
  ShortChains
  KeptCheapest
  KeptIsChainOfN
  PrefixesBetween
  FiveInARowFinds
  OnlyLastRowsMeet
PROPERTIES
  Returns
