SPECIFICATION Spec
CONSTANTS
  Modulus = 32
  XorW <- MCXor
  AndW <- MCAnd
  Jobs <- OneEdge
  ShufflesOf <- MCShuffles
INVARIANT StartsAtV
CHECK_DEADLOCK FALSE
