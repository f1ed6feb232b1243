SPECIFICATION GenSpec
CONSTANTS
  Modulus = 2
  XorW <- MCXor
  AndW <- MCAnd
  Kinds = {}
  MaxGates = 0
  MaxLen = 0
  MaxOutputs = 0
  ArgsOf <- MCArgs
  Generated <- MCCalls
INVARIANTS AddersAdd ProductOfAll AuctionStaysInside
CHECK_DEADLOCK FALSE
