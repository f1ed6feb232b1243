SPECIFICATION Spec
CONSTANTS
  Modulus = 16
  Layers = 2
  Segment = 3
  XorW <- MCXor
  AndW <- MCAnd
  Circuits <- AllCircuits
  InputsOf <- MCInputs
  DealsOf <- MCDeals
  SharedTapes <- MCTapes
INVARIANTS PositionsInRange ExchangeInStep OneCanGoOn
PROPERTY ComputesInTheClear
CHECK_DEADLOCK FALSE
