SPECIFICATION Spec
CONSTANTS
  Modulus = 16
  Layers = 2
  Segment = 3
  XorW <- MCXor
  AndW <- MCAnd
  Circuits <- ConstCircuits
  InputsOf <- ConstInputs
  DealsOf <- MCDeals
  SharedTapes <- MCTapes
INVARIANT AddsConstantOnce
CHECK_DEADLOCK FALSE
