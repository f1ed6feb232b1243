SPECIFICATION MCSpec
CONSTANTS
  Modulus = 4
  XorW <- MCXor
  AndW <- MCAnd
  Kinds <- MCKinds
  MaxGates = 5
  MaxLen = 2
  MaxOutputs = 1
  ArgsOf <- MCArgs
INVARIANTS
  OrderedForEvaluation
  KeepsEveryGate
  FewestRounds
  EvaluatesToMeaning
  RefusesForCause
  OutsideOnlyByVectors
CHECK_DEADLOCK FALSE
