SPECIFICATION MCSpec
CONSTANTS
  Modulus = 16
  Layers = 2
  XorW <- MCXor
  AndW <- MCAnd
  Circuits <- AllCircuits
  InputsOf <- MCInputs
  Tapes <- SomeTapes
  TapeLen <- MCTapeLen
  ChunkSize = 8
  SharedTapes <- MCShared
  Segment = 4
  RepsOf <- MCReps
INVARIANTS HandsOverCorrelated SameEveryTime
PROPERTIES ProgramComputes AllRepetitionsEnd
CHECK_DEADLOCK FALSE
