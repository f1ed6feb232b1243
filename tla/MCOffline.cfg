SPECIFICATION MCSpec
CONSTANTS
  Modulus = 4
  XorW <- MCXor
  AndW <- MCAnd
  Circuits <- AllCircuits
  Tapes <- ManyTapes
  TapeLen <- MCTapeLen
  ChunkSize = 4
INVARIANTS
  StreamsInStep
  DealtInBounds
  HelperBufferFits
  TriplesCorrect
  ShufflesCorrelated
  OnlineNeverThrows
  WordsArrive
PROPERTIES
  PermsWriteOnce
  Completes
CHECK_DEADLOCK FALSE
