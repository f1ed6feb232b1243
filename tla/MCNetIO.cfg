SPECIFICATION FairSpec
CONSTANTS
  NP = 3
  BufSize = 2
  Capacity = 2
  ChunkSize = 2
  Segment = 2
  MaxSend = 6
  Builds = {"gcc", "clang"}
  Sessions <- MCSessions
  Programs <- MCPrograms
INVARIANTS NothingLeftOver StuckOnlyOverfull
PROPERTIES KeepsPromise EveryoneFinishes
CHECK_DEADLOCK FALSE
