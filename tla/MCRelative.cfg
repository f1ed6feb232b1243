SPECIFICATION FairSpec
CONSTANTS
  NP = 3
  BufSize = 2
  Capacity = 2
  WordBits = 2
  MaxSend = 5
  Builds = {"gcc", "clang"}
  Programs <- MCPrograms
INVARIANT StuckInARing
PROPERTY RingEnds
CHECK_DEADLOCK FALSE
