SPECIFICATION Spec
CONSTANTS
  Modulus = 32
  XorW <- MCXor
  AndW <- MCAnd
  Jobs <- AllJobs
  ShufflesOf <- MCShuffles
INVARIANTS SortedSoFar DuplicatesMarked WalksSoFar ReachSoFar ReferenceAgrees
CHECK_DEADLOCK FALSE
