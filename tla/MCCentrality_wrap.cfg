SPECIFICATION Spec
CONSTANTS
  Modulus = 16
  XorW <- MCXor
  AndW <- MCAnd
  Jobs <- DeepJobs
  ShufflesOf <- MCShuffles
PROPERTY ReachedRemainsReached
CHECK_DEADLOCK FALSE
