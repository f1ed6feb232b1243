SPECIFICATION FairTransfer
CONSTANTS
  SizeMod = 64
  IntMod = 8
  Messages <- MCMessages
  MaxFailures = 2
INVARIANTS CompleteUnlessFailed TooLongEndsProcess
PROPERTY BothEnd
CHECK_DEADLOCK FALSE
