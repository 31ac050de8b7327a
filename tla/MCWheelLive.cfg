SPECIFICATION FairSpec
CONSTANTS
  MaxCommand = 1
  LateClient = FALSE
  MaxNoise = 1
  MaxLost = 1
  MaxCrash = 1
INVARIANTS
  StatusHonest
  RepliesMatch
  ExcessStays
PROPERTIES
  ImplementsDrive
  CloseReturns
  LastCommandTakesEffect
CHECK_DEADLOCK FALSE
