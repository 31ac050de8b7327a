SPECIFICATION FairSpec
INVARIANTS
  SessionReleased
PROPERTIES
  CloseReturns
  KeepsReading
CHECK_DEADLOCK FALSE
