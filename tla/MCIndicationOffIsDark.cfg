SPECIFICATION FairSpec
CONSTANTS
  Order <- MCOrder
  OnTime = 1
  OffTime = 3
  MaxTime = 3
  Width = 6
  MaxRequest = 3
  MaxAge = 31
  MaxFault = 0
INVARIANTS
  OffIsDark
CHECK_DEADLOCK FALSE
