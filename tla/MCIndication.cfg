SPECIFICATION FairSpec
CONSTANTS
  Order <- MCOrder
  OnTime = 1
  OffTime = 2
  MaxTime = 2
  Width = 4
  MaxRequest = 3
  MaxAge = 21
  MaxFault = 1
INVARIANTS
  TypeOK
  SwitchedShows
  DarkAfterClose
PROPERTIES
  DutyCycle
  Blinks
CHECK_DEADLOCK FALSE
