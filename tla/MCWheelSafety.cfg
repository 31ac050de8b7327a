SPECIFICATION Spec
CONSTANTS
  MaxCommand = 2
  LateClient = TRUE
  MaxNoise = 0
  MaxLost = 0
  MaxCrash = 0
INVARIANTS
  BrakeNeverNewer
CHECK_DEADLOCK FALSE
