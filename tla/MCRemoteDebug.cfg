SPECIFICATION DebugFairSpec
CONSTANTS
  Client = {t1, t2}
  Fd = {3, 4, 5}
  NoFd = 0
  Garbage = {"dead"}
  DebugMain = TRUE
  DebugRemote = TRUE
  DebugTcp = FALSE
INVARIANTS
  HolderInPrint
PROPERTIES
  SignalTakesEffect
CHECK_DEADLOCK FALSE
