SPECIFICATION FairSpec
CONSTANTS
  Client = {t1, t2}
  Fd = {3, 4, 5}
  NoFd = 0
  Garbage = {"dead", "stray"}
  DebugMain = FALSE
  DebugRemote = FALSE
  DebugTcp = FALSE
PROPERTIES
  TerminateCompletes
  CancelledGone
CHECK_DEADLOCK FALSE
