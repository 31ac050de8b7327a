SPECIFICATION Spec
CONSTANTS
  Client = {t1, t2, t3}
  Fd = {3, 4, 5}
  NoFd = 0
  Garbage = {"dead", "stray", "self", "unmapped"}
  DebugMain = FALSE
  DebugRemote = FALSE
  DebugTcp = FALSE
SYMMETRY Symmetry
INVARIANTS
  OneInControl
  ControlOwnsSocket
  LateAtMostOnce
  LeakOnlyByCancel
  ShutdownComplete
  IInv
PROPERTIES
  NoForeignClose
  ImplementsControl
CHECK_DEADLOCK FALSE
