SPECIFICATION Spec
CONSTANTS
  DebugFlag = {"config"}
  MaxLine = 4
INVARIANTS
  ParsedAsWritten
  FirstError
  ForegroundIfDebugged
CHECK_DEADLOCK FALSE
