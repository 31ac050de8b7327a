SPECIFICATION Spec
CONSTANTS
  Launch = {l1}
  Pid = {n1, n2}
  InitPid = init
  NoPid = none
INVARIANTS
  AOkay
CHECK_DEADLOCK FALSE
