SPECIFICATION Spec
CONSTANTS
  Launch = {l1, l2}
  Pid = {n1, n2, n3}
  InitPid = init
  NoPid = none
SYMMETRY Symmetry
INVARIANTS
  TypeOK
  SuccessConfirmed
  MissesOnlyEnded
  AlwaysReports
  NeverStranded
CHECK_DEADLOCK FALSE
