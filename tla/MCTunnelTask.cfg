SPECIFICATION FairSpec
CONSTANTS
  Callers = {c1, c2, c3}
  Cap = 1
INVARIANTS
  TaskInOnePlace
PROPERTIES
  ImplementsSerialExec
  CallReturns
CHECK_DEADLOCK FALSE
