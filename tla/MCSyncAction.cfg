SPECIFICATION FairSpec
CONSTANTS
  Calls = {c1, c2, c3}
  BufSizes = {0, 1}
INVARIANTS
  ReturnsAfterTask
PROPERTIES
  ExecutedReturns
  CancelFrees
CHECK_DEADLOCK FALSE
