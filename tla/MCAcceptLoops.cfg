SPECIFICATION FairSpec
CONSTANTS
  l1 = l1
  l2 = l2
  Loops = {l1, l2}
  Setups <- MCSetups
  Stoppers = {s1, s2}
  Conns = {c1, c2}
  Buffers = {b1, b2}
  None = None
INVARIANTS
  LateConns
  BufferExclusive
PROPERTIES
  StopEndsProxy
  GroupStops
  AcceptedCloses
CHECK_DEADLOCK FALSE
