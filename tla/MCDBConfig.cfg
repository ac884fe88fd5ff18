SPECIFICATION FairSpec
CONSTANTS
  Keys = {k1, k2}
  Values = {v1}
  Off = Off
  Timer = Timer
  Callers = {p1}
  MaxOpens = 2
  MaxChanges = 1
  MaxFaults = 1
INVARIANTS
  ConfigWhole
PROPERTIES
  ConfigCatchesUp
CHECK_DEADLOCK FALSE
