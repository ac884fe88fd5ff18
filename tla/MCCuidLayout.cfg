SPECIFICATION Spec
CONSTANTS
  Initers = {i1}
  Users = {u1}
  DevIDs = {1}
  TimeMax = 8
  CounterSize = 4
  DevSize = 4
  StartTimes = {1}
  MaxTime = 7
  MaxIssued = 5
INVARIANTS
  IdLayout
