SPECIFICATION FairSpec
CONSTANTS
  Initers = {i1, i2}
  Users = {u1}
  DevIDs <- SomeDevIDs
  TimeMax = 3
  CounterSize = 4
  DevSize = 4
  StartTimes = {1}
  MaxTime = 3
  MaxIssued = 3
INVARIANTS
  UniqueIds
  CountersInUse
PROPERTIES
  UserServed
