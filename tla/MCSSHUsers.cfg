SPECIFICATION FairSpec
CONSTANTS
  Dialers = {d1}
  Cap = 1
  Users = {u1}
  MaxRounds = 2
  MaxClients = 2
  Nil = Nil
INVARIANTS
  NoClosedClientUsed
PROPERTIES
  
  
  StopsWhenCancelled
CHECK_DEADLOCK FALSE
