SPECIFICATION Spec
CONSTANTS
  Dialers = {d1, d2}
  Cap = 2
  Users = {}
  MaxRounds = 2
  MaxClients = 2
  Nil = Nil
SYMMETRY Symmetry
INVARIANTS
  DialerConserved
  RoundBounded
  NoClientLost
CHECK_DEADLOCK FALSE
