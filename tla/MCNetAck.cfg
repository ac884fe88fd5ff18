SPECIFICATION Spec
CONSTANTS
  Conns = {c1, c2, c3}
  Peers = {u}
  TcpPeers = {}
  SeqSize = 3
  StartSeqs = {2}
  Seqs = {1, 2}
  Syns = {FALSE}
  Sizes = {}
  MaxWrites = 1
  MaxEpoch = 0
  None = None
SYMMETRY Symmetry
INVARIANTS
  NoImmediateRepeat
  AnswerMatchesRequest
CHECK_DEADLOCK FALSE
