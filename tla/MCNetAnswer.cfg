SPECIFICATION Spec
CONSTANTS
  Conns = {c1, c2}
  Peers = {u, t}
  TcpPeers = {t}
  SeqSize = 3
  StartSeqs = {0, 2}
  Seqs = {0, 1}
  Syns = {TRUE, FALSE}
  Sizes = {0, 1}
  MaxWrites = 2
  MaxEpoch = 2
  None = None
SYMMETRY Symmetry
INVARIANTS
  ContextPerPeer
  AnswerMatchesRequest
  AnswerSeqUnique
  RefusedOnlyAfterStream
CHECK_DEADLOCK FALSE
