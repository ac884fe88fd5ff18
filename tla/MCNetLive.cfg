SPECIFICATION FairSpec
CONSTANTS
  Conns = {c1, c2}
  Peers = {u}
  TcpPeers = {}
  SeqSize = 3
  StartSeqs = {2}
  Seqs = {1}
  Syns = {TRUE, FALSE}
  Sizes = {0, 1}
  MaxWrites = 1
  MaxEpoch = 2
  None = None
PROPERTIES
  ConnCloses
CHECK_DEADLOCK FALSE
