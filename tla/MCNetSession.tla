---------------------------- MODULE MCNetSession ----------------------------
(* MCNetAck.cfg: three datagrams of one peer that may repeat a sequence      *)
(* number, each answered once, so that all interleavings of checkSetAck with *)
(* one another and with an answer are explored.  MCNetAnswer.cfg: a UDP and  *)
(* a TCP peer, both kinds of packet, number zero, two answers per handler,   *)
(* contexts that expire.  MCNetLive.cfg: two datagrams under fairness,       *)
(* without symmetry.                                                         *)
EXTENDS NetSession, TLC

\* Conns are interchangeable: Init and Next name none of them.
Symmetry == Permutations(Conns)
=============================================================================
