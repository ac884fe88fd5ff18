--------------------------- MODULE MCAcceptLoops ---------------------------
(* A group of a TCP and a UDP listener, a group of one TCP listener without  *)
(* a ReadTimeOut, or one of the two proxies;                                 *)
(* two connections meet in the pool, in the queue or in two loops, and two   *)
(* Stops hit one loop or one each.                                           *)
EXTENDS AcceptLoops, TLC

CONSTANTS l1, l2

MCSetups ==
  {l1 :> "timed" @@ l2 :> "udp", l1 :> "tcp" @@ l2 :> "absent",
   l1 :> "socks" @@ l2 :> "absent", l1 :> "forward" @@ l2 :> "absent"}
=============================================================================
