---------------------------- MODULE MCTunnelTask ----------------------------
(* Three callers on a channel of one slot: one task runs, one is buffered   *)
(* and one sender is blocked.                                               *)
EXTENDS TunnelTask
=============================================================================
