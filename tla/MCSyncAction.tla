---------------------------- MODULE MCSyncAction ----------------------------
(* Three calls, on a channel of one slot and on one without a buffer: a task *)
(* runs while another waits and a third is blocked in the send.              *)
EXTENDS SyncAction
=============================================================================
