----------------------------- MODULE SerialExec -----------------------------
(***************************************************************************)
(* What a tunnel promises to its callers: a call hands over one task, the  *)
(* task is executed exactly once, in one step that no other task overlaps, *)
(* and the call returns only after that step.  Nothing is said about the   *)
(* order in which the tasks of different callers are executed.             *)
(*                                                                         *)
(* TunnelTask implements this specification; NetSession relies on it when  *)
(* it takes a cache lookup through the tunnel as a single step.            *)
(***************************************************************************)
CONSTANT Callers

VARIABLE status    \* status[c]: where the current call of caller c stands

Status == {"idle", "called", "done"}

Init == status = [c \in Callers |-> "idle"]

\* Caller c hands over a task.
Call(c) ==
  /\ status[c] = "idle"
  /\ status' = [status EXCEPT ![c] = "called"]

\* The task of caller c is executed, the only time during this call.
Execute(c) ==
  /\ status[c] = "called"
  /\ status' = [status EXCEPT ![c] = "done"]

\* The call of caller c returns.
Return(c) ==
  /\ status[c] = "done"
  /\ status' = [status EXCEPT ![c] = "idle"]

Next == \E c \in Callers : Call(c) \/ Execute(c) \/ Return(c)

Spec == Init /\ [][Next]_status
=============================================================================
