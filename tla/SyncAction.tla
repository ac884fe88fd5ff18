----------------------------- MODULE SyncAction -----------------------------
(***************************************************************************)
(* common/syncaction.go: RunTask wraps a task so that it closes a channel  *)
(* wt when it ends, sends it to the goroutine of serve, and waits for wt   *)
(* or for the context to be done.  Unlike RunTunnelTasks, serve ends at    *)
(* the first task that panics, and when the context is done; the send of   *)
(* RunTask does not watch the context.                                     *)
(*                                                                         *)
(* A call of RunTask, its task and its wt have one name.  As in TunnelTask *)
(* a task returns, panics with an error, or panics with another value,     *)
(* which LogError turns into the end of the process.                       *)
(***************************************************************************)
EXTENDS Naturals, Sequences

CONSTANTS
  Calls,        \* calls of RunTask
  BufSizes      \* what StartNewSyncAction may be called with

ASSUME BufAssumption == BufSizes \subseteq Nat

VARIABLES
  taskBufSize,  \* capacity of actionTasks; 0 makes every send a rendezvous
  actionTasks,  \* the channel of tasks
  cpc,          \* cpc[c]: control point of call c
  wt,           \* calls whose channel wt is closed
  spc,          \* control point of serve
  cur,          \* the task serve received last
  px,           \* the panic it is unwinding with, if any
  ctxDone,      \* the context is done
  executed      \* tasks whose body has run (history)

vars == <<taskBufSize, actionTasks, cpc, wt, spc, cur, px, ctxDone, executed>>

TypeOK ==
  /\ taskBufSize \in BufSizes
  /\ actionTasks \in Seq(Calls) /\ Len(actionTasks) <= taskBufSize
  /\ cpc \in [Calls -> {"idle", "sending", "waiting", "returned"}]
  /\ wt \subseteq Calls
  /\ spc \in {"select", "run", "close", "ended", "crashed"}
  /\ cur \in Calls
  /\ px \in {"none", "error", "other"}
  /\ ctxDone \in BOOLEAN
  /\ executed \subseteq Calls

Init ==
  /\ taskBufSize \in BufSizes
  /\ actionTasks = <<>>
  /\ cpc = [c \in Calls |-> "idle"]
  /\ wt = {}
  /\ spc = "select"
  /\ cur \in Calls
  /\ px = "none"
  /\ ctxDone = FALSE
  /\ executed = {}

-----------------------------------------------------------------------------
(* RunTask.                                                                 *)

RunTask(c) ==
  /\ spc # "crashed" /\ cpc[c] = "idle"
  /\ cpc' = [cpc EXCEPT ![c] = "sending"]
  /\ UNCHANGED <<taskBufSize, actionTasks, wt, spc, cur, px, ctxDone, executed>>

Send(c) ==
  /\ spc # "crashed" /\ cpc[c] = "sending"
  /\ Len(actionTasks) < taskBufSize
  /\ actionTasks' = Append(actionTasks, c)
  /\ cpc' = [cpc EXCEPT ![c] = "waiting"]
  /\ UNCHANGED <<taskBufSize, wt, spc, cur, px, ctxDone, executed>>

\* Without a buffer the send meets the receive of serve.
Rendezvous(c) ==
  /\ taskBufSize = 0
  /\ cpc[c] = "sending" /\ spc = "select"
  /\ cpc' = [cpc EXCEPT ![c] = "waiting"]
  /\ cur' = c
  /\ spc' = "run"
  /\ UNCHANGED <<taskBufSize, actionTasks, wt, px, ctxDone, executed>>

\* Mutant: the wait does not watch the context.
WaitWt(c) ==
  /\ spc # "crashed" /\ cpc[c] = "waiting"
  /\ c \in wt
  /\ cpc' = [cpc EXCEPT ![c] = "returned"]
  /\ UNCHANGED <<taskBufSize, actionTasks, wt, spc, cur, px, ctxDone, executed>>

Return(c) ==
  /\ spc # "crashed" /\ cpc[c] = "waiting"
  /\ c \in wt \/ ctxDone
  /\ cpc' = [cpc EXCEPT ![c] = "returned"]
  /\ UNCHANGED <<taskBufSize, actionTasks, wt, spc, cur, px, ctxDone, executed>>

-----------------------------------------------------------------------------
(* serve.                                                                   *)

\* Mutant: wt is closed when the task is received.
ReceiveCloses ==
  /\ spc = "select" /\ actionTasks # <<>>
  /\ cur' = Head(actionTasks)
  /\ actionTasks' = Tail(actionTasks)
  /\ wt' = wt \cup {Head(actionTasks)}
  /\ spc' = "run"
  /\ UNCHANGED <<taskBufSize, cpc, px, ctxDone, executed>>

Receive ==
  /\ spc = "select" /\ actionTasks # <<>>
  /\ cur' = Head(actionTasks)
  /\ actionTasks' = Tail(actionTasks)
  /\ spc' = "run"
  /\ UNCHANGED <<taskBufSize, cpc, wt, px, ctxDone, executed>>

\* Mutant: wt is closed after the body and not in a deferred call.
ExecuteNoDefer ==
  /\ spc = "run"
  /\ px' \in {"none", "error", "other"}
  /\ executed' = executed \cup {cur}
  /\ spc' = CASE px' = "none" -> "close" [] px' = "error" -> "ended"
              [] px' = "other" -> "crashed"
  /\ UNCHANGED <<taskBufSize, actionTasks, cpc, wt, cur, ctxDone>>

Execute ==
  /\ spc = "run"
  /\ px' \in {"none", "error", "other"}
  /\ executed' = executed \cup {cur}
  /\ spc' = "close"
  /\ UNCHANGED <<taskBufSize, actionTasks, cpc, wt, cur, ctxDone>>

\* The deferred close(wt), then on a panic the deferred call of serve.
CloseWt ==
  /\ spc = "close"
  /\ wt' = wt \cup {cur}
  /\ spc' = CASE px = "none" -> "select" [] px = "error" -> "ended"
              [] px = "other" -> "crashed"
  /\ px' = "none"
  /\ UNCHANGED <<taskBufSize, actionTasks, cpc, cur, ctxDone, executed>>

ServeDone ==
  /\ spc = "select" /\ ctxDone
  /\ spc' = "ended"
  /\ UNCHANGED <<taskBufSize, actionTasks, cpc, wt, cur, px, ctxDone, executed>>

Serve == Receive \/ Execute \/ CloseWt \/ ServeDone

Cancel ==
  /\ ~ctxDone /\ spc # "crashed"
  /\ ctxDone' = TRUE
  /\ UNCHANGED <<taskBufSize, actionTasks, cpc, wt, spc, cur, px, executed>>

Next ==
  \/ \E c \in Calls : RunTask(c) \/ Send(c) \/ Rendezvous(c) \/ Return(c)
  \/ Serve \/ Cancel

(***************************************************************************)
(* The scheduler runs every goroutine that can run, and senders blocked on *)
(* the channel are served first come first served.                         *)
(***************************************************************************)
Fairness ==
  /\ WF_vars(Serve)
  /\ \A c \in Calls : SF_vars(Send(c) \/ Rendezvous(c)) /\ WF_vars(Return(c))

Spec == Init /\ [][Next]_vars
FairSpec == Spec /\ Fairness

-----------------------------------------------------------------------------
(* Properties.                                                              *)

\* Unless the context is done, RunTask returns only after its task has run to
\* its end, so that a task never runs on behalf of a caller that has gone on.
ReturnsAfterTask ==
  \A c \in Calls : cpc[c] = "returned" /\ ~ctxDone =>
    c \in executed /\ ~(spc \in {"run", "close"} /\ cur = c)

\* A call whose task has run returns, panic or not, unless the process ended.
ExecutedReturns ==
  \A c \in Calls : c \in executed ~> cpc[c] = "returned" \/ spc = "crashed"

\* Cancelling the context frees every call that waits for its task, also when
\* serve has ended; a call still sending is freed only while serve runs.
CancelFrees ==
  \A c \in Calls :
    /\ ctxDone /\ cpc[c] = "waiting" ~> cpc[c] = "returned" \/ spc = "crashed"
    /\ cpc[c] = "sending" ~> cpc[c] = "returned" \/ spc \in {"ended", "crashed"}
=============================================================================
