----------------------------- MODULE TunnelTask -----------------------------
(***************************************************************************)
(* common/tunneltask.go: TunnelExec hands a task to the goroutine that     *)
(* runs RunTunnelTasks and waits on the execOver channel of that task.     *)
(* netserve/context.go starts one such goroutine on a channel of capacity  *)
(* 1 and sends every lookup of a UDP context through it.                   *)
(*                                                                         *)
(* A caller has at most one call under way, so a task, its execOver        *)
(* channel and the caller are named by the caller.  The body of a task is  *)
(* left abstract: it returns, panics with an error, or panics with another *)
(* value.  The last case is told apart because LogError asserts that the   *)
(* recovered value is an error, so that the assertion panics in turn and   *)
(* ends the process.                                                       *)
(***************************************************************************)
EXTENDS Naturals, Sequences

CONSTANTS
  Callers,   \* goroutines that call TunnelExec
  Cap        \* capacity of the channel of tasks

ASSUME CapAssumption == Cap \in Nat \ {0}

VARIABLES
  tasks,     \* the channel of tasks, oldest first
  cpc,       \* cpc[c]: control point of caller c inside TunnelExec
  execOver,  \* callers whose execOver channel (capacity 1) is full
  rpc,       \* control point of RunTunnelTasks
  cur,       \* the task RunTunnelTasks received last
  px         \* the panic the body of cur is unwinding with, if any

vars == <<tasks, cpc, execOver, rpc, cur, px>>

CallerPC == {"idle", "sending", "waiting"}
RunnerPC == {"receive", "execute", "signal", "recover", "crashed"}
Panics   == {"none", "error", "other"}

TypeOK ==
  /\ tasks \in Seq(Callers)
  /\ Len(tasks) <= Cap
  /\ cpc \in [Callers -> CallerPC]
  /\ execOver \subseteq Callers
  /\ rpc \in RunnerPC
  /\ cur \in Callers
  /\ px \in Panics

Init ==
  /\ tasks = <<>>
  /\ cpc = [c \in Callers |-> "idle"]
  /\ execOver = {}
  /\ rpc = "receive"
  /\ cur \in Callers
  /\ px = "none"

-----------------------------------------------------------------------------
(* The caller.                                                             *)

TunnelExec(c) ==
  /\ rpc # "crashed"
  /\ cpc[c] = "idle"
  /\ cpc' = [cpc EXCEPT ![c] = "sending"]
  /\ UNCHANGED <<tasks, execOver, rpc, cur, px>>

Send(c) ==
  /\ rpc # "crashed"
  /\ cpc[c] = "sending"
  /\ Len(tasks) < Cap
  /\ tasks' = Append(tasks, c)
  /\ cpc' = [cpc EXCEPT ![c] = "waiting"]
  /\ UNCHANGED <<execOver, rpc, cur, px>>

\* TunnelExec receives from execOver and returns.
AwaitOver(c) ==
  /\ rpc # "crashed"
  /\ cpc[c] = "waiting"
  /\ c \in execOver
  /\ execOver' = execOver \ {c}
  /\ cpc' = [cpc EXCEPT ![c] = "idle"]
  /\ UNCHANGED <<tasks, rpc, cur, px>>

-----------------------------------------------------------------------------
(* The goroutine of RunTunnelTasks.                                        *)

\* Mutant: the caller is released when its task is received.
ReceiveAndSignal ==
  /\ rpc = "receive"
  /\ tasks # <<>>
  /\ cur' = Head(tasks)
  /\ tasks' = Tail(tasks)
  /\ execOver' = execOver \cup {Head(tasks)}
  /\ rpc' = "execute"
  /\ UNCHANGED <<cpc, px>>

ReceiveTask ==
  /\ rpc = "receive"
  /\ tasks # <<>>
  /\ cur' = Head(tasks)
  /\ tasks' = Tail(tasks)
  /\ rpc' = "execute"
  /\ UNCHANGED <<cpc, execOver, px>>

\* Mutant: execOver is sent after the body instead of in the deferred call,
\* so that a panic skips it.
ExecuteNoDefer ==
  /\ rpc = "execute"
  /\ \E p \in Panics :
       /\ px' = p
       /\ rpc' = IF p = "none" THEN "signal" ELSE "recover"
  /\ UNCHANGED <<tasks, cpc, execOver, cur>>

ExecuteTask ==
  /\ rpc = "execute"
  /\ px' \in Panics
  /\ rpc' = "signal"
  /\ UNCHANGED <<tasks, cpc, execOver, cur>>

\* The deferred call: execOver first, then recover.
SignalOver ==
  /\ rpc = "signal"
  /\ cur \notin execOver
  /\ execOver' = execOver \cup {cur}
  /\ rpc' = "recover"
  /\ UNCHANGED <<tasks, cpc, cur, px>>

\* LogError ends with a type assertion that fails for a value of another type.
LogErrorPanics(p) == p = "other"

RecoverTask ==
  /\ rpc = "recover"
  /\ rpc' = IF LogErrorPanics(px) THEN "crashed" ELSE "receive"
  /\ px' = "none"
  /\ UNCHANGED <<tasks, cpc, execOver, cur>>

Runner == ReceiveTask \/ ExecuteTask \/ SignalOver \/ RecoverTask

Next ==
  \/ \E c \in Callers : TunnelExec(c) \/ Send(c) \/ AwaitOver(c)
  \/ Runner

(***************************************************************************)
(* The scheduler runs every goroutine that can run.  A send that waits for *)
(* room is queued by the channel first come first served: strong fairness. *)
(***************************************************************************)
Fairness ==
  /\ WF_vars(Runner)
  /\ \A c \in Callers : SF_vars(Send(c)) /\ WF_vars(AwaitOver(c))

Spec == Init /\ [][Next]_vars
FairSpec == Spec /\ Fairness

-----------------------------------------------------------------------------
(* Properties.                                                             *)

\* Where the task of a waiting caller can be: exactly one of these holds.
Queued(c)    == \E i \in 1..Len(tasks) : tasks[i] = c
Running(c)   == rpc \in {"execute", "signal"} /\ cur = c
Signalled(c) == c \in execOver

\* A waiting caller's task is in exactly one place (the channel, the runner,
\* or done with its token unread), and a caller that does not wait has left
\* nothing behind; so no task is executed twice and SignalOver never finds
\* execOver full.
TaskInOnePlace ==
  /\ \A i, j \in 1..Len(tasks) : tasks[i] = tasks[j] => i = j
  /\ \A c \in Callers :
       /\ cpc[c] = "waiting" <=> Queued(c) \/ Running(c) \/ Signalled(c)
       /\ ~(Queued(c) /\ Running(c))
       /\ ~(Queued(c) /\ Signalled(c))
       /\ ~(Running(c) /\ Signalled(c))

\* The abstract status of a call: done once the body of its task has run.
ExecStatus == [c \in Callers |->
  IF cpc[c] = "idle" THEN "idle"
  ELSE IF Signalled(c) \/ (rpc = "signal" /\ cur = c) THEN "done"
  ELSE "called"]

SE == INSTANCE SerialExec WITH status <- ExecStatus

\* The tunnel implements the serial executor: one execution per call, between
\* its start and its return, never two at once, panics included.
ImplementsSerialExec == SE!Spec

\* TunnelExec returns, whether or not its task panics, unless the process
\* has ended.
CallReturns ==
  \A c \in Callers : cpc[c] = "sending" ~> cpc[c] = "idle" \/ rpc = "crashed"
=============================================================================
