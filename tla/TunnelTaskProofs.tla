-------------------------- MODULE TunnelTaskProofs --------------------------
(***************************************************************************)
(* For every set of callers and every capacity of the channel, TunnelTask  *)
(* keeps TypeOK and TaskInOnePlace and implements SerialExec.  The         *)
(* invariant TaskInOnePlace is inductive as it stands (with TypeOK): it is *)
(* what makes the token found by AwaitOver the token of the current call.  *)
(***************************************************************************)
EXTENDS TunnelTask, TLAPS

IInv == TypeOK /\ TaskInOnePlace

\* What a send does to the set of queued tasks (the channel send of
\* TunnelExec).
LEMMA QueuedAfterAppend ==
  ASSUME TypeOK, NEW c \in Callers, tasks' = Append(tasks, c)
  PROVE  /\ tasks' \in Seq(Callers)
         /\ Len(tasks') = Len(tasks) + 1
         /\ \A d \in Callers : Queued(d)' <=> Queued(d) \/ d = c
<1>1. tasks \in Seq(Callers)
  BY DEF TypeOK
<1>2. /\ tasks' \in Seq(Callers)
      /\ Len(tasks') = Len(tasks) + 1
      /\ \A i \in 1..Len(tasks) : tasks'[i] = tasks[i]
      /\ tasks'[Len(tasks) + 1] = c
      /\ Len(tasks) \in Nat
  BY <1>1
<1>3. ASSUME NEW d \in Callers
      PROVE  Queued(d)' <=> Queued(d) \/ d = c
  BY <1>2 DEF Queued
<1>4. QED
  BY <1>2, <1>3

\* What a receive does to the set of queued tasks (the channel receive of
\* RunTunnelTasks), in a channel that holds no task twice.
LEMMA QueuedAfterTail ==
  ASSUME TypeOK, TaskInOnePlace, tasks # <<>>, tasks' = Tail(tasks)
  PROVE  /\ tasks' \in Seq(Callers)
         /\ Len(tasks') = Len(tasks) - 1
         /\ Head(tasks) \in Callers
         /\ Queued(Head(tasks))
         /\ \A i, j \in 1..Len(tasks') : tasks'[i] = tasks'[j] => i = j
         /\ \A d \in Callers : Queued(d)' <=> Queued(d) /\ d # Head(tasks)
<1>1. tasks \in Seq(Callers)
  BY DEF TypeOK
<1>2. /\ tasks' \in Seq(Callers)
      /\ Len(tasks) \in Nat \ {0}
      /\ Len(tasks') = Len(tasks) - 1
      /\ \A i \in 1..Len(tasks') : tasks'[i] = tasks[i + 1]
      /\ Head(tasks) = tasks[1]
      /\ Head(tasks) \in Callers
  BY <1>1
<1>3. \A i, j \in 1..Len(tasks) : tasks[i] = tasks[j] => i = j
  BY DEF TaskInOnePlace
<1>4. Queued(Head(tasks))
  BY <1>2 DEF Queued
<1>5. \A i, j \in 1..Len(tasks') : tasks'[i] = tasks'[j] => i = j
  BY <1>2, <1>3
<1>6. ASSUME NEW d \in Callers
      PROVE  Queued(d)' <=> Queued(d) /\ d # Head(tasks)
  <2>1. ASSUME Queued(d)' PROVE Queued(d) /\ d # Head(tasks)
    BY <2>1, <1>2, <1>3 DEF Queued
  <2>2. ASSUME Queued(d), d # Head(tasks) PROVE Queued(d)'
    <3>1. PICK i \in 1..Len(tasks) : tasks[i] = d
      BY <2>2 DEF Queued
    <3>2. i # 1 /\ i - 1 \in 1..Len(tasks') /\ tasks'[i - 1] = d
      BY <3>1, <2>2, <1>2
    <3>3. QED
      BY <3>2 DEF Queued
  <2>3. QED
    BY <2>1, <2>2
<1>7. QED
  BY <1>2, <1>4, <1>5, <1>6

\* Every step of the caller and of the runner keeps a task in one place.
LEMMA IInvStep == IInv /\ [Next]_vars => IInv'
<1> SUFFICES ASSUME IInv, [Next]_vars PROVE IInv'
  OBVIOUS
<1> USE CapAssumption
<1>1. ASSUME NEW c \in Callers, TunnelExec(c) PROVE IInv'
  BY <1>1 DEF IInv, TypeOK, CallerPC, TaskInOnePlace, TunnelExec, Queued,
              Running, Signalled
<1>2. ASSUME NEW c \in Callers, Send(c) PROVE IInv'
  <2>1. /\ tasks' \in Seq(Callers)
        /\ Len(tasks') = Len(tasks) + 1
        /\ \A d \in Callers : Queued(d)' <=> Queued(d) \/ d = c
    BY <1>2, QueuedAfterAppend DEF IInv, Send
  <2>2. TypeOK'
    BY <1>2, <2>1 DEF IInv, TypeOK, Send, CallerPC
  <2>3. \A i, j \in 1..Len(tasks') : tasks'[i] = tasks'[j] => i = j
    <3>1. ~Queued(c)
      BY <1>2 DEF IInv, TaskInOnePlace, Send
    <3>2. QED
      BY <1>2, <2>1, <3>1 DEF IInv, TypeOK, TaskInOnePlace, Send, Queued
  <2>4. ASSUME NEW d \in Callers
        PROVE /\ Running(d)' <=> Running(d)
              /\ Signalled(d)' <=> Signalled(d)
              /\ cpc'[d] = IF d = c THEN "waiting" ELSE cpc[d]
    BY <1>2 DEF Send, Running, Signalled, IInv, TypeOK
  <2>5. ~Queued(c) /\ ~Running(c) /\ ~Signalled(c)
    BY <1>2 DEF IInv, TaskInOnePlace, Send
  <2>6. QED
    BY <2>1, <2>2, <2>3, <2>4, <2>5 DEF IInv, TaskInOnePlace
<1>3. ASSUME NEW c \in Callers, AwaitOver(c) PROVE IInv'
  BY <1>3 DEF IInv, TypeOK, CallerPC, TaskInOnePlace, AwaitOver, Queued,
              Running, Signalled
<1>4. ASSUME ReceiveTask PROVE IInv'
  <2>1. /\ tasks' \in Seq(Callers)
        /\ Len(tasks') = Len(tasks) - 1
        /\ Head(tasks) \in Callers
        /\ Queued(Head(tasks))
        /\ \A i, j \in 1..Len(tasks') : tasks'[i] = tasks'[j] => i = j
        /\ \A d \in Callers : Queued(d)' <=> Queued(d) /\ d # Head(tasks)
    BY <1>4, QueuedAfterTail DEF IInv, ReceiveTask
  <2>2. TypeOK'
    BY <1>4, <2>1 DEF IInv, TypeOK, ReceiveTask, RunnerPC
  <2>3. ASSUME NEW d \in Callers
        PROVE /\ ~Running(d)
              /\ Running(d)' <=> d = Head(tasks)
              /\ Signalled(d)' <=> Signalled(d)
              /\ cpc'[d] = cpc[d]
    BY <1>4 DEF ReceiveTask, Running, Signalled
  <2>4. QED
    BY <2>1, <2>2, <2>3 DEF IInv, TaskInOnePlace
<1>5. ASSUME ExecuteTask PROVE IInv'
  BY <1>5 DEF IInv, TypeOK, RunnerPC, TaskInOnePlace, ExecuteTask, Queued,
              Running, Signalled
<1>6. ASSUME SignalOver PROVE IInv'
  BY <1>6 DEF IInv, TypeOK, RunnerPC, TaskInOnePlace, SignalOver, Queued,
              Running, Signalled
<1>7. ASSUME RecoverTask PROVE IInv'
  BY <1>7 DEF IInv, TypeOK, RunnerPC, Panics, TaskInOnePlace, RecoverTask,
              LogErrorPanics, Queued, Running, Signalled
<1>8. ASSUME UNCHANGED vars PROVE IInv'
  BY <1>8 DEF IInv, TypeOK, TaskInOnePlace, vars, Queued, Running, Signalled
<1>9. QED
  BY <1>1, <1>2, <1>3, <1>4, <1>5, <1>6, <1>7, <1>8 DEF Next, Runner

\* The type invariant of the tunnel, and that a task is in exactly one place:
\* the channel, the runner or its execOver channel (TunnelExec and
\* RunTunnelTasks).
THEOREM TaskInOnePlaceAlways == Spec => [](TypeOK /\ TaskInOnePlace)
<1>1. Init => IInv
  BY CapAssumption DEF Init, IInv, TypeOK, TaskInOnePlace, CallerPC, RunnerPC,
                       Panics, Queued, Running, Signalled
<1>2. QED
  BY <1>1, IInvStep, PTL DEF Spec, IInv

-----------------------------------------------------------------------------
(* The refinement.  A step of TunnelExec starts a call, a step of           *)
(* ExecuteTask executes one and a step of AwaitOver returns from one; every  *)
(* other step leaves ExecStatus alone.                                       *)

\* Every step of TunnelTask is a step of SerialExec or leaves it alone.
LEMMA StepImplements == IInv /\ [Next]_vars => [SE!Next]_ExecStatus
<1> SUFFICES ASSUME IInv, [Next]_vars PROVE [SE!Next]_ExecStatus
  OBVIOUS
<1> USE DEF IInv, TypeOK
<1>1. ASSUME NEW c \in Callers, TunnelExec(c) PROVE SE!Call(c)
  BY <1>1 DEF TunnelExec, TaskInOnePlace, SE!Call, ExecStatus, Signalled,
              Running, CallerPC
<1>2. ASSUME NEW c \in Callers, Send(c) PROVE ExecStatus' = ExecStatus
  BY <1>2 DEF Send, ExecStatus, Signalled
<1>3. ASSUME NEW c \in Callers, AwaitOver(c) PROVE SE!Return(c)
  BY <1>3 DEF AwaitOver, TaskInOnePlace, SE!Return, ExecStatus, Signalled,
              Running, CallerPC
<1>4. ASSUME ReceiveTask PROVE ExecStatus' = ExecStatus
  BY <1>4 DEF ReceiveTask, ExecStatus, Signalled
<1>5. ASSUME ExecuteTask PROVE SE!Execute(cur)
  BY <1>5 DEF ExecuteTask, TaskInOnePlace, SE!Execute, ExecStatus, Signalled,
              Running
<1>6. ASSUME SignalOver PROVE ExecStatus' = ExecStatus
  BY <1>6 DEF SignalOver, ExecStatus, Signalled
<1>7. ASSUME RecoverTask PROVE ExecStatus' = ExecStatus
  BY <1>7 DEF RecoverTask, LogErrorPanics, ExecStatus, Signalled
<1>8. ASSUME UNCHANGED vars PROVE ExecStatus' = ExecStatus
  BY <1>8 DEF vars, ExecStatus, Signalled
<1>9. QED
  BY <1>1, <1>2, <1>3, <1>4, <1>5, <1>6, <1>7, <1>8 DEF Next, Runner, SE!Next

\* The tunnel implements the serial executor for any number of callers and
\* any capacity: each TunnelExec gets its task executed once, alone, before it
\* returns.
THEOREM TunnelImplementsSerialExec == Spec => ImplementsSerialExec
<1>1. Init => SE!Init
  BY DEF Init, SE!Init, ExecStatus
<1>2. Init => IInv
  BY CapAssumption DEF Init, IInv, TypeOK, TaskInOnePlace, CallerPC, RunnerPC,
                       Panics, Queued, Running, Signalled
<1>3. QED
  BY <1>1, <1>2, IInvStep, StepImplements, PTL
     DEF Spec, ImplementsSerialExec, SE!Spec
=============================================================================
