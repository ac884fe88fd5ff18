-------------------------- MODULE SyncActionProofs --------------------------
(***************************************************************************)
(* For every set of calls and every size of the channel, RunTask returns   *)
(* only after its task has run, unless the context is done.                *)
(*                                                                         *)
(* ReturnsAfterTask says nothing of a task that is still on its way, so it *)
(* is not inductive.  TaskPlace adds where a task can be: nowhere before   *)
(* it was sent, then in the channel, then with serve, and in one of these  *)
(* at most; its wt is closed only after it has left all of them; and a     *)
(* call that returned without the context being done has seen wt closed.   *)
(***************************************************************************)
EXTENDS SyncAction, TLAPS

Queued(c)  == \E i \in 1..Len(actionTasks) : actionTasks[i] = c
Running(c) == spc \in {"run", "close"} /\ cur = c

TaskPlace ==
  /\ \A i, j \in 1..Len(actionTasks) : actionTasks[i] = actionTasks[j] => i = j
  /\ \A c \in Calls :
       /\ cpc[c] \in {"idle", "sending"} => ~Queued(c) /\ ~Running(c) /\ c \notin wt
       /\ ~(Queued(c) /\ Running(c))
       /\ c \in wt => c \in executed /\ ~Queued(c) /\ ~Running(c)
       /\ cpc[c] = "returned" /\ ~ctxDone => c \in wt
  /\ spc = "close" => cur \in executed

IInv == TypeOK /\ TaskPlace

-----------------------------------------------------------------------------
\* What the send of RunTask does to the channel.
LEMMA QueuedAfterAppend ==
  ASSUME TypeOK, NEW c \in Calls, actionTasks' = Append(actionTasks, c)
  PROVE  /\ actionTasks' \in Seq(Calls)
         /\ Len(actionTasks') = Len(actionTasks) + 1
         /\ \A d \in Calls : Queued(d)' <=> Queued(d) \/ d = c
         /\ TaskPlace /\ ~Queued(c) =>
              \A i, j \in 1..Len(actionTasks') : actionTasks'[i] = actionTasks'[j] => i = j
<1>1. actionTasks \in Seq(Calls)
  BY DEF TypeOK
<1>2. /\ actionTasks' \in Seq(Calls)
      /\ Len(actionTasks') = Len(actionTasks) + 1
      /\ \A i \in 1..Len(actionTasks) : actionTasks'[i] = actionTasks[i]
      /\ actionTasks'[Len(actionTasks) + 1] = c
      /\ Len(actionTasks) \in Nat
  BY <1>1
<1>3. ASSUME NEW d \in Calls PROVE Queued(d)' <=> Queued(d) \/ d = c
  BY <1>2 DEF Queued
<1>4. ASSUME TaskPlace, ~Queued(c)
      PROVE  \A i, j \in 1..Len(actionTasks') : actionTasks'[i] = actionTasks'[j] => i = j
  BY <1>2, <1>4 DEF TaskPlace, Queued
<1>5. QED
  BY <1>2, <1>3, <1>4

\* What the receive of serve does to the channel.
LEMMA QueuedAfterTail ==
  ASSUME TypeOK, TaskPlace, actionTasks # <<>>, actionTasks' = Tail(actionTasks)
  PROVE  /\ actionTasks' \in Seq(Calls)
         /\ Len(actionTasks') <= Len(actionTasks)
         /\ Head(actionTasks) \in Calls /\ Queued(Head(actionTasks))
         /\ \A i, j \in 1..Len(actionTasks') : actionTasks'[i] = actionTasks'[j] => i = j
         /\ \A d \in Calls : Queued(d)' => Queued(d) /\ d # Head(actionTasks)
<1>1. actionTasks \in Seq(Calls)
  BY DEF TypeOK
<1>2. /\ actionTasks' \in Seq(Calls)
      /\ Len(actionTasks) \in Nat \ {0}
      /\ Len(actionTasks') = Len(actionTasks) - 1
      /\ \A i \in 1..Len(actionTasks') : actionTasks'[i] = actionTasks[i + 1]
      /\ Head(actionTasks) = actionTasks[1]
      /\ Head(actionTasks) \in Calls
  BY <1>1
<1>3. \A i, j \in 1..Len(actionTasks) : actionTasks[i] = actionTasks[j] => i = j
  BY DEF TaskPlace
<1>4. Queued(Head(actionTasks))
  BY <1>2 DEF Queued
<1>5. \A i, j \in 1..Len(actionTasks') : actionTasks'[i] = actionTasks'[j] => i = j
  BY <1>2, <1>3
<1>6. ASSUME NEW d \in Calls, Queued(d)' PROVE Queued(d) /\ d # Head(actionTasks)
  BY <1>6, <1>2, <1>3 DEF Queued
<1>7. QED
  BY <1>2, <1>4, <1>5, <1>6

-----------------------------------------------------------------------------
\* Every step of RunTask and of serve keeps a task in one place.
LEMMA IInvStep == IInv /\ [Next]_vars => IInv'
<1> SUFFICES ASSUME IInv, [Next]_vars PROVE IInv'
  OBVIOUS
<1> USE BufAssumption DEF IInv
<1>1. ASSUME NEW c \in Calls, RunTask(c) PROVE IInv'
  BY <1>1 DEF RunTask, TypeOK, TaskPlace, Queued, Running
<1>2. ASSUME NEW c \in Calls, Send(c) PROVE IInv'
  <2>1. /\ actionTasks' \in Seq(Calls)
        /\ Len(actionTasks') = Len(actionTasks) + 1
        /\ \A d \in Calls : Queued(d)' <=> Queued(d) \/ d = c
        /\ \A i, j \in 1..Len(actionTasks') : actionTasks'[i] = actionTasks'[j] => i = j
    BY <1>2, QueuedAfterAppend DEF Send, TaskPlace
  <2>2. TypeOK'
    BY <1>2, <2>1 DEF Send, TypeOK
  <2>3. \A d \in Calls : (Running(d)' <=> Running(d))
                           /\ cpc'[d] = IF d = c THEN "waiting" ELSE cpc[d]
    BY <1>2 DEF Send, Running, TypeOK
  <2>4. TaskPlace'
    BY <1>2, <2>1, <2>3 DEF Send, TaskPlace
  <2> QED BY <2>2, <2>4
<1>3. ASSUME NEW c \in Calls, Rendezvous(c) PROVE IInv'
  BY <1>3 DEF Rendezvous, TypeOK, TaskPlace, Queued, Running
<1>4. ASSUME NEW c \in Calls, Return(c) PROVE IInv'
  BY <1>4 DEF Return, TypeOK, TaskPlace, Queued, Running
<1>5. ASSUME Receive PROVE IInv'
  <2>1. /\ actionTasks' \in Seq(Calls)
        /\ Len(actionTasks') <= Len(actionTasks)
        /\ Head(actionTasks) \in Calls /\ Queued(Head(actionTasks))
        /\ \A i, j \in 1..Len(actionTasks') : actionTasks'[i] = actionTasks'[j] => i = j
        /\ \A d \in Calls : Queued(d)' => Queued(d) /\ d # Head(actionTasks)
    BY <1>5, QueuedAfterTail DEF Receive
  <2>2. TypeOK'
    BY <1>5, <2>1 DEF Receive, TypeOK
  <2>3. \A d \in Calls : Running(d)' => d = Head(actionTasks)
    BY <1>5 DEF Receive, Running
  <2>4. TaskPlace'
    BY <1>5, <2>1, <2>3 DEF Receive, TaskPlace
  <2> QED BY <2>2, <2>4
<1>6. ASSUME Execute PROVE IInv'
  BY <1>6 DEF Execute, TypeOK, TaskPlace, Queued, Running
<1>7. ASSUME CloseWt PROVE IInv'
  BY <1>7 DEF CloseWt, TypeOK, TaskPlace, Queued, Running
<1>8. ASSUME ServeDone PROVE IInv'
  BY <1>8 DEF ServeDone, TypeOK, TaskPlace, Queued, Running
<1>9. ASSUME Cancel PROVE IInv'
  BY <1>9 DEF Cancel, TypeOK, TaskPlace, Queued, Running
<1>10. ASSUME UNCHANGED vars PROVE IInv'
  BY <1>10 DEF vars, TypeOK, TaskPlace, Queued, Running
<1> QED
  BY <1>1, <1>2, <1>3, <1>4, <1>5, <1>6, <1>7, <1>8, <1>9, <1>10 DEF Next, Serve

\* For any number of calls, any size of the channel, any panics and any time
\* of cancelling: RunTask returns only after its task has run to its end,
\* unless the context is done.
THEOREM ReturnsAfterTaskAlways == Spec => [](TypeOK /\ ReturnsAfterTask)
<1>1. Init => IInv
  <2> SUFFICES ASSUME Init PROVE IInv
    OBVIOUS
  <2>1. TypeOK
    <3>1. actionTasks \in Seq(Calls) /\ Len(actionTasks) <= taskBufSize
      BY BufAssumption DEF Init
    <3> QED BY <3>1 DEF Init, TypeOK
  <2>2. TaskPlace
    BY DEF Init, TaskPlace, Queued, Running
  <2> QED BY <2>1, <2>2 DEF IInv
<1>2. IInv => TypeOK /\ ReturnsAfterTask
  BY DEF IInv, TaskPlace, ReturnsAfterTask, Running
<1> QED
  BY <1>1, <1>2, IInvStep, PTL DEF Spec
=============================================================================
