------------------------- MODULE AcceptLoopsProofs -------------------------
(***************************************************************************)
(* Proofs about AcceptLoops: the buffers of a conn have one owner, and     *)
(* after Stop a loop of a serve group, or of a port forwarder, hands over  *)
(* one connection at most.                                                 *)
(***************************************************************************)
EXTENDS AcceptLoops, TLAPS

\* The loop that holds a connection which it has not handed over is a port
\* forwarder's: only this one looks at its channel between the two.
GotByForward == \A l \in Loops : lpc[l] \in {"got", "hand"} => kind[l] = "forward"

\* A conn of the group has buffers from the accept to the end of its flush.
HasBuffers ==
  \A c \in Conns :
    cst[c] \in {"flush", "put"} \/ (cst[c] = "serving" /\ InGroup(at[c]))
      => buf[c] # None

\* A loop of the group that has handed over a connection after Stop will find
\* the flag set when it next looks, or has found it; and Serve clears the flag
\* only while no loop of the group has been started.  A port forwarder that has
\* handed over one late will find its channel closed, which stays so: it is not
\* about to hand over another.
LateEnds(l) ==
  /\ InGroup(l) =>
       /\ gpc # "serving" => lpc[l] = "idle"
       /\ late[l] = 0 \/ (/\ late[l] = 1
                          /\ \/ lpc[l] \in {"close", "ended"}
                             \/ lpc[l] = "test" /\ terminate)
  /\ kind[l] = "forward" =>
       late[l] = 0 \/ (late[l] = 1 /\ terminated[l] = 1 /\ lpc[l] # "hand")
  /\ kind[l] = "absent" => late[l] = 0

LatesEnd == \A l \in Loops : LateEnds(l)

IInv == TypeOK /\ GotByForward /\ HasBuffers /\ BufferExclusive /\ LatesEnd

-----------------------------------------------------------------------------
(* The type invariant, one action at a time.                                *)

LEMMA TypeInit == Init => TypeOK
<1> SUFFICES ASSUME Init PROVE TypeOK
  OBVIOUS
<1>1. kind \in Setups /\ kind \in [Loops -> Kinds]
  BY SetupsAssumption DEF Init
<1>2. lpc \in [Loops -> {"idle", "start", "ended"}]
  BY <1>1 DEF Init, InGroup, Kinds
<1>3. target \in [Stoppers -> Loops] /\ at \in [Conns -> Loops]
  BY DEF Init, Present
<1> QED BY <1>1, <1>2, <1>3 DEF Init, TypeOK

LEMMA TypeStep == TypeOK /\ HasBuffers /\ Next => TypeOK'
<1> SUFFICES ASSUME TypeOK, HasBuffers, Next PROVE TypeOK'
  OBVIOUS
<1> USE DEF TypeOK, listenVars, stopVars, connVars, copyVars
<1>1. CASE GroupServe
  BY <1>1 DEF GroupServe
<1>2. CASE GroupStart
  BY <1>2 DEF GroupStart
<1>3. CASE Cancel
  BY <1>3 DEF Cancel
<1>4. ASSUME NEW l \in Loops, GroupListen(l) PROVE TypeOK'
  BY <1>4 DEF GroupListen
<1>5. ASSUME NEW l \in Loops, AcceptFails(l) PROVE TypeOK'
  BY <1>5 DEF AcceptFails, Goto
<1>6. ASSUME NEW l \in Loops, LoopStep(l) PROVE TypeOK'
  <2>1. CASE TestTerminate(l)
    BY <2>1 DEF TestTerminate, Goto
  <2>2. CASE EndLoop(l)
    BY <2>2 DEF EndLoop, Goto, CloseSocket
  <2>3. CASE ProxyListen(l)
    <3>1. UNCHANGED <<kind, known, gpc, late, terminate, terminated, spc, target, cst, at,
                      open, copy, buf, pool, ctxDone, crashed>>
      BY <2>3 DEF ProxyListen
    <3>2. sock' \in [Loops -> {"none", "open", "closed"}]
      BY <2>3 DEF ProxyListen
    <3>3. lpc' = [lpc EXCEPT ![l] = "store"] \/ lpc' = [lpc EXCEPT ![l] = "ended"]
      BY <2>3 DEF ProxyListen, Goto
    <3> QED BY <3>1, <3>2, <3>3
  <2>4. CASE StoreListener(l)
    BY <2>4 DEF StoreListener, Goto
  <2>5. CASE SocksError(l)
    BY <2>5 DEF SocksError, Goto
  <2>6. CASE SleepEnds(l)
    BY <2>6 DEF SleepEnds, Goto
  <2>7. CASE ForwardError(l)
    BY <2>7 DEF ForwardError, Goto
  <2>8. ASSUME NEW c \in Conns, AcceptInGroup(l, c) PROVE TypeOK'
    BY <2>8 DEF AcceptInGroup, TakeBuffers, Goto
  <2>9. ASSUME NEW c \in Conns, SocksAccept(l, c) PROVE TypeOK'
    <3>1. terminated[l] \in Nat /\ late[l] \in Nat
      OBVIOUS
    <3>2. late[l] + terminated[l] \in Nat
      BY <3>1
    <3> QED BY <2>9, <3>2 DEF SocksAccept
  <2>10. ASSUME NEW c \in Conns, ForwardAccept(l, c) PROVE TypeOK'
    BY <2>10 DEF ForwardAccept, Goto
  <2>11. ASSUME NEW c \in Conns, ForwardTest(l, c) PROVE TypeOK'
    BY <2>11 DEF ForwardTest, Goto
  <2>12. ASSUME NEW c \in Conns, ForwardHandOver(l, c) PROVE TypeOK'
    BY <2>12 DEF ForwardHandOver, Goto
  <2> QED BY <1>6, <2>1, <2>2, <2>3, <2>4, <2>5, <2>6, <2>7, <2>8, <2>9, <2>10, <2>11,
             <2>12 DEF LoopStep, TcpAccept, UdpRead
<1>7. ASSUME NEW s \in Stoppers, StopGroup(s) \/ StopSignal(s) \/ StopClose(s)
      PROVE TypeOK'
  <2>1. CASE StopGroup(s)
    BY <2>1 DEF StopGroup
  <2>2. CASE StopSignal(s)
    BY <2>2 DEF StopSignal
  <2>3. CASE StopClose(s)
    BY <2>3 DEF StopClose, CloseSocket
  <2> QED BY <1>7, <2>1, <2>2, <2>3
<1>8. ASSUME NEW c \in Conns, Arrive(c) PROVE TypeOK'
  BY <1>8 DEF Arrive
<1>9. ASSUME NEW c \in Conns, ConnStep(c) PROVE TypeOK'
  <2>1. CASE HandleRequest(c)
    BY <2>1 DEF HandleRequest
  <2>2. CASE Flush(c)
    BY <2>2 DEF Flush
  <2>3. CASE PutBuffers(c)
    BY <2>3 DEF PutBuffers, HasBuffers
  <2>4. CASE SocksServeConn(c)
    BY <2>4 DEF SocksServeConn
  <2>5. CASE ForwardServeConn(c)
    <3>1. UNCHANGED <<kind, sock, known, lpc, gpc, late, terminate, terminated, spc,
                      target, at, buf, pool, ctxDone>>
      BY <2>5 DEF ForwardServeConn
    <3>2. CASE crashed' = TRUE /\ UNCHANGED <<cst, copyVars>>
      BY <3>1, <3>2
    <3>3. CASE /\ cst' = [cst EXCEPT ![c] = "copying"]
               /\ open' = [open EXCEPT ![c] = Ends]
               /\ copy' = [copy EXCEPT ![c] = [e \in Ends |-> "run"]]
               /\ UNCHANGED crashed
      <4>1. [e \in Ends |-> "run"] \in [Ends -> {"none", "run", "first", "second", "done"}]
        OBVIOUS
      <4>2. copy' \in [Conns -> [Ends -> {"none", "run", "first", "second", "done"}]]
        BY <3>3, <4>1
      <4>3. open' \in [Conns -> SUBSET Ends]
        BY <3>3
      <4> QED BY <3>1, <3>3, <4>2, <4>3
    <3> QED BY <2>5, <3>2, <3>3 DEF ForwardServeConn
  <2>6. ASSUME NEW e \in Ends, CopyEnds(c, e) \/ CloseRead(c, e) \/ CloseWritten(c, e)
        PROVE  TypeOK'
    <3>1. UNCHANGED <<kind, sock, known, lpc, gpc, late, terminate, terminated, spc,
                      target, cst, at, buf, pool, ctxDone, crashed>>
      BY <2>6 DEF CopyEnds, CloseRead, CloseWritten
    <3>2. open' \in [Conns -> SUBSET Ends]
      BY <2>6 DEF CopyEnds, CloseRead, CloseWritten
    <3>3. PICK pc \in {"first", "second", "done"} : copy' = [copy EXCEPT ![c][e] = pc]
      BY <2>6 DEF CopyEnds, CloseRead, CloseWritten, CopyTo
    <3>4. copy' \in [Conns -> [Ends -> {"none", "run", "first", "second", "done"}]]
      BY <3>3
    <3> QED BY <3>1, <3>2, <3>4
  <2> QED BY <1>9, <2>1, <2>2, <2>3, <2>4, <2>5, <2>6 DEF ConnStep
<1> QED BY <1>1, <1>2, <1>3, <1>4, <1>5, <1>6, <1>7, <1>8, <1>9 DEF Next

-----------------------------------------------------------------------------
(* Buffers.                                                                 *)

\* A step that leaves the pools alone, and brings no conn of the group to a
\* point where it needs buffers from one where it does not, keeps them owned.
LEMMA SameBuffers ==
  ASSUME HasBuffers, BufferExclusive, UNCHANGED <<kind, at, buf, pool>>,
         \A c \in Conns :
           \/ cst'[c] = cst[c]
           \/ cst'[c] \notin {"serving", "flush", "put"}
           \/ cst'[c] = "serving" /\ ~InGroup(at[c])
           \/ cst'[c] = "flush" /\ cst[c] = "serving" /\ InGroup(at[c])
           \/ cst'[c] = "put" /\ cst[c] = "flush"
  PROVE  HasBuffers' /\ BufferExclusive'
<1>1. BufferExclusive'
  BY DEF BufferExclusive
<1>2. HasBuffers'
  BY DEF HasBuffers, InGroup
<1> QED BY <1>1, <1>2

\* The buffers that newConn takes are in the pools no more and no conn's.
LEMMA TakenBuffers ==
  ASSUME TypeOK, HasBuffers, BufferExclusive,
         NEW l \in Loops, NEW c \in Conns, AcceptInGroup(l, c)
  PROVE  HasBuffers' /\ BufferExclusive'
<1> USE DEF TypeOK
<1>1. PICK b \in pool \cup {n \in Buffers : \A d \in Conns : buf[d] # n} :
        buf' = [buf EXCEPT ![c] = b] /\ pool' = pool \ {b}
  BY DEF AcceptInGroup, TakeBuffers
<1>2. b \in Buffers /\ b # None
  BY BuffersAssumption
<1>3. \A d \in Conns : buf[d] # b
  BY <1>1, <1>2 DEF BufferExclusive
<1>4. buf'[c] = b /\ \A d \in Conns \ {c} : buf'[d] = buf[d]
  BY <1>1
<1>5. BufferExclusive'
  BY <1>1, <1>3, <1>4 DEF BufferExclusive
<1>6. HasBuffers'
  <2>1. UNCHANGED <<kind, at>> /\ \A d \in Conns \ {c} : cst'[d] = cst[d]
    BY DEF AcceptInGroup
  <2> QED BY <1>2, <1>4, <2>1 DEF HasBuffers, InGroup
<1> QED BY <1>5, <1>6

\* finalFlush puts back buffers that no other conn holds, and lets go of them.
LEMMA PutBack ==
  ASSUME TypeOK, HasBuffers, BufferExclusive, NEW c \in Conns, PutBuffers(c)
  PROVE  HasBuffers' /\ BufferExclusive'
<1> USE DEF TypeOK
<1>1. buf'[c] = None /\ \A d \in Conns \ {c} : buf'[d] = buf[d]
  BY DEF PutBuffers
<1>2. pool' = pool \cup {buf[c]}
  BY DEF PutBuffers
<1>3. BufferExclusive'
  BY <1>1, <1>2 DEF BufferExclusive
<1>4. HasBuffers'
  <2>1. UNCHANGED <<kind, at>> /\ cst'[c] = "closed"
          /\ \A d \in Conns \ {c} : cst'[d] = cst[d]
    BY DEF PutBuffers, listenVars, stopVars
  <2> QED BY <1>1, <2>1 DEF HasBuffers, InGroup
<1> QED BY <1>3, <1>4

LEMMA BuffersStep ==
  ASSUME TypeOK, GotByForward, HasBuffers, BufferExclusive, Next
  PROVE  HasBuffers' /\ BufferExclusive'
<1> USE DEF TypeOK, listenVars, stopVars, connVars, copyVars
<1>1. CASE GroupServe \/ GroupStart \/ Cancel
  BY <1>1, SameBuffers DEF GroupServe, GroupStart, Cancel
<1>2. ASSUME NEW l \in Loops, GroupListen(l) \/ AcceptFails(l)
      PROVE HasBuffers' /\ BufferExclusive'
  BY <1>2, SameBuffers DEF GroupListen, AcceptFails
<1>3. ASSUME NEW l \in Loops, LoopStep(l) PROVE HasBuffers' /\ BufferExclusive'
  <2>1. CASE TestTerminate(l) \/ ProxyListen(l) \/ StoreListener(l)
    BY <2>1, SameBuffers DEF TestTerminate, ProxyListen, StoreListener
  <2>2. CASE SocksError(l) \/ SleepEnds(l) \/ ForwardError(l)
    BY <2>2, SameBuffers DEF SocksError, SleepEnds, ForwardError
  <2>3. CASE EndLoop(l)
    BY <2>3, SameBuffers DEF EndLoop, CloseSocket
  <2>4. ASSUME NEW c \in Conns, AcceptInGroup(l, c)
        PROVE HasBuffers' /\ BufferExclusive'
    BY <2>4, TakenBuffers
  <2>5. ASSUME NEW c \in Conns, SocksAccept(l, c)
        PROVE HasBuffers' /\ BufferExclusive'
    BY <2>5, SameBuffers DEF SocksAccept, InGroup
  <2>6. ASSUME NEW c \in Conns, ForwardAccept(l, c)
        PROVE HasBuffers' /\ BufferExclusive'
    BY <2>6, SameBuffers DEF ForwardAccept
  <2>7. ASSUME NEW c \in Conns, ForwardTest(l, c)
        PROVE HasBuffers' /\ BufferExclusive'
    <3>1. ~InGroup(at[c])
      BY <2>7 DEF ForwardTest, GotByForward, InGroup
    <3> QED BY <2>7, <3>1, SameBuffers DEF ForwardTest
  <2>8. ASSUME NEW c \in Conns, ForwardHandOver(l, c)
        PROVE HasBuffers' /\ BufferExclusive'
    <3>1. ~InGroup(at[c])
      BY <2>8 DEF ForwardHandOver, GotByForward, InGroup
    <3> QED BY <2>8, <3>1, SameBuffers DEF ForwardHandOver
  <2> QED BY <1>3, <2>1, <2>2, <2>3, <2>4, <2>5, <2>6, <2>7, <2>8
          DEF LoopStep, TcpAccept, UdpRead
<1>4. ASSUME NEW s \in Stoppers, StopGroup(s) \/ StopSignal(s) \/ StopClose(s)
      PROVE HasBuffers' /\ BufferExclusive'
  <2>1. CASE StopGroup(s) \/ StopSignal(s)
    BY <2>1, SameBuffers DEF StopGroup, StopSignal
  <2>2. CASE StopClose(s)
    BY <2>2, SameBuffers DEF StopClose, CloseSocket
  <2> QED BY <1>4, <2>1, <2>2
<1>5. ASSUME NEW c \in Conns, Arrive(c) \/ ConnStep(c)
      PROVE HasBuffers' /\ BufferExclusive'
  <2>1. CASE Arrive(c)
    BY <2>1, SameBuffers DEF Arrive
  <2>2. CASE HandleRequest(c)
    BY <2>2, SameBuffers DEF HandleRequest
  <2>3. CASE Flush(c)
    BY <2>3, SameBuffers DEF Flush
  <2>4. CASE PutBuffers(c)
    BY <2>4, PutBack
  <2>5. CASE SocksServeConn(c) \/ ForwardServeConn(c)
    BY <2>5, SameBuffers DEF SocksServeConn, ForwardServeConn
  <2>6. ASSUME NEW e \in Ends, CopyEnds(c, e) \/ CloseRead(c, e) \/ CloseWritten(c, e)
        PROVE HasBuffers' /\ BufferExclusive'
    BY <2>6, SameBuffers DEF CopyEnds, CloseRead, CloseWritten
  <2> QED BY <1>5, <2>1, <2>2, <2>3, <2>4, <2>5, <2>6 DEF ConnStep
<1> QED BY <1>1, <1>2, <1>3, <1>4, <1>5 DEF Next

-----------------------------------------------------------------------------
(* Loops.                                                                   *)

\* A step that moves at most one loop, and neither the flag nor the count.
LEMMA OneLoop ==
  ASSUME TypeOK, GotByForward, LatesEnd, NEW l \in Loops,
         UNCHANGED <<kind, gpc, late, terminate>>,
         \A m \in Loops : kind[m] = "forward" => terminated'[m] = terminated[m],
         \/ UNCHANGED lpc
         \/ /\ lpc' = [lpc EXCEPT ![l] = lpc'[l]]
            /\ lpc'[l] \in {"got", "hand"} => kind[l] = "forward"
            /\ lpc'[l] = "hand" => terminated[l] = 0
            /\ InGroup(l) =>
                 /\ lpc[l] # "idle"
                 /\ \/ late[l] = 0
                    \/ lpc'[l] \in {"close", "ended"}
  PROVE  GotByForward' /\ LatesEnd'
<1>1. GotByForward'
  BY DEF GotByForward, TypeOK
<1>2. LatesEnd'
  <2> SUFFICES ASSUME NEW m \in Loops PROVE LateEnds(m)'
    BY DEF LatesEnd
  <2>1. LateEnds(m)
    BY DEF LatesEnd
  <2>2. CASE lpc'[m] = lpc[m]
    BY <2>1, <2>2 DEF LateEnds, InGroup
  <2>3. CASE lpc'[m] # lpc[m]
    <3>1. m = l
      BY <2>3 DEF TypeOK
    <3> QED BY <2>1, <2>3, <3>1 DEF LateEnds, InGroup, TypeOK
  <2> QED BY <2>2, <2>3
<1> QED BY <1>1, <1>2

\* A step that moves no loop; Stop may set the flag or close the channel.
LEMMA NoLoop ==
  ASSUME GotByForward, LatesEnd, UNCHANGED <<kind, lpc, gpc, late>>,
         terminate => terminate',
         \A l \in Loops : kind[l] = "forward" => terminated'[l] \in {terminated[l], 1}
  PROVE  GotByForward' /\ LatesEnd'
<1>1. GotByForward'
  BY DEF GotByForward
<1>2. ASSUME NEW m \in Loops PROVE LateEnds(m)'
  <2>1. LateEnds(m)
    BY DEF LatesEnd
  <2> QED BY <2>1 DEF LateEnds, InGroup
<1> QED BY <1>1, <1>2 DEF LatesEnd

LEMMA LoopsStep ==
  ASSUME TypeOK, GotByForward, LatesEnd, Next
  PROVE  GotByForward' /\ LatesEnd'
<1> USE DEF listenVars, stopVars
<1>1. CASE GroupServe
  \* The flag is cleared while every loop of the group is idle.
  BY <1>1 DEF GroupServe, GotByForward, LatesEnd, LateEnds, InGroup, TypeOK
<1>2. CASE GroupStart
  BY <1>2 DEF GroupStart, GotByForward, LatesEnd, LateEnds, InGroup, TypeOK
<1>3. ASSUME NEW l \in Loops, GroupListen(l) PROVE GotByForward' /\ LatesEnd'
  BY <1>3 DEF GroupListen, GotByForward, LatesEnd, LateEnds, InGroup
<1>4. CASE Cancel
  BY <1>4 DEF Cancel, GotByForward, LatesEnd, LateEnds, InGroup
<1>5. ASSUME NEW l \in Loops, AcceptFails(l) PROVE GotByForward' /\ LatesEnd'
  <2>1. ~InGroup(l) /\ UNCHANGED <<kind, gpc, late, terminate>>
    BY <1>5 DEF AcceptFails
  <2>2. lpc' = [lpc EXCEPT ![l] = "error"] /\ lpc'[l] = "error"
    BY <1>5 DEF AcceptFails, Goto, TypeOK
  <2>3. UNCHANGED terminated
    BY <1>5 DEF AcceptFails
  <2> QED BY <2>1, <2>2, <2>3, OneLoop
<1>6. ASSUME NEW l \in Loops, LoopStep(l) PROVE GotByForward' /\ LatesEnd'
  <2>0. LateEnds(l)
    BY DEF LatesEnd
  <2>1. CASE TestTerminate(l)
    BY <2>0, <2>1, OneLoop DEF TestTerminate, Goto, TypeOK, LateEnds
  <2>2. CASE EndLoop(l)
    BY <2>2, OneLoop DEF EndLoop, Goto, TypeOK
  <2>3. CASE ProxyListen(l)
    BY <2>0, <2>3, OneLoop DEF ProxyListen, Goto, TypeOK, LateEnds
  <2>4. CASE StoreListener(l)
    BY <2>0, <2>4, OneLoop DEF StoreListener, Goto, TypeOK, LateEnds
  <2>5. CASE SocksError(l)
    BY <2>0, <2>5, OneLoop DEF SocksError, Goto, TypeOK, LateEnds
  <2>6. CASE SleepEnds(l)
    BY <2>0, <2>6, OneLoop DEF SleepEnds, Goto, TypeOK, LateEnds
  <2>7. CASE ForwardError(l)
    BY <2>0, <2>7, OneLoop DEF ForwardError, Goto, TypeOK, LateEnds
  <2>8. ASSUME NEW c \in Conns, InGroup(l), AcceptInGroup(l, c)
        PROVE GotByForward' /\ LatesEnd'
    \* The loop was at Accept, so this is its first late connection.
    <3>1. late[l] = 0 /\ gpc = "serving"
      BY <2>0, <2>8 DEF AcceptInGroup, LateEnds
    <3>2. UNCHANGED <<kind, gpc, terminate>> /\ lpc' = [lpc EXCEPT ![l] = "test"]
      BY <2>8 DEF AcceptInGroup, Goto
    <3>3. late' = [late EXCEPT ![l] = IF terminate THEN 1 ELSE 0]
      BY <2>8, <3>1 DEF AcceptInGroup, TypeOK
    <3>4. GotByForward'
      BY <3>2 DEF GotByForward, TypeOK
    <3>5. ASSUME NEW m \in Loops PROVE LateEnds(m)'
      <4>1. LateEnds(m) /\ UNCHANGED terminated
        BY <2>8 DEF AcceptInGroup, LatesEnd
      <4>2. CASE m = l
        BY <2>8, <3>1, <3>2, <3>3, <4>2 DEF LateEnds, InGroup, TypeOK
      <4>3. CASE m # l
        BY <3>2, <3>3, <4>1, <4>3 DEF LateEnds, InGroup, TypeOK
      <4> QED BY <4>2, <4>3
    <3> QED BY <3>4, <3>5 DEF LatesEnd
  <2>9. ASSUME NEW c \in Conns, SocksAccept(l, c)
        PROVE GotByForward' /\ LatesEnd'
    <3>1. UNCHANGED <<kind, lpc, gpc, terminate, terminated>> /\ kind[l] = "socks"
      BY <2>9 DEF SocksAccept
    <3>2. \A m \in Loops \ {l} : late'[m] = late[m]
      BY <2>9 DEF SocksAccept, TypeOK
    <3>3. GotByForward'
      BY <3>1 DEF GotByForward
    <3>4. ASSUME NEW m \in Loops PROVE LateEnds(m)'
      <4>1. LateEnds(m)
        BY DEF LatesEnd
      <4> QED BY <3>1, <3>2, <4>1 DEF LateEnds, InGroup
    <3> QED BY <3>3, <3>4 DEF LatesEnd
  <2>10. ASSUME NEW c \in Conns, ForwardAccept(l, c)
         PROVE GotByForward' /\ LatesEnd'
    BY <2>10, OneLoop DEF ForwardAccept, Goto, TypeOK, InGroup
  <2>11. ASSUME NEW c \in Conns, ForwardTest(l, c)
         PROVE GotByForward' /\ LatesEnd'
    BY <2>11, OneLoop DEF ForwardTest, Goto, TypeOK, InGroup, GotByForward
  <2>12. ASSUME NEW c \in Conns, ForwardHandOver(l, c)
         PROVE GotByForward' /\ LatesEnd'
    \* The loop was about to hand over, so this is its first late connection.
    <3>1. kind[l] = "forward" /\ late[l] = 0 /\ terminated[l] \in {0, 1}
      BY <2>0, <2>12 DEF ForwardHandOver, GotByForward, LateEnds, TypeOK
    <3>2. UNCHANGED <<kind, gpc, terminate, terminated>> /\ lpc' = [lpc EXCEPT ![l] = "accept"]
      BY <2>12 DEF ForwardHandOver, Goto
    <3>3. late' = [late EXCEPT ![l] = terminated[l]]
      <4>1. late' = [late EXCEPT ![l] = late[l] + terminated[l]]
        BY <2>12 DEF ForwardHandOver
      <4>2. late[l] + terminated[l] = terminated[l]
        BY <3>1
      <4> QED BY <4>1, <4>2
    <3>4. GotByForward'
      BY <3>2 DEF GotByForward, TypeOK
    <3>5. ASSUME NEW m \in Loops PROVE LateEnds(m)'
      <4>1. LateEnds(m)
        BY DEF LatesEnd
      <4>2. CASE m = l
        BY <3>1, <3>2, <3>3, <4>2 DEF LateEnds, InGroup, TypeOK
      <4>3. CASE m # l
        BY <3>2, <3>3, <4>1, <4>3 DEF LateEnds, InGroup, TypeOK
      <4> QED BY <4>2, <4>3
    <3> QED BY <3>4, <3>5 DEF LatesEnd
  <2> QED BY <1>6, <2>1, <2>2, <2>3, <2>4, <2>5, <2>6, <2>7, <2>8, <2>9, <2>10, <2>11,
             <2>12 DEF LoopStep, TcpAccept, UdpRead, InGroup
<1>7. ASSUME NEW s \in Stoppers, StopGroup(s) \/ StopSignal(s) \/ StopClose(s)
      PROVE GotByForward' /\ LatesEnd'
  <2>1. UNCHANGED <<kind, lpc, gpc, late>> /\ (terminate => terminate')
    BY <1>7 DEF StopGroup, StopSignal, StopClose
  <2>2. \A l \in Loops : terminated'[l] \in {terminated[l], 1}
    BY <1>7 DEF StopGroup, StopSignal, StopClose, TypeOK
  <2> QED BY <2>1, <2>2, NoLoop
<1>8. ASSUME NEW c \in Conns, Arrive(c) \/ ConnStep(c)
      PROVE GotByForward' /\ LatesEnd'
  <2>1. UNCHANGED <<kind, lpc, gpc, late, terminate, terminated>>
    BY <1>8 DEF Arrive, ConnStep, HandleRequest, Flush, PutBuffers, SocksServeConn,
                ForwardServeConn, CopyEnds, CloseRead, CloseWritten
  <2> QED BY <2>1, NoLoop
<1> QED BY <1>1, <1>2, <1>3, <1>4, <1>5, <1>6, <1>7, <1>8 DEF Next

-----------------------------------------------------------------------------
LEMMA IInvInit == Init => IInv
<1> SUFFICES ASSUME Init PROVE IInv
  OBVIOUS
<1>1. TypeOK
  BY TypeInit
<1>2. \A l \in Loops : /\ lpc[l] \in {"idle", "start", "ended"}
                       /\ InGroup(l) => lpc[l] = "idle"
  <2> SUFFICES ASSUME NEW l \in Loops
               PROVE  /\ lpc[l] \in {"idle", "start", "ended"}
                      /\ InGroup(l) => lpc[l] = "idle"
    OBVIOUS
  <2>1. kind[l] \in Kinds
    BY SetupsAssumption DEF Init
  <2>2. lpc[l] = CASE InGroup(l) -> "idle"
                   [] kind[l] \in {"socks", "forward"} -> "start"
                   [] kind[l] = "absent" -> "ended"
    BY DEF Init
  <2> QED BY <2>1, <2>2 DEF InGroup, Kinds
<1>3. GotByForward
  BY <1>2 DEF GotByForward
<1>4. HasBuffers /\ BufferExclusive
  BY DEF Init, HasBuffers, BufferExclusive
<1>5. LatesEnd
  BY <1>2 DEF Init, LatesEnd, LateEnds
<1> QED BY <1>1, <1>3, <1>4, <1>5 DEF IInv

LEMMA IInvStep == IInv /\ [Next]_vars => IInv'
<1> SUFFICES ASSUME IInv, [Next]_vars PROVE IInv'
  OBVIOUS
<1>1. CASE Next
  BY <1>1, TypeStep, BuffersStep, LoopsStep DEF IInv
<1>2. CASE UNCHANGED vars
  BY <1>2 DEF IInv, TypeOK, GotByForward, HasBuffers, BufferExclusive, LatesEnd,
              LateEnds, InGroup, vars, listenVars, stopVars, connVars, copyVars
<1> QED BY <1>1, <1>2

LEMMA IInvAlways == Spec => []IInv
BY IInvInit, IInvStep, PTL DEF Spec

\* The reader and writer that newConn takes from the pools of conn.go belong to
\* one conn until finalFlush has put them back: no two conns write into one
\* buffer, and no conn flushes a buffer that the pools may give away.
THEOREM BufferExclusiveAlways == Spec => [](TypeOK /\ BufferExclusive)
<1>1. IInv => TypeOK /\ BufferExclusive
  BY DEF IInv
<1> QED BY <1>1, IInvAlways, PTL

\* Once Stop has set terminate, a loop of ServeGroup hands over at most one more
\* connection, and so does the loop of PortForward once Stop has closed its
\* channel: also when Stop comes between the test of the channel and the go.
THEOREM LateConnsAlways == Spec => []LateConns
<1>1. IInv => LateConns
  <2> SUFFICES ASSUME IInv, NEW l \in Loops, kind[l] # "socks" PROVE late[l] <= 1
    BY DEF LateConns
  <2>1. LateEnds(l)
    BY DEF IInv, LatesEnd
  <2>2. InGroup(l) \/ kind[l] \in {"forward", "absent"}
    BY SetupsAssumption DEF IInv, TypeOK, InGroup, Kinds
  <2> QED BY <2>1, <2>2 DEF LateEnds
<1> QED BY <1>1, IInvAlways, PTL

=============================================================================
