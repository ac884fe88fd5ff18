---------------------------- MODULE AcceptLoops ----------------------------
(***************************************************************************)
(* The accept loops of the library and what stopping them does:            *)
(* netserve/servegroup.go and netserve.go (a group of TCP and UDP          *)
(* listeners, stopped by a flag that is read after each connection),       *)
(* sshutil/socks5proxy.go (stopped by a token in a channel and by closing  *)
(* the listener), and sshutil/portfd.go (stopped by closing a channel and  *)
(* the listener), with the connections they hand over and the pools their  *)
(* buffers come from (netserve/conn.go).                                   *)
(*                                                                         *)
(* Where the code cannot block for ever (a ReadTimeOut is set, a UDP packet *)
(* is in memory) a handler is said to end; where only the peers can end a  *)
(* read (no ReadTimeOut, the copies of the port forwarder, the socks5      *)
(* server) it may go on for ever.                                          *)
(*                                                                         *)
(* A UDP datagram is a connection here.  An Accept that fails in a loop of *)
(* the group, a read that times out and an empty datagram are followed by  *)
(* continue and nothing else: they are stuttering steps.                   *)
(***************************************************************************)
EXTENDS Naturals

CONSTANTS
  Loops,     \* accept loops
  Setups,    \* the kinds of the loops, each a function on Loops
  Stoppers,  \* calls of Stop
  Conns,     \* connections that clients make, datagrams that they send
  Buffers,   \* pairs of a bufio.Reader and a bufio.Writer
  None       \* no buffer

\* "timed" is a TCP listener with a ReadTimeOut, "tcp" one without.
Kinds == {"tcp", "timed", "udp", "socks", "forward", "absent"}

\* The two connections of a forwarding; each is read by one copyIO and written
\* by the other.
Ends == {"client", "remote"}
Other(e) == IF e = "client" THEN "remote" ELSE "client"

ASSUME SetupsAssumption == Setups \subseteq [Loops -> Kinds]
ASSUME BuffersAssumption == None \notin Buffers

VARIABLES
  kind,        \* kind[l], never changed
  sock,        \* sock[l]: the listening socket
  known,       \* known[l]: a proxy has stored its listener, where Stop looks
  lpc,         \* lpc[l]: control point of the loop
  gpc,         \* control point of ServeGroup.Serve
  terminate,   \* the flag of the group
  terminated,  \* terminated[l]: tokens in the channel (socks), closed (forward)
  spc,         \* spc[s]: control point of a Stop
  target,      \* target[s]: the loop it is for, or one of the group
  cst,         \* cst[c]: state of connection c
  at,          \* at[c]: the loop it came to
  open,        \* open[c]: the ends of the forwarding of c that are open
  copy,        \* copy[c][e]: control point of the copyIO that reads end e
  buf,         \* buf[c]: its buffers
  pool,        \* bufioReaderPool and bufioWriterPool
  ctxDone,     \* the context of the proxies is done
  crashed,     \* a panic has ended the process
  late         \* late[l]: connections handed over after Stop (history)

listenVars == <<sock, known, lpc, gpc, late>>
stopVars == <<terminate, terminated, spc, target>>
copyVars == <<open, copy>>
connVars == <<cst, at, buf, pool, copyVars>>
vars == <<kind, listenVars, stopVars, connVars, ctxDone, crashed>>

Present == {l \in Loops : kind[l] # "absent"}
InGroup(l) == kind[l] \in {"tcp", "timed", "udp"}
Timed(l) == kind[l] \in {"timed", "udp"}

TypeOK ==
  /\ kind \in Setups
  /\ sock \in [Loops -> {"none", "open", "closed"}]
  /\ known \in [Loops -> BOOLEAN]
  /\ lpc \in [Loops -> {"idle", "start", "store", "accept", "got", "hand",
                        "test", "error", "sleep", "close", "ended"}]
  /\ gpc \in {"started", "listen", "serving", "failed"}
  /\ terminate \in BOOLEAN
  /\ terminated \in [Loops -> {0, 1}]
  /\ spc \in [Stoppers -> {"idle", "close", "stopped", "missed", "panicked"}]
  /\ target \in [Stoppers -> Loops]
  /\ cst \in [Conns -> {"new", "queued", "got", "serving", "copying",
                        "flush", "put", "closed", "refused", "dropped"}]
  /\ at \in [Conns -> Loops]
  /\ open \in [Conns -> SUBSET Ends]
  /\ copy \in [Conns -> [Ends -> {"none", "run", "first", "second", "done"}]]
  /\ buf \in [Conns -> Buffers \cup {None}]
  /\ pool \subseteq Buffers
  /\ ctxDone \in BOOLEAN /\ crashed \in BOOLEAN
  /\ late \in [Loops -> Nat]

\* ListenAndServeServeGroups has started the goroutine of Serve, Start those
\* of the proxies.  Stops of the group name it by one and the same of its loops.
Init ==
  /\ kind \in Setups
  /\ sock = [l \in Loops |-> "none"]
  /\ known = [l \in Loops |-> FALSE]
  /\ lpc = [l \in Loops |-> CASE InGroup(l) -> "idle"
                              [] kind[l] \in {"socks", "forward"} -> "start"
                              [] kind[l] = "absent" -> "ended"]
  /\ gpc = "started"
  /\ terminate = FALSE
  /\ terminated = [l \in Loops |-> 0]
  /\ spc = [s \in Stoppers |-> "idle"]
  /\ target \in [Stoppers -> Present]
  /\ \A s, t \in Stoppers :
       InGroup(target[s]) /\ InGroup(target[t]) => target[s] = target[t]
  /\ cst = [c \in Conns |-> "new"]
  /\ at \in [Conns -> Present]
  /\ open = [c \in Conns |-> {}]
  /\ copy = [c \in Conns |-> [e \in Ends |-> "none"]]
  /\ buf = [c \in Conns |-> None]
  /\ pool = {}
  /\ ctxDone = FALSE /\ crashed = FALSE
  /\ late = [l \in Loops |-> 0]

Goto(l, pc) == lpc' = [lpc EXCEPT ![l] = pc]

\* Closing a socket resets the connections that wait in it.
CloseSocket(l) ==
  /\ sock' = [sock EXCEPT ![l] = "closed"]
  /\ cst' = [c \in Conns |->
               IF at[c] = l /\ cst[c] = "queued" THEN "refused" ELSE cst[c]]

-----------------------------------------------------------------------------
(* ServeGroup.Serve and Stop.                                               *)

GroupServe ==
  /\ gpc = "started" /\ \E l \in Loops : InGroup(l)
  /\ terminate' = FALSE
  /\ gpc' = "listen"
  /\ UNCHANGED <<kind, sock, known, lpc, late, terminated, spc, target,
                 connVars, ctxDone, crashed>>

\* A listen that fails panics; Serve recovers, logs and returns, and the
\* listeners opened before it are neither served nor closed.
GroupListen(l) ==
  /\ gpc = "listen" /\ InGroup(l) /\ sock[l] = "none"
  /\ \/ sock' = [sock EXCEPT ![l] = "open"] /\ UNCHANGED gpc
     \/ gpc' = "failed" /\ UNCHANGED sock
  /\ UNCHANGED <<kind, known, lpc, late, stopVars, connVars, ctxDone, crashed>>

GroupStart ==
  /\ gpc = "listen"
  /\ \A l \in Loops : InGroup(l) => sock[l] = "open"
  /\ gpc' = "serving"
  /\ lpc' = [l \in Loops |-> IF InGroup(l) THEN "accept" ELSE lpc[l]]
  /\ UNCHANGED <<kind, sock, known, late, stopVars, connVars, ctxDone, crashed>>

StopGroup(s) ==
  /\ spc[s] = "idle" /\ InGroup(target[s])
  /\ terminate' = TRUE
  /\ spc' = [spc EXCEPT ![s] = "stopped"]
  /\ UNCHANGED <<kind, listenVars, terminated, target, connVars, ctxDone,
                 crashed>>

\* newBufioReader and newBufioWriter: buffers from the pools, or new ones when
\* the pools have none to give.
TakeBuffers(c) ==
  \E b \in pool \cup {n \in Buffers : \A d \in Conns : buf[d] # n} :
    /\ buf' = [buf EXCEPT ![c] = b]
    /\ pool' = pool \ {b}

\* newConn for a connection that was accepted, and go HandleRequest.
AcceptInGroup(l, c) ==
  /\ lpc[l] = "accept"
  /\ cst[c] = "queued" /\ at[c] = l
  /\ cst' = [cst EXCEPT ![c] = "serving"]
  /\ TakeBuffers(c)
  /\ late' = [late EXCEPT ![l] = @ + IF terminate THEN 1 ELSE 0]
  /\ Goto(l, "test")
  /\ UNCHANGED <<kind, sock, known, gpc, stopVars, at, copyVars, ctxDone,
                 crashed>>

TcpAccept(l, c) == kind[l] \in {"tcp", "timed"} /\ AcceptInGroup(l, c)
UdpRead(l, c) == kind[l] = "udp" /\ AcceptInGroup(l, c)

\* Mutant: the flag is read only where Accept fails.
IgnoreTerminate(l) ==
  /\ lpc[l] = "test"
  /\ Goto(l, "accept")
  /\ UNCHANGED <<kind, sock, known, gpc, late, stopVars, connVars, ctxDone,
                 crashed>>

TestTerminate(l) ==
  /\ lpc[l] = "test"
  /\ Goto(l, IF terminate THEN "close" ELSE "accept")
  /\ UNCHANGED <<kind, sock, known, gpc, late, stopVars, connVars, ctxDone,
                 crashed>>

\* The deferred Close of the listener, in every kind of loop.
EndLoop(l) ==
  /\ lpc[l] = "close"
  /\ CloseSocket(l)
  /\ Goto(l, "ended")
  /\ UNCHANGED <<kind, known, gpc, late, stopVars, at, buf, pool, copyVars,
                 ctxDone, crashed>>

-----------------------------------------------------------------------------
(* Socks5Proxy and PortForward: Start, ListenAndServe.                      *)

\* The port may be taken, also one that openPort found free a moment before.
ProxyListen(l) ==
  /\ lpc[l] = "start"
  /\ \/ sock' = [sock EXCEPT ![l] = "open"] /\ Goto(l, "store")
     \/ UNCHANGED sock /\ Goto(l, "ended")
  /\ UNCHANGED <<kind, known, gpc, late, stopVars, connVars, ctxDone, crashed>>

StoreListener(l) ==
  /\ lpc[l] = "store"
  /\ known' = [known EXCEPT ![l] = TRUE]
  /\ Goto(l, "accept")
  /\ UNCHANGED <<kind, sock, gpc, late, stopVars, connVars, ctxDone, crashed>>

\* Accept fails on a closed listener, and now and then on an open one.
AcceptFails(l) ==
  /\ lpc[l] = "accept" /\ ~InGroup(l)
  /\ Goto(l, "error")
  /\ UNCHANGED <<kind, sock, known, gpc, late, stopVars, connVars, ctxDone,
                 crashed>>

\* The socks5 loop looks for the token only after an error: between the token
\* and the Close of a Stop it goes on handing over.
SocksAccept(l, c) ==
  /\ lpc[l] = "accept" /\ kind[l] = "socks"
  /\ cst[c] = "queued" /\ at[c] = l
  /\ cst' = [cst EXCEPT ![c] = "serving"]
  /\ late' = [late EXCEPT ![l] = @ + terminated[l]]
  /\ UNCHANGED <<kind, sock, known, lpc, gpc, stopVars, at, buf, pool,
                 copyVars, ctxDone, crashed>>

\* Mutant: after an error the loop only waits and tries again.
SocksErrorSleeps(l) ==
  /\ lpc[l] = "error" /\ kind[l] = "socks"
  /\ Goto(l, "sleep")
  /\ UNCHANGED <<kind, sock, known, gpc, late, stopVars, connVars, ctxDone,
                 crashed>>

SocksError(l) ==
  /\ lpc[l] = "error" /\ kind[l] = "socks"
  /\ terminated' = [terminated EXCEPT ![l] = 0]
  /\ Goto(l, IF terminated[l] = 1 THEN "close" ELSE "sleep")
  /\ UNCHANGED <<kind, sock, known, gpc, late, terminate, spc, target,
                 connVars, ctxDone, crashed>>

\* common.Sleep ends early, with FALSE, when the context is done.
SleepEnds(l) ==
  /\ lpc[l] = "sleep"
  /\ \/ Goto(l, "accept")
     \/ ctxDone /\ Goto(l, "close")
  /\ UNCHANGED <<kind, sock, known, gpc, late, stopVars, connVars, ctxDone,
                 crashed>>

\* The port forwarder looks at its channel after every Accept.
ForwardAccept(l, c) ==
  /\ lpc[l] = "accept" /\ kind[l] = "forward"
  /\ cst[c] = "queued" /\ at[c] = l
  /\ cst' = [cst EXCEPT ![c] = "got"]
  /\ Goto(l, "got")
  /\ UNCHANGED <<kind, sock, known, gpc, late, stopVars, at, buf, pool,
                 copyVars, ctxDone, crashed>>

\* Mutant: the channel is read only where Accept fails.
ForwardUntested(l, c) ==
  /\ lpc[l] = "got" /\ cst[c] = "got" /\ at[c] = l
  /\ Goto(l, "hand")
  /\ UNCHANGED <<kind, sock, known, gpc, late, stopVars, connVars, ctxDone,
                 crashed>>

\* A connection that was accepted while Stop closed the channel is dropped
\* without being closed.
ForwardTest(l, c) ==
  /\ lpc[l] = "got" /\ cst[c] = "got" /\ at[c] = l
  /\ IF terminated[l] = 1
     THEN cst' = [cst EXCEPT ![c] = "dropped"] /\ Goto(l, "close")
     ELSE UNCHANGED cst /\ Goto(l, "hand")
  /\ UNCHANGED <<kind, sock, known, gpc, late, stopVars, at, buf, pool,
                 copyVars, ctxDone, crashed>>

\* go f.serveConn, also when Stop came after the channel was read.
ForwardHandOver(l, c) ==
  /\ lpc[l] = "hand" /\ cst[c] = "got" /\ at[c] = l
  /\ cst' = [cst EXCEPT ![c] = "serving"]
  /\ late' = [late EXCEPT ![l] = @ + terminated[l]]
  /\ Goto(l, "accept")
  /\ UNCHANGED <<kind, sock, known, gpc, stopVars, at, buf, pool, copyVars,
                 ctxDone, crashed>>

ForwardError(l) ==
  /\ lpc[l] = "error" /\ kind[l] = "forward"
  /\ Goto(l, IF terminated[l] = 1 THEN "close" ELSE "sleep")
  /\ UNCHANGED <<kind, sock, known, gpc, late, stopVars, connVars, ctxDone,
                 crashed>>

-----------------------------------------------------------------------------
(* Stop of the proxies.                                                     *)

\* The send of the socks5 proxy blocks while a token is in the channel; the
\* port forwarder's close of a closed channel panics in the caller of Stop.
StopSignal(s) ==
  LET l == target[s] IN
  /\ spc[s] = "idle" /\ ~InGroup(l)
  /\ kind[l] = "socks" => terminated[l] = 0
  /\ terminated' = [terminated EXCEPT ![l] = 1]
  /\ spc' = [spc EXCEPT ![s] = IF terminated[l] = 0 THEN "close" ELSE "panicked"]
  /\ UNCHANGED <<kind, listenVars, terminate, target, connVars, ctxDone,
                 crashed>>

\* Without a listener the socks5 proxy does nothing more, the port forwarder
\* calls Close of a nil interface.
StopClose(s) ==
  LET l == target[s] IN
  /\ spc[s] = "close"
  /\ IF known[l]
     THEN /\ CloseSocket(l)
          /\ spc' = [spc EXCEPT ![s] = "stopped"]
     ELSE /\ spc' = [spc EXCEPT ![s] =
                       IF kind[l] = "socks" THEN "missed" ELSE "panicked"]
          /\ UNCHANGED <<sock, cst>>
  /\ UNCHANGED <<kind, known, lpc, gpc, late, terminate, terminated, target,
                 at, buf, pool, copyVars, ctxDone, crashed>>

-----------------------------------------------------------------------------
(* Connections.                                                             *)

Arrive(c) ==
  /\ cst[c] = "new" /\ sock[at[c]] = "open"
  /\ cst' = [cst EXCEPT ![c] = "queued"]
  /\ UNCHANGED <<kind, listenVars, stopVars, at, buf, pool, copyVars, ctxDone,
                 crashed>>

\* Mutant: Close is called only where the request was handled.
HandleNoDefer(c) ==
  /\ cst[c] = "serving" /\ InGroup(at[c])
  /\ \/ cst' = [cst EXCEPT ![c] = "flush"] /\ UNCHANGED crashed
     \/ crashed' = TRUE /\ UNCHANGED cst
     \/ cst' = [cst EXCEPT ![c] = "dropped"] /\ UNCHANGED crashed
  /\ UNCHANGED <<kind, listenVars, stopVars, at, buf, pool, copyVars, ctxDone>>

\* HandleRequest ends, or panics with an error and recovers, and calls Close;
\* a panic with another value fails in x.(error) and ends the process.
HandleRequest(c) ==
  /\ cst[c] = "serving" /\ InGroup(at[c])
  /\ \/ cst' = [cst EXCEPT ![c] = "flush"] /\ UNCHANGED crashed
     \/ crashed' = TRUE /\ UNCHANGED cst
  /\ UNCHANGED <<kind, listenVars, stopVars, at, buf, pool, copyVars, ctxDone>>

\* Mutant: the buffers go back to the pools before they are flushed.
PutThenFlush(c) ==
  /\ cst[c] = "flush"
  /\ pool' = pool \cup {buf[c]}
  /\ cst' = [cst EXCEPT ![c] = "put"]
  /\ UNCHANGED <<kind, listenVars, stopVars, at, buf, copyVars, ctxDone,
                 crashed>>

\* finalFlush writes out what the handler left in the buffer...
Flush(c) ==
  /\ cst[c] = "flush"
  /\ cst' = [cst EXCEPT ![c] = "put"]
  /\ UNCHANGED <<kind, listenVars, stopVars, at, buf, pool, copyVars, ctxDone,
                 crashed>>

\* ... and puts the buffers back; Close closes the connection.
PutBuffers(c) ==
  /\ cst[c] = "put"
  /\ pool' = pool \cup {buf[c]}
  /\ buf' = [buf EXCEPT ![c] = None]
  /\ cst' = [cst EXCEPT ![c] = "closed"]
  /\ UNCHANGED <<kind, listenVars, stopVars, at, copyVars, ctxDone, crashed>>

\* The socks5 server (external) closes what it serves, when it is done with it.
SocksServeConn(c) ==
  /\ cst[c] = "serving" /\ kind[at[c]] = "socks"
  /\ cst' = [cst EXCEPT ![c] = "closed"]
  /\ UNCHANGED <<kind, listenVars, stopVars, at, buf, pool, copyVars, ctxDone,
                 crashed>>

\* serveConn of the port forwarder: when the remote dial fails CheckError
\* panics in a goroutine that does not recover.
ForwardServeConn(c) ==
  /\ cst[c] = "serving" /\ kind[at[c]] = "forward"
  /\ \/ /\ cst' = [cst EXCEPT ![c] = "copying"]
        /\ open' = [open EXCEPT ![c] = Ends]
        /\ copy' = [copy EXCEPT ![c] = [e \in Ends |-> "run"]]
        /\ UNCHANGED crashed
     \/ crashed' = TRUE /\ UNCHANGED <<cst, copyVars>>
  /\ UNCHANGED <<kind, listenVars, stopVars, at, buf, pool, ctxDone>>

CopyTo(c, e, pc) == copy' = [copy EXCEPT ![c][e] = pc]

\* io.Copy returns when a peer ends or breaks its stream, and when the end that
\* it reads was closed; the other end being closed shows only when there is
\* something to write.
CopyEnds(c, e) ==
  /\ copy[c][e] = "run"
  /\ CopyTo(c, e, "first")
  /\ UNCHANGED <<kind, listenVars, stopVars, cst, at, buf, pool, open, ctxDone,
                 crashed>>

\* Mutant: a copy closes the end it has read to the end and no other.
CloseReadOnly(c, e) ==
  /\ copy[c][e] = "first"
  /\ open' = [open EXCEPT ![c] = @ \ {e}]
  /\ CopyTo(c, e, "done")
  /\ UNCHANGED <<kind, listenVars, stopVars, cst, at, buf, pool, ctxDone,
                 crashed>>

\* The deferred calls of copyIO run in the opposite order: the end it reads is
\* closed first, ...
CloseRead(c, e) ==
  /\ copy[c][e] = "first"
  /\ open' = [open EXCEPT ![c] = @ \ {e}]
  /\ CopyTo(c, e, "second")
  /\ UNCHANGED <<kind, listenVars, stopVars, cst, at, buf, pool, ctxDone,
                 crashed>>

\* ... then the one it writes.
CloseWritten(c, e) ==
  /\ copy[c][e] = "second"
  /\ open' = [open EXCEPT ![c] = @ \ {Other(e)}]
  /\ CopyTo(c, e, "done")
  /\ UNCHANGED <<kind, listenVars, stopVars, cst, at, buf, pool, ctxDone,
                 crashed>>

Cancel ==
  /\ ~ctxDone /\ \E l \in Present : ~InGroup(l)
  /\ ctxDone' = TRUE
  /\ UNCHANGED <<kind, listenVars, stopVars, connVars, crashed>>

-----------------------------------------------------------------------------
LoopStep(l) ==
  \/ TestTerminate(l) \/ EndLoop(l) \/ ProxyListen(l) \/ StoreListener(l)
  \/ SocksError(l) \/ SleepEnds(l) \/ ForwardError(l)
  \/ \E c \in Conns : \/ TcpAccept(l, c) \/ UdpRead(l, c) \/ SocksAccept(l, c)
                      \/ ForwardAccept(l, c) \/ ForwardTest(l, c)
                      \/ ForwardHandOver(l, c)

ConnStep(c) ==
  \/ HandleRequest(c) \/ Flush(c) \/ PutBuffers(c)
  \/ SocksServeConn(c) \/ ForwardServeConn(c)
  \/ \E e \in Ends : CopyEnds(c, e) \/ CloseRead(c, e) \/ CloseWritten(c, e)

Next ==
  /\ ~crashed
  /\ \/ GroupServe \/ GroupStart \/ Cancel
     \/ \E l \in Loops : GroupListen(l) \/ LoopStep(l) \/ AcceptFails(l)
     \/ \E s \in Stoppers : StopGroup(s) \/ StopSignal(s) \/ StopClose(s)
     \/ \E c \in Conns : Arrive(c) \/ ConnStep(c)

Spec == Init /\ [][Next]_vars

(***************************************************************************)
(* Goroutines that can run are run: Accept returns on a closed listener,   *)
(* a Stop under way goes on, and so does a conn whose reads and writes     *)
(* cannot block for ever: those of a UDP packet, which is in memory, and   *)
(* those of a TCP conn with a ReadTimeOut, which sets both deadlines       *)
(* (netserve.go:47-48, conn.go:181).  The handler given to the group is    *)
(* trusted to return when its reads and writes do.  Nothing is assumed of  *)
(* a TCP conn without a ReadTimeOut, of the socks5 server, of a remote     *)
(* dial, nor of the streams that a copyIO waits for: its read ends for     *)
(* certain only once its end has been closed.  Nobody has to connect, to   *)
(* stop or to cancel.                                                      *)
(***************************************************************************)
Fairness ==
  /\ \A l \in Loops :
       /\ WF_vars(~crashed /\ LoopStep(l))
       /\ WF_vars(~crashed /\ sock[l] = "closed" /\ AcceptFails(l))
  /\ \A s \in Stoppers : WF_vars(~crashed /\ StopClose(s))
  /\ \A c \in Conns :
       /\ WF_vars(~crashed /\ Timed(at[c]) /\ (HandleRequest(c) \/ Flush(c)))
       /\ WF_vars(~crashed /\ PutBuffers(c))
       /\ WF_vars(~crashed /\ \E e \in Ends :
                    \/ e \notin open[c] /\ CopyEnds(c, e)
                    \/ CloseRead(c, e) \/ CloseWritten(c, e))

FairSpec == Spec /\ Fairness

-----------------------------------------------------------------------------
(* Properties.                                                              *)

\* The Stop of a proxy that found the listener ends the accept loop and frees
\* the port, whatever errors and other Stops it meets.  (One that came before
\* the listener was stored does not: the loop goes on.)
StopEndsProxy ==
  \A s \in Stoppers :
    (spc[s] = "stopped" /\ ~InGroup(target[s])) ~>
      crashed \/ (lpc[target[s]] = "ended" /\ sock[target[s]] = "closed")

\* The flag of a group ends a loop once one more connection comes to it;
\* until then the loop blocks in Accept with its socket open.
GroupStops ==
  \A c \in Conns :
    (terminate /\ gpc = "serving" /\ InGroup(at[c]) /\ cst[c] = "queued") ~>
      lpc[at[c]] = "ended" \/ crashed

\* After Stop has set the flag of a group, or closed the channel of a port
\* forwarder, each loop hands over at most one connection more: the one it was
\* about to, or that the next Accept gives it.  (The socks5 loop hands over
\* whatever comes until Stop has closed its listener as well.)
LateConns == \A l \in Loops : kind[l] # "socks" => late[l] <= 1

\* Pooled buffers have one owner: a conn that still reads, writes or flushes
\* shares its buffers with no other conn and does not find them in the pool.
BufferExclusive ==
  \A c \in Conns : buf[c] # None =>
    /\ buf[c] \notin pool
    /\ \A d \in Conns \ {c} : buf[d] # buf[c]

\* A request that cannot block for ever is closed, whether its handler returns
\* or panics, unless the process ends.
RequestCloses ==
  \A c \in Conns :
    (cst[c] \in {"serving", "flush", "put"} /\ Timed(at[c])) ~>
      cst[c] = "closed" \/ crashed

\* When one of the two copies of a forwarding ends, whichever it is and
\* whatever the other waits for, both connections are closed and the other copy
\* ends too.
ForwardingCloses ==
  \A c \in Conns :
    (\E e \in Ends : copy[c][e] \in {"first", "second", "done"}) ~>
      crashed \/ (open[c] = {} /\ \A e \in Ends : copy[c][e] = "done")

\* Connections are not left open: those of a group with deadlines, and those of
\* a forwarding that one side has ended.
AcceptedCloses == RequestCloses /\ ForwardingCloses
=============================================================================
