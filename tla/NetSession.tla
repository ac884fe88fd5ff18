----------------------------- MODULE NetSession -----------------------------
(***************************************************************************)
(* netserve: the requests served over the "sz12" cipher and the NetContext *)
(* they share.  Every TCP connection and every UDP datagram is a conn that *)
(* carries one request and runs HandleRequest in a goroutine of its own:   *)
(* read a packet, check it, decrypt it, call the handler, which may write  *)
(* answers, and close.                                                     *)
(*                                                                         *)
(* A TCP conn has a fresh context.  The UDP conns of one peer share the    *)
(* context that a cache holds for it until it expires; only checkSetAck    *)
(* takes the context's channel as a lock, every other access is bare, so   *)
(* each such access of a group of fields is a step of its own.  A context  *)
(* is named by the conn that created it.  A key, an iv or a signature      *)
(* derived from a packet is named by the conn that carried the packet; the *)
(* time stamp that goes into a header with its sequence number is left out.*)
(* A look-up in the cache is one step: the tunnel executes it alone        *)
(* (SerialExec).                                                           *)
(***************************************************************************)
EXTENDS Naturals, Sequences

CONSTANTS
  Conns,      \* connections and datagrams
  Peers,      \* remote addresses
  TcpPeers,   \* the peers that use TCP
  SeqSize,    \* number of sequence numbers (2^32)
  StartSeqs,  \* random numbers at which the cipher may begin
  Seqs,       \* sequence numbers in the packets of the peers
  Syns,       \* whether a packet is a syn (Msgtype 1): subset of BOOLEAN
  Sizes,      \* sizes of the streams that handlers announce
  MaxWrites,  \* bound on the answers one handler writes
  MaxEpoch,   \* bound on the expiries of a peer's cache entry
  None        \* no context, no key

ASSUME ConstantsAssumption ==
  /\ TcpPeers \subseteq Peers
  /\ SeqSize \in Nat \ {0}
  /\ StartSeqs \subseteq 0..(SeqSize - 1) /\ Seqs \subseteq 0..(SeqSize - 1)
  /\ Syns \subseteq BOOLEAN
  /\ Sizes \subseteq Nat /\ MaxWrites \in Nat /\ MaxEpoch \in Nat
  /\ None \notin Conns

VARIABLES
  alive,       \* the process runs
  pc,          \* pc[c]: control point of the goroutine of conn c
  req,         \* req[c]: peer, sequence number and kind of c's packet, and
               \*   the epoch of the peer in which it arrived (history)
  ctx,         \* ctx[c]: the context of conn c
  gUdpNetContext,  \* the cache: peer -> context or None
  netctx,      \* netctx[x]: the fields of context x
  ackSetChan,  \* ackSetChan[x]: the channel (capacity 1) of context x
  ok,          \* ok[c]: what checkSetAck of conn c found
  got,         \* got[c]: what it received from the channel, not yet stored
  cipherSeq,   \* the Seq of the cipher
  taken,       \* how many sequence numbers were taken from it (history)
  hdr,         \* hdr[c]: the answer header that conn c is building
  out,         \* out[c]: the frames conn c has written
  epoch,       \* epoch[p]: how often p's cache entry has expired (history)
  accepted,    \* accepted[x]: what was let through, in order: the number, and
               \*   whether a store of ack disturbed the check (history)
  overlap,     \* overlap[x]: one has, since the last acceptance (history)
  alone,       \* alone[c]: no other conn interfered with c (history)
  streaming    \* streaming[c]: c's use of BeginWriteStream (history)

seqVars  == <<cipherSeq, taken>>
ctxVars  == <<gUdpNetContext, epoch, ackSetChan>>
connVars == <<req, ctx>>
checkVars == <<ok, got>>
ackHist  == <<accepted, overlap, alone>>
vars == <<alive, pc, connVars, ctxVars, netctx, checkVars, seqVars, hdr, out,
          ackHist, streaming>>

NoIv == [recviv |-> None, seq |-> 0, recvsig |-> None]

\* NewNetContext: every field but the address and the channel is zero.
NewNetContext ==
  [ack |-> 0, recvsig |-> None, recviv |-> None, aeskey |-> None,
   sendiv |-> NoIv, seq |-> 0, state |-> 0, updateiv |-> FALSE,
   stream |-> FALSE, size |-> 0]

Requests == [peer : Peers, seq : Seqs, syn : BOOLEAN, epoch : Nat]
NoRequest == [peer |-> None, seq |-> 0, syn |-> FALSE, epoch |-> 0]
NoHdr == [type |-> 0, seq |-> 0]

Init ==
  /\ alive = TRUE
  /\ pc = [c \in Conns |-> "idle"]
  /\ req = [c \in Conns |-> NoRequest]
  /\ ctx = [c \in Conns |-> None]
  /\ gUdpNetContext = [p \in Peers |-> None]
  /\ netctx = [x \in Conns |-> NewNetContext]
  /\ ackSetChan = [x \in Conns |-> <<>>]
  /\ ok = [c \in Conns |-> FALSE] /\ got = [c \in Conns |-> 0]
  /\ cipherSeq \in StartSeqs /\ taken = 0
  /\ hdr = [c \in Conns |-> NoHdr]
  /\ out = [c \in Conns |-> <<>>]
  /\ epoch = [p \in Peers |-> 0]
  /\ accepted = [x \in Conns |-> <<>>]
  /\ overlap = [x \in Conns |-> FALSE]
  /\ alone = [c \in Conns |-> FALSE]
  /\ streaming = [c \in Conns |-> "no"]

\* Control points: "read" before the check, "lock", "test", "recv" and "set" in
\* checkSetAck, "store" and "decrypt" in DecodeData, "handle" in the handler, "hdr" and "enc" in WriteAckData,
\* "panicked" unwinding out of it.
PCs == {"idle", "read", "lock", "test", "recv", "set", "store", "decrypt",
        "handle", "hdr", "enc", "panicked", "closed"}

TypeOK ==
  /\ alive \in BOOLEAN
  /\ pc \in [Conns -> PCs]
  /\ \A c \in Conns : pc[c] # "idle" => req[c] \in Requests /\ ctx[c] \in Conns
  /\ gUdpNetContext \in [Peers -> Conns \cup {None}]
  /\ \A x \in Conns :
       /\ netctx[x].ack \in 0..(SeqSize - 1)
       /\ netctx[x].seq \in 0..(SeqSize - 1)
       /\ netctx[x].state \in 0..255
       /\ Len(ackSetChan[x]) <= 1
  /\ cipherSeq \in 0..(SeqSize - 1) /\ taken \in Nat
  /\ \A c \in Conns : Len(out[c]) <= MaxWrites

Ctx(c) == netctx[ctx[c]]
Seq_(c) == req[c].seq
Goto(c, l) == pc' = [pc EXCEPT ![c] = l]

-----------------------------------------------------------------------------
(* A new conn.                                                              *)

\* Mutant: a context that is in the cache is not used.
AlwaysNew(p) == None

\* gUdpNetContext.Get
CacheGet(p) == gUdpNetContext[p]

\* TCP: a context of its own.
NewTcpConn(c) ==
  /\ req'[c].peer \in TcpPeers
  /\ ctx' = [ctx EXCEPT ![c] = c]
  /\ UNCHANGED gUdpNetContext

\* UDP: the context in the cache, or a fresh one that is put there.
GetUdpNetContext(c) ==
  LET p == req'[c].peer
      x == IF CacheGet(p) = None THEN c ELSE CacheGet(p)
  IN  /\ p \notin TcpPeers
      /\ ctx' = [ctx EXCEPT ![c] = x]
      /\ gUdpNetContext' = [gUdpNetContext EXCEPT ![p] = x]

Arrive(c) ==
  /\ alive /\ pc[c] = "idle"
  /\ \E p \in Peers, s \in Seqs, syn \in Syns : req' = [req EXCEPT ![c] =
       [peer |-> p, seq |-> s, syn |-> syn, epoch |-> epoch[p]]]
  /\ NewTcpConn(c) \/ GetUdpNetContext(c)
  /\ Goto(c, "read")
  /\ UNCHANGED <<alive, netctx, ackSetChan, checkVars, seqVars, hdr, out, epoch,
                 ackHist, streaming>>

\* The cache forgets an entry five minutes after it was set, used or not.
Expire(p) ==
  /\ alive /\ gUdpNetContext[p] # None /\ epoch[p] < MaxEpoch
  /\ gUdpNetContext' = [gUdpNetContext EXCEPT ![p] = None]
  /\ epoch' = [epoch EXCEPT ![p] = @ + 1]
  /\ UNCHANGED <<alive, pc, connVars, ackSetChan, netctx, checkVars, seqVars, hdr,
                 out, ackHist, streaming>>

-----------------------------------------------------------------------------
(* DecodeRead.                                                              *)

\* ReadAllData and the header.  A short packet, one of length zero, a read
\* time-out, a packet without a header or with a wrong checksum panics with an
\* error, which ends the request before anything of the context is touched.
ReadPacket(c) ==
  /\ alive /\ pc[c] = "read"
  /\ Goto(c, "lock") \/ Goto(c, "closed")
  /\ UNCHANGED <<alive, connVars, ctxVars, netctx, checkVars, seqVars, hdr, out,
                 ackHist, streaming>>

\* Mutant: a channel with room for two.
LockAckTwoSlots(c) ==
  /\ alive /\ pc[c] = "lock"
  /\ Len(ackSetChan[ctx[c]]) < 2
  /\ ackSetChan' = [ackSetChan EXCEPT ![ctx[c]] = Append(@, Seq_(c))]
  /\ Goto(c, "test")
  /\ UNCHANGED <<alive, connVars, gUdpNetContext, epoch, netctx, checkVars, seqVars, hdr,
                 out, ackHist, streaming>>

\* checkSetAck: the send to the channel of capacity 1 takes the lock.
LockAck(c) ==
  /\ alive /\ pc[c] = "lock"
  /\ ackSetChan[ctx[c]] = <<>>
  /\ ackSetChan' = [ackSetChan EXCEPT ![ctx[c]] = <<Seq_(c)>>]
  /\ Goto(c, "test")
  /\ UNCHANGED <<alive, connVars, gUdpNetContext, epoch, netctx, checkVars, seqVars, hdr,
                 out, ackHist, streaming>>

Sharers(c) == {d \in Conns \ {c} : ctx[d] = ctx[c]}

\* Accepted and not yet closed; on the way to a store of ack.
Active(d) ==
  \/ pc[d] \in {"recv", "set"} /\ ok[d]
  \/ pc[d] \in {"store", "decrypt", "handle", "hdr", "enc", "panicked"}
Unstored(d) == pc[d] \in {"set", "store"}

\* The history of a check.  It is disturbed when the conn accepted before has
\* not stored its number yet, or when a store of another number is still to
\* come.  Two conns interfere when both are accepted and work at the same
\* time, or when the one may store another ack than the other one's.
Disturbed(c) ==
  \E d \in Sharers(c) : \/ pc[d] = "set" /\ ok[d]
                        \/ Unstored(d) /\ Seq_(d) # Seq_(c)
Interferes(d, c) ==
  \/ ok'[c] /\ Active(d)
  \/ (Active(d) \/ Unstored(d)) /\ Seq_(d) # Seq_(c)

RecordTest(c) ==
  LET raced == overlap[ctx[c]] \/ Disturbed(c)
      others == {d \in Sharers(c) : Interferes(d, c)}
  IN  /\ accepted' = IF ok'[c] THEN [accepted EXCEPT ![ctx[c]] =
                                       Append(@, [seq |-> Seq_(c), raced |-> raced])]
                               ELSE accepted
      /\ overlap' = [overlap EXCEPT ![ctx[c]] = IF ok'[c] THEN Disturbed(c) ELSE raced]
      /\ alone' = [d \in Conns |-> IF d = c THEN ok'[c] /\ others = {}
                                   ELSE alone[d] /\ d \notin others]

TestAck(c) ==
  /\ alive /\ pc[c] = "test"
  /\ ok' = [ok EXCEPT ![c] = Ctx(c).ack = 0 \/ Ctx(c).ack # Seq_(c)]
  /\ RecordTest(c)
  /\ Goto(c, "recv")
  /\ UNCHANGED <<alive, connVars, ctxVars, netctx, got, seqVars, hdr, out, streaming>>

\* Mutant: the number is not received from the channel.
KeepLock(c) ==
  /\ alive /\ pc[c] = "recv"
  /\ got' = [got EXCEPT ![c] = Seq_(c)]
  /\ Goto(c, "set")
  /\ UNCHANGED <<alive, connVars, ctxVars, netctx, ok, seqVars, hdr, out, ackHist,
                 streaming>>

\* The receive releases the lock ...
RecvAck(c) ==
  /\ alive /\ pc[c] = "recv"
  /\ ackSetChan[ctx[c]] # <<>>
  /\ got' = [got EXCEPT ![c] = Head(ackSetChan[ctx[c]])]
  /\ ackSetChan' = [ackSetChan EXCEPT ![ctx[c]] = Tail(@)]
  /\ Goto(c, "set")
  /\ UNCHANGED <<alive, connVars, gUdpNetContext, epoch, netctx, ok, seqVars, hdr, out,
                 ackHist, streaming>>

\* ... and what it returned is assigned to ack after that, outside the lock,
\* also by a conn that is refused.
SetAck(c) ==
  /\ alive /\ pc[c] = "set"
  /\ netctx' = [netctx EXCEPT ![ctx[c]].ack = got[c]]
  /\ Goto(c, IF ok[c] THEN "store" ELSE "closed")
  /\ UNCHANGED <<alive, connVars, ctxVars, checkVars, seqVars, hdr, out, ackHist,
                 streaming>>

\* Back in DecodeData, ack is stored once more.
StoreAck(c) ==
  /\ alive /\ pc[c] = "store"
  /\ netctx' = [netctx EXCEPT ![ctx[c]].ack = Seq_(c), ![ctx[c]].recvsig = c]
  /\ Goto(c, "decrypt")
  /\ UNCHANGED <<alive, connVars, ctxVars, checkVars, seqVars, hdr, out, ackHist,
                 streaming>>

\* Mutant: only a syn packet replaces the key.
DecryptKeepsKey(c) ==
  /\ alive /\ pc[c] = "decrypt"
  /\ netctx' = [netctx EXCEPT ![ctx[c]] =
       [@ EXCEPT !.recviv = c, !.aeskey = IF req[c].syn THEN c ELSE @,
                 !.updateiv = TRUE, !.state = IF req[c].syn THEN 2 ELSE 10]]
  /\ Goto(c, "handle") \/ Goto(c, "closed")
  /\ UNCHANGED <<alive, connVars, ctxVars, checkVars, seqVars, hdr, out, ackHist,
                 streaming>>

\* DecryptSyncData succeeds and the context takes the key and iv of the packet.
\* A packet with an empty body, or one the decoder rejects, is not handed to
\* the handler.
Decrypt(c) ==
  /\ alive /\ pc[c] = "decrypt"
  /\ netctx' = [netctx EXCEPT ![ctx[c]] =
       [@ EXCEPT !.recviv = c, !.aeskey = c, !.updateiv = TRUE,
                 !.state = IF req[c].syn THEN 2 ELSE 10]]
  /\ Goto(c, "handle") \/ Goto(c, "closed")
  /\ UNCHANGED <<alive, connVars, ctxVars, checkVars, seqVars, hdr, out, ackHist,
                 streaming>>

\* It panics with an error: HandleRequest recovers and closes.
DecryptError(c) ==
  /\ alive /\ pc[c] = "decrypt"
  /\ Goto(c, "closed")
  /\ UNCHANGED <<alive, connVars, ctxVars, netctx, checkVars, seqVars, hdr, out,
                 ackHist, streaming>>

\* It panics with a string, as the block cipher does on a partial block:
\* HandleRequest asserts that the value is an error and the process ends.
DecryptFatal(c) ==
  /\ alive /\ pc[c] = "decrypt"
  /\ alive' = FALSE
  /\ UNCHANGED <<pc, connVars, ctxVars, netctx, checkVars, seqVars, hdr, out,
                 ackHist, streaming>>

-----------------------------------------------------------------------------
(* What the handler may do with its conn.                                   *)

\* The handler still has an answer to write (the bound).
CanWrite(c) == alive /\ pc[c] = "handle" /\ Len(out[c]) < MaxWrites

\* BeginWriteStream: nothing ever resets stream.
BeginWriteStream(c) ==
  /\ CanWrite(c) /\ streaming[c] = "no"
  /\ \E n \in Sizes :
       netctx' = [netctx EXCEPT ![ctx[c]].stream = TRUE, ![ctx[c]].size = n]
  /\ streaming' = [streaming EXCEPT ![c] = IF out[c] = <<>> THEN "yes" ELSE "late"]
  /\ UNCHANGED <<alive, pc, connVars, ctxVars, checkVars, seqVars, hdr, out, ackHist>>

\* UpdateIv, as a function of the fields of the context.
UpdateIv(k) ==
  IF ~k.updateiv THEN k
  ELSE [k EXCEPT !.updateiv = FALSE,
                 !.sendiv = [recviv |-> k.recviv, seq |-> k.seq,
                             recvsig |-> k.recvsig]]

FirstWrite(c) == Ctx(c).state \in {2, 10}

\* Mutant: the number of the last answer is used again.
ReuseSeq(c) ==
  /\ CanWrite(c) /\ FirstWrite(c)
  /\ cipherSeq' = cipherSeq
  /\ taken' = taken + 1
  /\ netctx' = [netctx EXCEPT ![ctx[c]].seq = cipherSeq']
  /\ Goto(c, "hdr")
  /\ UNCHANGED <<alive, connVars, ctxVars, checkVars, hdr, out, ackHist, streaming>>

\* EncodeWrite, first answer: WriteAckData takes the next sequence number.
TakeSeq(c) ==
  /\ CanWrite(c) /\ FirstWrite(c)
  /\ cipherSeq' = (cipherSeq + 1) % SeqSize
  /\ taken' = taken + 1
  /\ netctx' = [netctx EXCEPT ![ctx[c]].seq = cipherSeq']
  /\ Goto(c, "hdr")
  /\ UNCHANGED <<alive, connVars, ctxVars, checkVars, hdr, out, ackHist, streaming>>

AckType(k) == IF k.state = 2 THEN 2 ELSE IF k.stream THEN 4 ELSE 3

BuildAckHdr(c) ==
  /\ alive /\ pc[c] = "hdr"
  /\ hdr' = [hdr EXCEPT ![c] = [type |-> AckType(Ctx(c)), seq |-> Ctx(c).seq]]
  /\ netctx' = [netctx EXCEPT ![ctx[c]] = UpdateIv(@)]
  /\ Goto(c, "enc")
  /\ UNCHANGED <<alive, connVars, ctxVars, checkVars, seqVars, out, ackHist, streaming>>

\* Mutant: the checks of a stream are made for every answer.
RefuseAll(k) == k.state = 2 \/ k.size < 1

\* The data of a write has length 1.
StreamRefused(k) == k.stream /\ (k.state = 2 \/ k.size < 1)

\* What data encrypted on the context depends on.
EncryptAckData(k) == [key |-> k.aeskey, iv |-> k.sendiv]

\* The header, the ack field and the encrypted data; the size and the checksum
\* follow from them.
WriteAckData(c) ==
  /\ alive /\ pc[c] = "enc"
  /\ ~StreamRefused(Ctx(c))
  /\ out' = [out EXCEPT ![c] = Append(@,
       [type |-> hdr[c].type, seq |-> hdr[c].seq,
        ack |-> (Ctx(c).ack + 1) % SeqSize,
        data |-> EncryptAckData(Ctx(c))])]
  /\ netctx' = [netctx EXCEPT ![ctx[c]].state = (@ + 1) % 256]
  /\ Goto(c, "handle")
  /\ UNCHANGED <<alive, connVars, ctxVars, checkVars, seqVars, hdr, ackHist, streaming>>

\* A stream in answer to a syn, or one announced too short, panics.
WriteRefused(c) ==
  /\ alive /\ pc[c] = "enc"
  /\ StreamRefused(Ctx(c))
  /\ Goto(c, "panicked")
  /\ UNCHANGED <<alive, connVars, ctxVars, netctx, checkVars, seqVars, hdr, out,
                 ackHist, streaming>>

\* EncodeWrite, later answers: encrypted data without a header.
WriteRaw(c) ==
  /\ CanWrite(c) /\ ~FirstWrite(c)
  /\ netctx' = [netctx EXCEPT ![ctx[c]] = UpdateIv(@)]
  /\ out' = [out EXCEPT ![c] = Append(@,
       [type |-> 0, seq |-> 0, ack |-> 0,
        data |-> EncryptAckData(UpdateIv(Ctx(c)))])]
  /\ UNCHANGED <<alive, pc, connVars, ctxVars, checkVars, seqVars, hdr, ackHist,
                 streaming>>

\* The handler returns or panics; the deferred call flushes and closes.
Close(c) ==
  /\ alive /\ pc[c] \in {"handle", "panicked"}
  /\ Goto(c, "closed")
  /\ UNCHANGED <<alive, connVars, ctxVars, netctx, checkVars, seqVars, hdr, out,
                 ackHist, streaming>>

-----------------------------------------------------------------------------
ConnStep(c) ==
  \/ ReadPacket(c) \/ LockAck(c) \/ TestAck(c) \/ RecvAck(c) \/ SetAck(c)
  \/ StoreAck(c) \/ Decrypt(c) \/ DecryptError(c) \/ DecryptFatal(c)
  \/ BeginWriteStream(c) \/ TakeSeq(c) \/ BuildAckHdr(c) \/ WriteAckData(c)
  \/ WriteRefused(c) \/ WriteRaw(c) \/ Close(c)

Next ==
  \/ \E c \in Conns : Arrive(c) \/ ConnStep(c)
  \/ \E p \in Peers : Expire(p)

(***************************************************************************)
(* The scheduler runs every goroutine that can run, and handlers return.   *)
(* The read of a datagram never blocks; a read on TCP ends because of its  *)
(* deadline, so fairness of ConnStep supposes that ReadTimeOut is set when *)
(* there are TCP peers.  Senders blocked on a channel are served first     *)
(* come first served: strong fairness for the lock.                        *)
(***************************************************************************)
Fairness ==
  \A c \in Conns : WF_vars(ConnStep(c)) /\ SF_vars(LockAck(c))

Spec == Init /\ [][Next]_vars
FairSpec == Spec /\ Fairness

-----------------------------------------------------------------------------
(* Properties.                                                              *)

Arrived(c) == pc[c] # "idle"
SamePeer(c, d) ==
  /\ req[c].peer = req[d].peer /\ req[c].peer \notin TcpPeers
  /\ req[c].epoch = req[d].epoch

\* Two conns share a context exactly if they are datagrams of one peer between
\* which the peer's cache entry did not expire.
ContextPerPeer ==
  \A c, d \in Conns : Arrived(c) /\ Arrived(d) =>
    (ctx[c] = ctx[d] <=> c = d \/ SamePeer(c, d))

\* checkSetAck lets the same sequence number through twice in a row (zero
\* excepted) only if a check since the first time, or the second one, was
\* disturbed: ack is stored outside the lock, twice, and a check that comes
\* before the store of an accepted number, or before a store of another one,
\* may let a datagram through that was delivered twice.  Without such a race
\* it is handled once, also while copies of it are being refused.
NoImmediateRepeat ==
  \A x \in Conns : \A k \in 1..(Len(accepted[x]) - 1) :
    accepted[x][k].seq = accepted[x][k + 1].seq =>
      accepted[x][k].seq = 0 \/ accepted[x][k + 1].raced

\* What the first answer of conn c must look like.
GoodHeader(c, f) ==
  /\ f.ack = (Seq_(c) + 1) % SeqSize
  /\ IF req[c].syn THEN f.type = 2
     ELSE /\ f.type \in {3, 4}
          /\ streaming[c] = "yes" => f.type = 4
          /\ f.type = 4 => \E d \in Sharers(c) \cup {c} : streaming[d] # "no"

\* An answer belongs to its request: when no other request on the context
\* interfered with c (copies of c's own datagram that are refused do not),
\* every frame c writes is encrypted under the key and the iv of c's packet,
\* the first one acknowledges c's sequence number with the type c's packet
\* calls for, and the later ones have no header.
AnswerMatchesRequest ==
  \A c \in Conns : alone[c] => \A k \in 1..Len(out[c]) :
    LET f == out[c][k]
    IN  /\ f.data.key = c
        /\ f.data.iv = [recviv |-> c, seq |-> out[c][1].seq, recvsig |-> c]
        /\ IF k = 1 THEN GoodHeader(c, f) ELSE f.type = 0

\* Until all the numbers have been used once, two requests that nothing
\* overlapped never answer with the same sequence number, whatever contexts
\* they use and wherever the numbers began.
AnswerSeqUnique ==
  taken <= SeqSize =>
    \A c, d \in Conns :
      c # d /\ alone[c] /\ alone[d] /\ out[c] # <<>> /\ out[d] # <<>>
        => out[c][1].seq # out[d][1].seq

\* A write is refused only on a context on which some request asked for a
\* stream; on TCP that request is the conn itself.
RefusedOnlyAfterStream ==
  \A c \in Conns : pc[c] = "panicked" =>
    \E d \in Sharers(c) \cup {c} : streaming[d] # "no"

\* Every conn is closed in the end, whoever else waits for or holds the lock of
\* the context, unless the process dies first.
ConnCloses ==
  \A c \in Conns : pc[c] = "read" ~> pc[c] = "closed" \/ ~alive
=============================================================================
