-------------------------- MODULE NetSessionProofs --------------------------
(***************************************************************************)
(* Proofs about NetSession, for any conns, peers and sequence numbers.     *)
(* Every safety property of the module is proved, each from an invariant   *)
(* that a step of any conn preserves:                                      *)
(*                                                                         *)
(*   AckInv     the repeat check: the channel is a lock (Locked), ack is   *)
(*              the number accepted last or that one is on its way         *)
(*              (AckIsLast), and a conn about to store ack, outside the    *)
(*              lock, stores that number (StoreIsLast), unless a check was *)
(*              disturbed;                                                 *)
(*   CtxInv     which conn created a context, and what the cache holds;    *)
(*   StreamInv  where stream mode comes from, and that it stays;           *)
(*   AnswerInv  what a conn finds in its context at every point between    *)
(*              acceptance and end if no other accepted conn overlaps it;  *)
(*   NumberInv  which conn has which sequence number.                      *)
(***************************************************************************)
EXTENDS NetSession, TLAPS

SeqNums == 0..(SeqSize - 1)
Names   == Conns \cup {None}
Ivs     == [recviv : Names, seq : SeqNums, recvsig : Names]
Fields  ==
  [ack : SeqNums, recvsig : Names, recviv : Names, aeskey : Names,
   sendiv : Ivs, seq : SeqNums, state : 0..255, updateiv : BOOLEAN,
   stream : BOOLEAN, size : Nat]
Hdrs    == [type : 0..4, seq : SeqNums]
Checks  == [seq : SeqNums, raced : BOOLEAN]
Frames  == [type : 0..4, seq : SeqNums, ack : SeqNums,
            data : [key : Names, iv : Ivs]]

\* Writing an answer, which keeps room for it.
Writing(c) == pc[c] \in {"hdr", "enc"}

Types ==
  /\ alive \in BOOLEAN
  /\ pc \in [Conns -> PCs]
  /\ req \in [Conns -> Requests \cup {NoRequest}]
  /\ ctx \in [Conns -> Names]
  /\ \A c \in Conns : pc[c] # "idle" => req[c] \in Requests /\ ctx[c] \in Conns
  /\ gUdpNetContext \in [Peers -> Names]
  /\ netctx \in [Conns -> Fields]
  /\ ackSetChan \in [Conns -> Seq(SeqNums)]
  /\ \A x \in Conns : Len(ackSetChan[x]) <= 1
  /\ ok \in [Conns -> BOOLEAN] /\ got \in [Conns -> SeqNums]
  /\ cipherSeq \in SeqNums /\ taken \in Nat
  /\ hdr \in [Conns -> Hdrs]
  /\ out \in [Conns -> Seq(Frames)]
  /\ \A c \in Conns : Len(out[c]) <= MaxWrites /\ (Writing(c) => Len(out[c]) < MaxWrites)
  /\ epoch \in [Peers -> Nat]
  /\ accepted \in [Conns -> Seq(Checks)]
  /\ overlap \in [Conns -> BOOLEAN]

Holds(c) == pc[c] \in {"test", "recv"}

\* A conn between the send to its context's channel and the receive from it is
\* alone there, and the channel holds its number, which is what it receives.
Locked ==
  /\ \A c \in Conns : Holds(c) => ackSetChan[ctx[c]] = <<Seq_(c)>>
  /\ \A c, d \in Conns : Holds(c) /\ Holds(d) /\ ctx[c] = ctx[d] => c = d
  /\ \A c \in Conns : pc[c] = "set" => got[c] = Seq_(c)

Last(x) == IF accepted[x] = <<>> THEN 0 ELSE accepted[x][Len(accepted[x])].seq

\* An accepted number of the context is not stored yet.
Pending(x) == \E d \in Conns : ctx[d] = x /\ pc[d] \in {"recv", "set"} /\ ok[d]

AckIsLast == \A x \in Conns : ~overlap[x] => netctx[x].ack = Last(x) \/ Pending(x)

StoreIsLast == \A c \in Conns :
  pc[c] \in {"recv", "set", "store"} /\ ~overlap[ctx[c]] => Seq_(c) = Last(ctx[c])

AckInv == Locked /\ AckIsLast /\ StoreIsLast /\ NoImmediateRepeat

-----------------------------------------------------------------------------
\* The initial state has the types and satisfies the invariant of the check.
LEMMA InitInv == Init => Types /\ AckInv
<1> SUFFICES ASSUME Init PROVE Types /\ AckInv
  OBVIOUS
<1> USE ConstantsAssumption DEF SeqNums, Names
<1>1. NewNetContext \in Fields
  BY DEF NewNetContext, Fields, NoIv, Ivs
<1>2. NoHdr \in Hdrs
  BY DEF NoHdr, Hdrs
<1>3. Types
  BY <1>1, <1>2 DEF Init, Types, PCs, Writing
<1>4. AckInv
  BY <1>1 DEF Init, AckInv, Locked, AckIsLast, StoreIsLast, Pending,
     NoImmediateRepeat, Holds, Last, NewNetContext
<1> QED BY <1>3, <1>4

-----------------------------------------------------------------------------
(* The types.                                                               *)

\* Sequence numbers stay in their range when they wrap.
LEMMA NextSeqType == ASSUME NEW n \in SeqNums PROVE (n + 1) % SeqSize \in SeqNums
BY ConstantsAssumption, SMTT(30) DEF SeqNums

\* What the answers write back into a context keeps its type.
LEMMA UpdateIvType == ASSUME NEW k \in Fields PROVE UpdateIv(k) \in Fields
BY DEF UpdateIv, Fields, Ivs

\* The assignments to the fields of a context keep its type.
LEMMA FieldTypes ==
  ASSUME NEW k \in Fields, NEW n \in SeqNums, NEW x \in Names, NEW s \in 0..255,
         NEW z \in Nat
  PROVE  /\ [k EXCEPT !.ack = n] \in Fields
         /\ [k EXCEPT !.ack = n, !.recvsig = x] \in Fields
         /\ [k EXCEPT !.recviv = x, !.aeskey = x, !.updateiv = TRUE, !.state = s]
              \in Fields
         /\ [k EXCEPT !.stream = TRUE, !.size = z] \in Fields
BY DEF Fields

\* A step that does no more than take a conn to a point where it writes nothing.
LEMMA OnlyMoves ==
  ASSUME Types, NEW c \in Conns, NEW p \in PCs, p \notin {"hdr", "enc"},
         pc[c] # "idle", Goto(c, p),
         UNCHANGED <<alive, connVars, ctxVars, netctx, checkVars, seqVars, hdr, out, ackHist>>
  PROVE  Types'
<1> USE DEF connVars, ctxVars, checkVars, seqVars, ackHist
<1>1. pc' \in [Conns -> PCs] /\ pc'[c] = p /\ \A d \in Conns \ {c} : pc'[d] = pc[d]
  BY DEF Types, Goto
<1>2. \A d \in Conns : pc'[d] # "idle" => req'[d] \in Requests /\ ctx'[d] \in Conns
  BY <1>1 DEF Types
<1>3. \A d \in Conns : Writing(d)' => Len(out'[d]) < MaxWrites
  BY <1>1 DEF Types, Writing
<1> QED BY <1>1, <1>2, <1>3 DEF Types

\* Every step keeps the types.
LEMMA TypesStep == Types /\ [Next]_vars => Types'
<1> SUFFICES ASSUME Types, [Next]_vars PROVE Types'
  OBVIOUS
<1> USE ConstantsAssumption
    DEF connVars, ctxVars, checkVars, seqVars, ackHist, Goto, PCs, Writing
<1>1. ASSUME NEW c \in Conns, Arrive(c) PROVE Types'
  <2>1. PICK p \in Peers, s \in Seqs, syn \in Syns : req' = [req EXCEPT ![c] =
          [peer |-> p, seq |-> s, syn |-> syn, epoch |-> epoch[p]]]
    BY <1>1 DEF Arrive
  <2>2. [peer |-> p, seq |-> s, syn |-> syn, epoch |-> epoch[p]] \in Requests
    BY DEF Types, Requests
  <2>3. req' \in [Conns -> Requests \cup {NoRequest}] /\ req'[c] \in Requests
    BY <2>1, <2>2 DEF Types
  <2>4. ctx' \in [Conns -> Names] /\ ctx'[c] \in Conns
          /\ gUdpNetContext' \in [Peers -> Names]
          /\ \A d \in Conns \ {c} : ctx'[d] = ctx[d]
    <3>1. CASE NewTcpConn(c)
      BY <1>1, <3>1 DEF Arrive, NewTcpConn, Types, Names
    <3>2. CASE GetUdpNetContext(c)
      <4>1. req'[c].peer = p
        BY <2>1 DEF Types
      <4>2. PICK x \in Conns : ctx' = [ctx EXCEPT ![c] = x]
              /\ gUdpNetContext' = [gUdpNetContext EXCEPT ![p] = x]
        BY <3>2, <4>1 DEF GetUdpNetContext, CacheGet, Types, Names
      <4> QED BY <4>2 DEF Types, Names
    <3> QED BY <1>1, <3>1, <3>2 DEF Arrive
  <2>5. \A d \in Conns \ {c} : req'[d] = req[d]
    BY <2>1 DEF Types
  <2> QED BY <1>1, <2>3, <2>4, <2>5 DEF Arrive, Types
<1>2. ASSUME NEW c \in Conns, ReadPacket(c) PROVE Types'
  BY <1>2, OnlyMoves DEF ReadPacket
<1>4. ASSUME NEW c \in Conns, LockAck(c) PROVE Types'
  <2>1. ctx[c] \in Conns /\ Seq_(c) \in SeqNums
    BY <1>4 DEF LockAck, Types, Requests, Seq_, SeqNums
  <2>2. <<Seq_(c)>> \in Seq(SeqNums) /\ Len(<<Seq_(c)>>) <= 1
    BY <2>1
  <2> QED BY <1>4, <2>1, <2>2 DEF LockAck, Types
<1>5. ASSUME NEW c \in Conns, TestAck(c) PROVE Types'
  <2>1. ctx[c] \in Conns /\ Seq_(c) \in SeqNums
    BY <1>5 DEF TestAck, Types, Requests, Seq_, SeqNums
  <2>2. ok' \in [Conns -> BOOLEAN]
    BY <1>5 DEF TestAck, Types
  <2>3. accepted' \in [Conns -> Seq(Checks)] /\ overlap' \in [Conns -> BOOLEAN]
    <3>1. PICK b \in BOOLEAN, e \in BOOLEAN :
            /\ overlap' = [overlap EXCEPT ![ctx[c]] = e]
            /\ accepted' = IF ok'[c] THEN [accepted EXCEPT ![ctx[c]] =
                                             Append(@, [seq |-> Seq_(c), raced |-> b])]
                                     ELSE accepted
      <4>1. Disturbed(c) \in BOOLEAN /\ overlap[ctx[c]] \in BOOLEAN
        BY <2>1 DEF Disturbed, Types
      <4> QED BY <1>5, <4>1 DEF TestAck, RecordTest
    <3>2. [seq |-> Seq_(c), raced |-> b] \in Checks
      BY <2>1 DEF Checks
    <3> QED BY <2>1, <3>1, <3>2 DEF Types
  <2>4. pc' \in [Conns -> PCs] /\ \A d \in Conns : pc'[d] # "idle" => pc[d] # "idle"
          /\ (Writing(d)' => Writing(d))
    BY <1>5 DEF TestAck, Types
  <2> QED BY <1>5, <2>2, <2>3, <2>4 DEF TestAck, Types
<1>11. ASSUME NEW c \in Conns, RecvAck(c) PROVE Types'
  <2>1. ctx[c] \in Conns
    BY <1>11 DEF RecvAck, Types
  <2>2. Head(ackSetChan[ctx[c]]) \in SeqNums /\ Tail(ackSetChan[ctx[c]]) \in Seq(SeqNums)
          /\ Len(Tail(ackSetChan[ctx[c]])) <= 1
    BY <1>11, <2>1 DEF RecvAck, Types
  <2> QED BY <1>11, <2>1, <2>2 DEF RecvAck, Types
<1>6. ASSUME NEW c \in Conns, SetAck(c) PROVE Types'
  <2>1. ctx[c] \in Conns /\ got[c] \in SeqNums
    BY <1>6 DEF SetAck, Types
  <2>2. netctx' \in [Conns -> Fields]
    <3>1. netctx[ctx[c]] \in Fields /\ None \in Names /\ 0 \in 0..255 /\ 0 \in Nat
      BY <2>1 DEF Types, Names
    <3>2. [netctx[ctx[c]] EXCEPT !.ack = got[c]] \in Fields
      BY <2>1, <3>1, FieldTypes
    <3> QED BY <1>6, <2>1, <3>2 DEF SetAck, Types
  <2>3. pc' \in [Conns -> PCs] /\ \A d \in Conns : pc'[d] # "idle" => pc[d] # "idle"
          /\ (Writing(d)' => Writing(d))
    <3>1. pc[c] = "set" /\ \E p \in {"store", "closed"} : pc' = [pc EXCEPT ![c] = p]
      BY <1>6 DEF SetAck
    <3> QED BY <3>1 DEF Types
  <2> QED BY <1>6, <2>2, <2>3 DEF SetAck, Types
<1>7. ASSUME NEW c \in Conns, StoreAck(c) PROVE Types'
  <2>1. ctx[c] \in Conns /\ Seq_(c) \in SeqNums
    BY <1>7 DEF StoreAck, Types, Requests, Seq_, SeqNums
  <2>2. [netctx[ctx[c]] EXCEPT !.ack = Seq_(c), !.recvsig = c] \in Fields
    <3>1. netctx[ctx[c]] \in Fields /\ c \in Names /\ 0 \in 0..255 /\ 0 \in Nat
      BY <2>1 DEF Types, Names
    <3> QED BY <2>1, <3>1, FieldTypes
  <2>3. netctx' \in [Conns -> Fields]
    BY <1>7, <2>1, <2>2 DEF StoreAck, Types
  <2> QED BY <1>7, <2>3 DEF StoreAck, Types
<1>8. ASSUME NEW c \in Conns, Decrypt(c) PROVE Types'
  <2>1. ctx[c] \in Conns /\ netctx[ctx[c]] \in Fields /\ c \in Names
    BY <1>8 DEF Decrypt, Types, Names
  <2>2. PICK s \in 0..255 : netctx' = [netctx EXCEPT ![ctx[c]] =
          [@ EXCEPT !.recviv = c, !.aeskey = c, !.updateiv = TRUE, !.state = s]]
    <3>1. (IF req[c].syn THEN 2 ELSE 10) \in 0..255
      OBVIOUS
    <3> QED BY <1>8, <3>1, Zenon DEF Decrypt
  <2>3. netctx' \in [Conns -> Fields]
    <3>1. 0 \in SeqNums /\ 0 \in Nat
      BY DEF SeqNums
    <3>2. [netctx[ctx[c]] EXCEPT !.recviv = c, !.aeskey = c, !.updateiv = TRUE,
             !.state = s] \in Fields
      BY <2>1, <3>1, FieldTypes
    <3> QED BY <2>1, <2>2, <3>2 DEF Types
  <2>4. pc' \in [Conns -> PCs] /\ \A d \in Conns : pc'[d] # "idle" => pc[d] # "idle"
          /\ (Writing(d)' => Writing(d))
    <3>1. pc[c] = "decrypt" /\ \E p \in {"handle", "closed"} : pc' = [pc EXCEPT ![c] = p]
      BY <1>8 DEF Decrypt
    <3> QED BY <3>1 DEF Types
  <2>5. UNCHANGED <<alive, connVars, ctxVars, checkVars, seqVars, hdr, out, ackHist>>
    BY <1>8 DEF Decrypt
  <2> QED BY <2>3, <2>4, <2>5 DEF Types
<1>9. ASSUME NEW c \in Conns, DecryptError(c) PROVE Types'
  BY <1>9, OnlyMoves DEF DecryptError
<1>10. ASSUME NEW c \in Conns, DecryptFatal(c) PROVE Types'
  BY <1>10 DEF DecryptFatal, Types
<1>12. ASSUME NEW c \in Conns, BeginWriteStream(c) PROVE Types'
  <2>1. PICK n \in Sizes :
          netctx' = [netctx EXCEPT ![ctx[c]].stream = TRUE, ![ctx[c]].size = n]
    BY <1>12 DEF BeginWriteStream
  <2>2. ctx[c] \in Conns /\ netctx[ctx[c]] \in Fields
    BY <1>12 DEF BeginWriteStream, CanWrite, Types
  <2>3. [netctx[ctx[c]] EXCEPT !.stream = TRUE, !.size = n] \in Fields
    <3>1. n \in Nat
      OBVIOUS
    <3> QED BY <2>2, <3>1 DEF Fields
  <2>4. netctx' \in [Conns -> Fields]
    BY <2>1, <2>2, <2>3 DEF Types
  <2> QED BY <1>12, <2>4 DEF BeginWriteStream, Types
<1>13. ASSUME NEW c \in Conns, TakeSeq(c) PROVE Types'
  <2>1. cipherSeq' \in SeqNums
    BY <1>13, NextSeqType DEF TakeSeq, Types
  <2>2. ctx[c] \in Conns /\ netctx[ctx[c]] \in Fields
    BY <1>13 DEF TakeSeq, CanWrite, Types
  <2>3. [netctx[ctx[c]] EXCEPT !.seq = cipherSeq'] \in Fields
    BY <2>1, <2>2 DEF Fields
  <2>4. netctx' \in [Conns -> Fields]
    BY <1>13, <2>2, <2>3 DEF TakeSeq, Types
  <2>5. pc[c] = "handle" /\ Len(out[c]) < MaxWrites /\ pc' = [pc EXCEPT ![c] = "hdr"]
    BY <1>13 DEF TakeSeq, CanWrite
  <2>6. /\ pc' \in [Conns -> PCs] /\ pc'[c] = "hdr"
        /\ \A d \in Conns \ {c} : pc'[d] = pc[d]
    BY <2>5 DEF Types
  <2>7. /\ taken' = taken + 1
        /\ UNCHANGED <<alive, connVars, ctxVars, checkVars, hdr, out, ackHist>>
    BY <1>13 DEF TakeSeq
  <2> QED BY <2>1, <2>4, <2>5, <2>6, <2>7 DEF Types
<1>14. ASSUME NEW c \in Conns, BuildAckHdr(c) PROVE Types'
  <2>1. ctx[c] \in Conns /\ Ctx(c) \in Fields
    BY <1>14 DEF BuildAckHdr, Types, Ctx
  <2>2. netctx' \in [Conns -> Fields]
    BY <1>14, <2>1, UpdateIvType DEF BuildAckHdr, Types
  <2>3. [type |-> AckType(Ctx(c)), seq |-> Ctx(c).seq] \in Hdrs
    BY <2>1 DEF Hdrs, AckType, Fields
  <2>4. hdr' \in [Conns -> Hdrs]
    BY <1>14, <2>3 DEF BuildAckHdr, Types
  <2> QED BY <1>14, <2>2, <2>4 DEF BuildAckHdr, Types
<1>15. ASSUME NEW c \in Conns, WriteAckData(c) PROVE Types'
  <2>1. ctx[c] \in Conns /\ Ctx(c) \in Fields /\ hdr[c] \in Hdrs
    BY <1>15 DEF WriteAckData, Types, Ctx
  <2>2. (Ctx(c).ack + 1) % SeqSize \in SeqNums
    BY <2>1, NextSeqType DEF Fields
  <2>3. [type |-> hdr[c].type, seq |-> hdr[c].seq, ack |-> (Ctx(c).ack + 1) % SeqSize,
         data |-> EncryptAckData(Ctx(c))] \in Frames
    BY <2>1, <2>2 DEF Frames, Hdrs, Fields, EncryptAckData
  <2>4. /\ out' \in [Conns -> Seq(Frames)]
        /\ \A d \in Conns : Len(out'[d]) <= MaxWrites
        /\ \A d \in Conns \ {c} : out'[d] = out[d]
    BY <1>15, <2>3 DEF WriteAckData, Types
  <2>5. (Ctx(c).state + 1) % 256 \in 0..255
    BY <2>1 DEF Fields
  <2>6. netctx' \in [Conns -> Fields]
    <3>1. [netctx[ctx[c]] EXCEPT !.state = (netctx[ctx[c]].state + 1) % 256] \in Fields
      <4> DEFINE s == (netctx[ctx[c]].state + 1) % 256
      <4>1. s \in 0..255
        BY <2>5 DEF Ctx
      <4> HIDE DEF s
      <4>2. [netctx[ctx[c]] EXCEPT !.state = s] \in Fields
        BY <2>1, <4>1 DEF Fields, Ctx
      <4> QED BY <4>2 DEF s
    <3>2. netctx' = [netctx EXCEPT ![ctx[c]] =
                       [netctx[ctx[c]] EXCEPT !.state = (netctx[ctx[c]].state + 1) % 256]]
      BY <1>15 DEF WriteAckData
    <3> QED BY <2>1, <3>1, <3>2 DEF Types
  <2>7. /\ pc' \in [Conns -> PCs]
        /\ pc[c] = "enc" /\ pc'[c] = "handle" /\ \A d \in Conns \ {c} : pc'[d] = pc[d]
    BY <1>15 DEF WriteAckData, Goto, Types, PCs
  <2>8. UNCHANGED <<alive, connVars, ctxVars, checkVars, seqVars, hdr, ackHist, streaming>>
    BY <1>15 DEF WriteAckData
  <2>9. \A d \in Conns : pc'[d] # "idle" => req'[d] \in Requests /\ ctx'[d] \in Conns
    BY <2>7, <2>8 DEF Types
  <2>10. \A d \in Conns : Writing(d)' => Len(out'[d]) < MaxWrites
    BY <2>4, <2>7 DEF Types, Writing
  <2> QED BY <2>4, <2>6, <2>7, <2>8, <2>9, <2>10 DEF Types
<1>16. ASSUME NEW c \in Conns, WriteRefused(c) PROVE Types'
  BY <1>16, OnlyMoves DEF WriteRefused
<1>17. ASSUME NEW c \in Conns, WriteRaw(c) PROVE Types'
  <2>1. ctx[c] \in Conns /\ Ctx(c) \in Fields
    BY <1>17 DEF WriteRaw, CanWrite, Types, Ctx
  <2>2. UpdateIv(Ctx(c)) \in Fields
    BY <2>1, UpdateIvType
  <2>3. netctx' \in [Conns -> Fields]
    BY <1>17, <2>1, <2>2 DEF WriteRaw, Types, Ctx
  <2>4. [type |-> 0, seq |-> 0, ack |-> 0,
         data |-> EncryptAckData(UpdateIv(Ctx(c)))] \in Frames
    BY <2>2 DEF Frames, Fields, EncryptAckData, SeqNums
  <2>5. /\ out' \in [Conns -> Seq(Frames)]
        /\ \A d \in Conns : Len(out'[d]) <= MaxWrites
        /\ \A d \in Conns \ {c} : out'[d] = out[d]
    BY <1>17, <2>4 DEF WriteRaw, CanWrite, Types
  <2> QED BY <1>17, <2>3, <2>5 DEF WriteRaw, CanWrite, Types
<1>18. ASSUME NEW c \in Conns, Close(c) PROVE Types'
  BY <1>18, OnlyMoves DEF Close
<1>19. ASSUME NEW p \in Peers, Expire(p) PROVE Types'
  BY <1>19 DEF Expire, Types, Names
<1>20. ASSUME UNCHANGED vars PROVE Types'
  BY <1>20 DEF vars, Types
<1> QED
  BY <1>1, <1>2, <1>4, <1>5, <1>6, <1>7, <1>8, <1>9, <1>10, <1>11, <1>12,
     <1>13, <1>14, <1>15, <1>16, <1>17, <1>18, <1>19, <1>20 DEF Next, ConnStep

-----------------------------------------------------------------------------
(* The repeat check.                                                        *)

Guarded == {"test", "recv", "set", "store"}

\* A step that takes no conn to a guarded point and leaves ack, the channels
\* and the history of acceptances alone keeps the invariant.
LEMMA QuietStep ==
  ASSUME AckInv,
         UNCHANGED <<ackSetChan, accepted, overlap>>,
         \A x \in Conns : netctx'[x].ack = netctx[x].ack,
         \A d \in Conns : pc'[d] \in Guarded =>
           /\ pc'[d] = pc[d] /\ ctx'[d] = ctx[d] /\ req'[d] = req[d]
           /\ ok'[d] = ok[d] /\ got'[d] = got[d],
         \A d \in Conns : pc[d] \in {"recv", "set"} =>
           pc'[d] = pc[d] /\ ctx'[d] = ctx[d] /\ ok'[d] = ok[d]
  PROVE  AckInv'
<1>1. Locked'
  <2>1. \A d \in Conns : Holds(d)' =>
          Holds(d) /\ ctx'[d] = ctx[d] /\ Seq_(d)' = Seq_(d)
    BY DEF Holds, Guarded, Seq_
  <2>2. \A d \in Conns : pc'[d] = "set" =>
          pc[d] = "set" /\ got'[d] = got[d] /\ Seq_(d)' = Seq_(d)
    BY DEF Guarded, Seq_
  <2> QED BY <2>1, <2>2 DEF AckInv, Locked
<1>2. AckIsLast'
  <2>1. \A x \in Conns : Pending(x) => Pending(x)'
    BY DEF Pending
  <2> QED BY <2>1 DEF AckInv, AckIsLast, Last
<1>3. StoreIsLast'
  BY DEF AckInv, StoreIsLast, Last, Guarded, Seq_
<1>4. NoImmediateRepeat'
  BY DEF AckInv, NoImmediateRepeat
<1> QED BY <1>1, <1>2, <1>3, <1>4 DEF AckInv

\* Taking the lock: the channel was empty, so no other conn is behind it.
LEMMA LockAckInv ==
  ASSUME Types, AckInv, NEW c \in Conns, LockAck(c) PROVE AckInv'
<1>1. ctx[c] \in Conns /\ pc[c] = "lock" /\ pc' = [pc EXCEPT ![c] = "test"]
  BY DEF LockAck, Types, Goto
<1>2. \A d \in Conns : Holds(d) => ctx[d] # ctx[c]
  BY DEF LockAck, AckInv, Locked
<1> USE DEF connVars, checkVars, seqVars, ackHist
<1>3. Locked'
  <2>1. \A d \in Conns : Holds(d)' => ctx[d] \in Conns /\ (d = c \/ Holds(d))
    BY <1>1 DEF Holds, Types
  <2>2. \A d \in Conns : Holds(d)' => ackSetChan'[ctx[d]] = <<Seq_(d)>>
    BY <1>1, <1>2, <2>1 DEF LockAck, AckInv, Locked, Types
  <2>3. UNCHANGED <<ctx, req, got>>
    BY DEF LockAck
  <2>4. \A d \in Conns : pc'[d] = "set" => pc[d] = "set"
    BY <1>1 DEF Types
  <2> QED BY <1>2, <2>1, <2>2, <2>3, <2>4 DEF AckInv, Locked, Seq_
<1>4. /\ UNCHANGED <<netctx, ctx, req, ok, accepted, overlap>>
      /\ \A d \in Conns : pc'[d] # "test" => pc'[d] = pc[d]
      /\ \A d \in Conns : pc[d] # "lock" => pc'[d] = pc[d]
  BY <1>1 DEF LockAck, Types
<1>5. AckIsLast' /\ NoImmediateRepeat'
  BY <1>4 DEF AckInv, AckIsLast, NoImmediateRepeat, Last, Pending
<1>6. StoreIsLast'
  BY <1>4 DEF AckInv, StoreIsLast, Last, Seq_
<1> QED BY <1>3, <1>5, <1>6 DEF AckInv

\* The receive releases the lock: the conn holds its number, not yet stored.
LEMMA RecvAckInv ==
  ASSUME Types, AckInv, NEW c \in Conns, RecvAck(c) PROVE AckInv'
<1>1. /\ ctx[c] \in Conns /\ pc[c] = "recv"
      /\ pc' = [pc EXCEPT ![c] = "set"]
  BY DEF RecvAck, Types, Goto
<1> USE DEF connVars, seqVars, ackHist
<1>2. UNCHANGED <<ctx, req, ok, netctx, accepted, overlap>>
  BY DEF RecvAck
<1>3. ackSetChan[ctx[c]] = <<Seq_(c)>>
  BY <1>1 DEF AckInv, Locked, Holds
<1>4. /\ got'[c] = Seq_(c) /\ \A d \in Conns \ {c} : got'[d] = got[d]
      /\ \A x \in Conns \ {ctx[c]} : ackSetChan'[x] = ackSetChan[x]
  BY <1>1, <1>3 DEF RecvAck, Types
<1>5. \A d \in Conns \ {c} : pc'[d] = pc[d]
  BY <1>1 DEF Types
<1>6. pc'[c] = "set"
  BY <1>1 DEF Types
<1>7. Locked'
  <2>1. \A d \in Conns : Holds(d)' => Holds(d) /\ d # c /\ ctx[d] # ctx[c] /\ ctx[d] \in Conns
    BY <1>1, <1>5, <1>6 DEF AckInv, Locked, Holds, Types
  <2>2. \A d \in Conns : Holds(d)' => ackSetChan'[ctx[d]] = <<Seq_(d)>>
    BY <1>4, <2>1 DEF AckInv, Locked
  <2>3. \A d \in Conns : pc'[d] = "set" => got'[d] = Seq_(d)
    BY <1>4, <1>5 DEF AckInv, Locked
  <2> QED BY <1>2, <2>1, <2>2, <2>3 DEF AckInv, Locked, Seq_
<1>8. AckIsLast'
  <2>1. \A x \in Conns : Pending(x) => Pending(x)'
    BY <1>2, <1>5, <1>6 DEF Pending
  <2> QED BY <1>2, <2>1 DEF AckInv, AckIsLast, Last
<1>9. StoreIsLast'
  BY <1>1, <1>2, <1>5 DEF AckInv, StoreIsLast, Last, Seq_
<1>10. NoImmediateRepeat'
  BY <1>2 DEF AckInv, NoImmediateRepeat
<1> QED BY <1>7, <1>8, <1>9, <1>10 DEF AckInv

\* Both stores of ack write the number accepted last, unless a check since
\* then was disturbed.
LEMMA StoresInv ==
  ASSUME Types, AckInv, NEW c \in Conns, SetAck(c) \/ StoreAck(c) PROVE AckInv'
<1> USE DEF connVars, ctxVars, checkVars, seqVars, ackHist
<1>1. ctx[c] \in Conns /\ pc[c] \in {"set", "store"}
  BY DEF SetAck, StoreAck, Types
<1>2. /\ UNCHANGED <<ctx, req, ok, got, ackSetChan, accepted, overlap>>
      /\ \A d \in Conns \ {c} : pc'[d] = pc[d]
      /\ pc'[c] \in {"store", "closed", "decrypt"}
      /\ pc'[c] = "store" => pc[c] = "set"
  BY DEF SetAck, StoreAck, Goto, Types
<1>3. /\ netctx'[ctx[c]].ack = Seq_(c)
      /\ \A x \in Conns \ {ctx[c]} : netctx'[x] = netctx[x]
  <2>1. CASE SetAck(c)
    <3>1. got[c] = Seq_(c)
      BY <2>1 DEF SetAck, AckInv, Locked
    <3> QED BY <1>1, <2>1, <3>1 DEF SetAck, Types, Fields
  <2>2. CASE StoreAck(c)
    BY <1>1, <2>2 DEF StoreAck, Types, Fields
  <2> QED BY <2>1, <2>2
<1>4. Locked'
  BY <1>2 DEF AckInv, Locked, Holds, Seq_
<1>5. StoreIsLast'
  BY <1>1, <1>2 DEF AckInv, StoreIsLast, Last, Seq_
<1>6. AckIsLast'
  <2>1. ~overlap[ctx[c]] => Seq_(c) = Last(ctx[c])
    BY <1>1 DEF AckInv, StoreIsLast
  <2>2. \A x \in Conns \ {ctx[c]} : Pending(x) => Pending(x)'
    BY <1>2 DEF Pending
  <2> QED BY <1>2, <1>3, <2>1, <2>2 DEF AckInv, AckIsLast, Last
<1>7. NoImmediateRepeat'
  BY <1>2 DEF AckInv, NoImmediateRepeat
<1> QED BY <1>4, <1>5, <1>6, <1>7 DEF AckInv

\* Under the lock, with nothing disturbing the check, ack is the number
\* accepted last.
LEMMA AckUnderLock ==
  ASSUME Types, AckInv, NEW c \in Conns, TestAck(c), ~overlap[ctx[c]], ~Disturbed(c)
  PROVE  Ctx(c).ack = Last(ctx[c])
<1>1. ctx[c] \in Conns /\ Holds(c)
  BY DEF TestAck, Types, Holds
<1>2. ~Pending(ctx[c])
  <2> SUFFICES ASSUME NEW d \in Conns, ctx[d] = ctx[c], pc[d] \in {"recv", "set"}, ok[d]
               PROVE  FALSE
    BY DEF Pending
  <2>1. d # c
    BY DEF TestAck
  <2>2. pc[d] # "recv"
    BY <1>1, <2>1 DEF AckInv, Locked, Holds
  <2> QED BY <2>1, <2>2 DEF Disturbed, Sharers
<1> QED BY <1>1, <1>2 DEF AckInv, AckIsLast, Ctx

\* What both outcomes of a test have in common.
LEMMA TestShape ==
  ASSUME Types, AckInv, NEW c \in Conns, TestAck(c)
  PROVE  /\ ctx[c] \in Conns /\ pc[c] = "test" /\ pc'[c] = "recv"
         /\ \A d \in Conns \ {c} : pc'[d] = pc[d] /\ ok'[d] = ok[d]
         /\ UNCHANGED <<ctx, req, got, netctx, ackSetChan>>
         /\ ok'[c] = (Ctx(c).ack = 0 \/ Ctx(c).ack # Seq_(c))
         /\ \A d \in Conns : ctx[d] = ctx[c] => pc[d] # "recv"
         /\ Locked'
<1> USE DEF connVars, ctxVars
<1>1. /\ ctx[c] \in Conns /\ pc[c] = "test" /\ pc'[c] = "recv"
      /\ \A d \in Conns \ {c} : pc'[d] = pc[d] /\ ok'[d] = ok[d]
      /\ ok'[c] = (Ctx(c).ack = 0 \/ Ctx(c).ack # Seq_(c))
  BY DEF TestAck, Goto, Types
<1>2. UNCHANGED <<ctx, req, got, netctx, ackSetChan>>
  BY DEF TestAck
<1>3. \A d \in Conns : ctx[d] = ctx[c] => pc[d] # "recv"
  BY <1>1 DEF AckInv, Locked, Holds
<1>4. Locked'
  <2>1. \A d \in Conns : (Holds(d)' <=> Holds(d)) /\ (pc'[d] = "set" => pc[d] = "set")
    BY <1>1 DEF Holds
  <2> QED BY <1>2, <2>1 DEF AckInv, Locked, Seq_
<1> QED BY <1>1, <1>2, <1>3, <1>4

\* A refusal: the conn will store the number accepted last once more.
LEMMA RefuseInv ==
  ASSUME Types, AckInv, NEW c \in Conns, TestAck(c), ~ok'[c] PROVE AckInv'
<1>0. PICK x0 \in Conns : x0 = ctx[c]
  BY TestShape
<1>1. /\ accepted' = accepted
      /\ overlap' = [overlap EXCEPT ![x0] = overlap[x0] \/ Disturbed(c)]
  BY <1>0, TestShape DEF TestAck, RecordTest
<1>2. /\ \A x \in Conns : ~overlap'[x] => ~overlap[x]
      /\ ~overlap'[x0] => ~Disturbed(c)
  BY <1>1 DEF Types
<1>3. AckIsLast'
  <2>1. \A x \in Conns : Pending(x) => Pending(x)'
    BY TestShape DEF Pending
  <2> QED BY <1>1, <1>2, <2>1, TestShape DEF AckInv, AckIsLast, Last
<1>4. StoreIsLast'
  <2>1. ~overlap'[x0] => Seq_(c) = Last(x0)
    BY <1>0, <1>2, AckUnderLock, TestShape
  <2> SUFFICES ASSUME NEW d \in Conns, pc'[d] \in {"recv", "set", "store"},
                      NEW y \in Conns, y = ctx[d], ~overlap'[y]
               PROVE  Seq_(d) = Last(y)
    <3>1. \A d \in Conns : pc'[d] \in {"recv", "set", "store"} => ctx[d] \in Conns
      BY TestShape DEF Types
    <3> QED BY <1>1, <3>1, TestShape DEF StoreIsLast, Seq_, Last
  <2>2. CASE d = c
    BY <1>0, <2>1, <2>2
  <2>3. CASE d # c
    BY <1>2, <2>3, TestShape DEF AckInv, StoreIsLast
  <2> QED BY <2>2, <2>3
<1>5. NoImmediateRepeat'
  BY <1>1 DEF AckInv, NoImmediateRepeat
<1> QED BY <1>3, <1>4, <1>5, TestShape DEF AckInv

\* An acceptance: the number differs from the one before it, and every conn
\* that is still to store ack has this number, or the check was disturbed.
LEMMA AcceptInv ==
  ASSUME Types, AckInv, NEW c \in Conns, TestAck(c), ok'[c] PROVE AckInv'
<1>0. PICK x0 \in Conns : x0 = ctx[c]
  BY TestShape
<1> DEFINE raced == overlap[x0] \/ Disturbed(c)
           r == [seq |-> Seq_(c), raced |-> raced]
<1>1. Seq_(c) \in SeqNums /\ raced \in BOOLEAN /\ Disturbed(c) \in BOOLEAN
  BY <1>0, TestShape, ConstantsAssumption DEF Types, Requests, Seq_, SeqNums, Disturbed
<1>2. /\ accepted' = [accepted EXCEPT ![x0] = Append(@, r)]
      /\ overlap' = [overlap EXCEPT ![x0] = Disturbed(c)]
  BY <1>0 DEF TestAck, RecordTest
<1>3. r \in Checks /\ r.seq = Seq_(c) /\ r.raced = raced
  BY <1>1 DEF Checks
<1>4. /\ \A x \in Conns \ {x0} : overlap'[x] = overlap[x]
      /\ overlap'[x0] = Disturbed(c)
  BY <1>2 DEF Types
<1>5. accepted'[x0] = Append(accepted[x0], r) /\ accepted[x0] \in Seq(Checks)
  BY <1>2 DEF Types
<1>6. /\ \A x \in Conns \ {x0} : accepted'[x] = accepted[x] /\ Last(x)' = Last(x)
      /\ Last(x0)' = Seq_(c)
  <2>1. \A x \in Conns \ {x0} : accepted'[x] = accepted[x]
    BY <1>2 DEF Types
  <2>2. accepted'[x0] # <<>> /\ accepted'[x0][Len(accepted'[x0])] = r
    BY <1>3, <1>5
  <2> QED BY <2>1, <2>2 DEF Last
<1>7. AckIsLast'
  <2>1. Pending(x0)'
    BY <1>0, TestShape DEF Pending
  <2>2. \A x \in Conns : Pending(x) => Pending(x)'
    BY TestShape DEF Pending
  <2> QED BY <1>4, <1>6, <2>1, <2>2, TestShape DEF AckInv, AckIsLast
<1>8. StoreIsLast'
  <2> SUFFICES ASSUME NEW d \in Conns, pc'[d] \in {"recv", "set", "store"},
                      NEW y \in Conns, y = ctx[d], ~overlap'[y]
               PROVE  Seq_(d) = Last(y)'
    <3>1. \A d \in Conns : pc'[d] \in {"recv", "set", "store"} => ctx[d] \in Conns
      BY TestShape DEF Types
    <3> QED BY <3>1, TestShape DEF StoreIsLast, Seq_, Last
  <2>1. CASE d = c
    BY <1>0, <1>6, <2>1
  <2>2. CASE d # c /\ y = x0
    <3>1. pc[d] \in {"set", "store"} /\ d \in Sharers(c)
      BY <1>0, <2>2, TestShape DEF Sharers
    <3> QED BY <1>4, <1>6, <2>2, <3>1 DEF Disturbed, Unstored
  <2>3. CASE y # x0
    <3>1. d # c /\ pc[d] = pc'[d]
      BY <1>0, <2>3, TestShape
    <3> QED BY <1>4, <1>6, <2>3, <3>1 DEF AckInv, StoreIsLast
  <2> QED BY <2>1, <2>2, <2>3
<1>9. NoImmediateRepeat'
  <2> SUFFICES ASSUME NEW x \in Conns, NEW k \in 1..(Len(accepted'[x]) - 1),
                      accepted'[x][k].seq = accepted'[x][k + 1].seq,
                      ~accepted'[x][k + 1].raced
               PROVE  accepted'[x][k].seq = 0
    BY DEF NoImmediateRepeat
  <2>1. CASE x # x0
    BY <1>6, <2>1 DEF AckInv, NoImmediateRepeat
  <2>2. CASE x = x0
    <3> DEFINE s == accepted[x0]
    <3> HIDE DEF r
    <3>1. s \in Seq(Checks) /\ accepted'[x] = Append(s, r)
      BY <1>5, <2>2
    <3>2. k \in 1..Len(s)
      BY <1>3, <3>1
    <3>3. CASE k < Len(s)
      <4>1. k \in 1..(Len(s) - 1) /\ accepted'[x][k] = s[k] /\ accepted'[x][k + 1] = s[k + 1]
        BY <1>3, <3>1, <3>2, <3>3
      <4> QED BY <4>1 DEF AckInv, NoImmediateRepeat
    <3>4. CASE k = Len(s)
      <4>1. accepted'[x][k] = s[Len(s)] /\ accepted'[x][k + 1] = r /\ s # <<>>
        BY <1>3, <3>1, <3>2, <3>4
      <4>2. s[Len(s)].seq = Last(x0)
        BY <4>1 DEF Last
      <4>3. Seq_(c) = Last(x0) /\ ~raced
        BY <1>3, <4>1, <4>2
      <4>4. Ctx(c).ack = Last(x0)
        BY <1>0, <4>3, AckUnderLock
      <4> QED BY <4>1, <4>2, <4>3, <4>4, TestShape
    <3> QED BY <3>2, <3>3, <3>4
  <2> QED BY <2>1, <2>2
<1> QED BY <1>7, <1>8, <1>9, TestShape DEF AckInv

\* Every step keeps the invariant of the repeat check.
LEMMA AckStep == Types /\ AckInv /\ [Next]_vars => AckInv'
<1> SUFFICES ASSUME Types, AckInv, [Next]_vars PROVE AckInv'
  OBVIOUS
<1> USE DEF connVars, ctxVars, checkVars, seqVars, ackHist, Goto, Guarded
<1>1. ASSUME NEW c \in Conns, Arrive(c) PROVE AckInv'
  <2>1. \A d \in Conns \ {c} : ctx'[d] = ctx[d] /\ req'[d] = req[d]
    BY <1>1 DEF Arrive, NewTcpConn, GetUdpNetContext, Types
  <2> QED BY <1>1, <2>1, QuietStep DEF Arrive, Types
<1>2. ASSUME NEW c \in Conns, ReadPacket(c) PROVE AckInv'
  BY <1>2, QuietStep DEF ReadPacket, Types
<1>3. ASSUME NEW c \in Conns, TestAck(c) PROVE AckInv'
  BY <1>3, AcceptInv, RefuseInv
<1>4. ASSUME NEW c \in Conns, SetAck(c) \/ StoreAck(c) PROVE AckInv'
  BY <1>4, StoresInv
<1>5. ASSUME NEW c \in Conns, Decrypt(c) PROVE AckInv'
  <2>1. \A x \in Conns : netctx'[x].ack = netctx[x].ack
    BY <1>5 DEF Decrypt, Types, Fields
  <2> QED BY <1>5, <2>1, QuietStep DEF Decrypt, Types
<1>6. ASSUME NEW c \in Conns, DecryptError(c) PROVE AckInv'
  BY <1>6, QuietStep DEF DecryptError, Types
<1>7. ASSUME NEW c \in Conns, DecryptFatal(c) PROVE AckInv'
  BY <1>7, QuietStep DEF DecryptFatal
<1>9. ASSUME NEW c \in Conns, BeginWriteStream(c) PROVE AckInv'
  <2>1. \A x \in Conns : netctx'[x].ack = netctx[x].ack
    BY <1>9 DEF BeginWriteStream, Types, Fields
  <2> QED BY <1>9, <2>1, QuietStep DEF BeginWriteStream
<1>10. ASSUME NEW c \in Conns, TakeSeq(c) PROVE AckInv'
  <2>1. \A x \in Conns : netctx'[x].ack = netctx[x].ack
    BY <1>10 DEF TakeSeq, Types, Fields
  <2>2. /\ pc[c] = "handle" /\ pc'[c] = "hdr"
        /\ \A d \in Conns \ {c} : pc'[d] = pc[d]
        /\ UNCHANGED <<ackSetChan, accepted, overlap, ctx, req, ok, got>>
    BY <1>10 DEF TakeSeq, CanWrite, Types
  <2> QED BY <2>1, <2>2, QuietStep
<1>11. ASSUME NEW c \in Conns, BuildAckHdr(c) PROVE AckInv'
  <2>1. \A x \in Conns : netctx'[x].ack = netctx[x].ack
    BY <1>11 DEF BuildAckHdr, UpdateIv, Types, Fields
  <2> QED BY <1>11, <2>1, QuietStep DEF BuildAckHdr, Types
<1>12. ASSUME NEW c \in Conns, WriteAckData(c) PROVE AckInv'
  <2>1. \A x \in Conns : netctx'[x].ack = netctx[x].ack
    BY <1>12 DEF WriteAckData, Types, Fields
  <2> QED BY <1>12, <2>1, QuietStep DEF WriteAckData, Types
<1>13. ASSUME NEW c \in Conns, WriteRefused(c) PROVE AckInv'
  BY <1>13, QuietStep DEF WriteRefused, Types
<1>14. ASSUME NEW c \in Conns, WriteRaw(c) PROVE AckInv'
  <2>1. \A x \in Conns : netctx'[x].ack = netctx[x].ack
    BY <1>14 DEF WriteRaw, UpdateIv, Types, Fields
  <2> QED BY <1>14, <2>1, QuietStep DEF WriteRaw
<1>15. ASSUME NEW c \in Conns, Close(c) PROVE AckInv'
  BY <1>15, QuietStep DEF Close, Types
<1>16. ASSUME NEW p \in Peers, Expire(p) PROVE AckInv'
  BY <1>16, QuietStep DEF Expire
<1>17. ASSUME UNCHANGED vars PROVE AckInv'
  BY <1>17, QuietStep DEF vars
<1> QED
  BY <1>1, <1>2, <1>3, LockAckInv, RecvAckInv, <1>4, <1>5, <1>6, <1>7, <1>9, <1>10, <1>11, <1>12, <1>13, <1>14, <1>15, <1>16, <1>17
     DEF Next, ConnStep

-----------------------------------------------------------------------------
\* The types of the session state, for any conns, peers and widths: sequence
\* numbers and the state byte stay in their range when they wrap, the lock
\* channel never holds two numbers, and no handler passes its bound.
THEOREM NetTypes == Spec => []TypeOK
<1>1. Types => TypeOK
  BY DEF Types, TypeOK, Fields, SeqNums, Names
<1> QED BY <1>1, InitInv, TypesStep, PTL DEF Spec

\* A datagram delivered twice in a row is handled once, for any number of
\* concurrent datagrams, unless a store of ack, which comes after the lock is
\* released, disturbed a check since the first time.
THEOREM RepeatsRefused == Spec => []NoImmediateRepeat
<1>1. AckInv => NoImmediateRepeat
  BY DEF AckInv
<1> QED BY <1>1, InitInv, TypesStep, AckStep, PTL DEF Spec

-----------------------------------------------------------------------------
(* Steps of one conn.                                                       *)

\* A step of conn c leaves the other conns and the other contexts alone.
LEMMA OwnStep ==
  ASSUME Types, NEW c \in Conns, Arrive(c) \/ ConnStep(c)
  PROVE  /\ \A d \in Conns \ {c} :
              /\ pc'[d] = pc[d] /\ req'[d] = req[d] /\ ctx'[d] = ctx[d]
              /\ ok'[d] = ok[d] /\ hdr'[d] = hdr[d] /\ out'[d] = out[d]
              /\ streaming'[d] = streaming[d]
         /\ \A x \in Conns : x # ctx[c] => netctx'[x] = netctx[x]
<1> USE DEF connVars, ctxVars, checkVars, seqVars, ackHist, Goto, Types
<1> DEFINE Own == /\ \A d \in Conns \ {c} :
                       /\ pc'[d] = pc[d] /\ req'[d] = req[d] /\ ctx'[d] = ctx[d]
                       /\ ok'[d] = ok[d] /\ hdr'[d] = hdr[d] /\ out'[d] = out[d]
                       /\ streaming'[d] = streaming[d]
                  /\ \A x \in Conns : x # ctx[c] => netctx'[x] = netctx[x]
<1>1. CASE Arrive(c)
  BY <1>1 DEF Arrive, NewTcpConn, GetUdpNetContext
<1>2. CASE ReadPacket(c) \/ DecryptError(c) \/ DecryptFatal(c)
             \/ WriteRefused(c) \/ Close(c)
  BY <1>2 DEF ReadPacket, DecryptError, DecryptFatal, WriteRefused, Close
<1>3. CASE LockAck(c)
  BY <1>3 DEF LockAck
<1>4. CASE TestAck(c)
  BY <1>4 DEF TestAck
<1>5. CASE RecvAck(c) \/ SetAck(c)
  BY <1>5 DEF RecvAck, SetAck
<1>6. CASE StoreAck(c)
  BY <1>6 DEF StoreAck
<1>7. CASE Decrypt(c)
  BY <1>7 DEF Decrypt
<1>8. CASE BeginWriteStream(c)
  BY <1>8 DEF BeginWriteStream
<1>9. CASE TakeSeq(c)
  BY <1>9 DEF TakeSeq
<1>10. CASE BuildAckHdr(c)
  BY <1>10 DEF BuildAckHdr
<1>11. CASE WriteAckData(c)
  BY <1>11 DEF WriteAckData
<1>12. CASE WriteRaw(c)
  BY <1>12 DEF WriteRaw
<1> QED BY <1>1, <1>2, <1>3, <1>4, <1>5, <1>6, <1>7, <1>8, <1>9, <1>10, <1>11, <1>12
        DEF ConnStep

\* After its arrival a conn keeps its packet and its context, and the cache
\* is as it was.
LEMMA Settled ==
  ASSUME Types, NEW c \in Conns, ConnStep(c)
  PROVE  UNCHANGED <<req, ctx, gUdpNetContext, epoch>> /\ pc[c] # "idle" /\ pc'[c] # "idle"
<1> USE DEF connVars, ctxVars, Goto, Types
<1>1. UNCHANGED <<req, ctx, gUdpNetContext, epoch>>
  BY DEF ConnStep, ReadPacket, LockAck, TestAck, RecvAck, SetAck, StoreAck,
         Decrypt, DecryptError, DecryptFatal, BeginWriteStream, TakeSeq, BuildAckHdr,
         WriteAckData, WriteRefused, WriteRaw, Close
<1>2. pc[c] # "idle" /\ pc'[c] # "idle"
  BY DEF ConnStep, ReadPacket, LockAck, TestAck, RecvAck, SetAck, StoreAck,
         Decrypt, DecryptError, DecryptFatal, BeginWriteStream, TakeSeq, BuildAckHdr,
         WriteAckData, WriteRefused, WriteRaw, Close, CanWrite
<1> QED BY <1>1, <1>2

\* A conn that has arrived stays, with its packet and its context.
LEMMA ArrivedStays ==
  ASSUME Types, NEW c \in Conns, Arrive(c) \/ ConnStep(c)
  PROVE  \A d \in Conns : Arrived(d) => Arrived(d)' /\ ctx'[d] = ctx[d] /\ req'[d] = req[d]
<1>1. CASE Arrive(c)
  <2>1. pc[c] = "idle"
    BY <1>1 DEF Arrive
  <2> QED BY <1>1, <2>1, OwnStep DEF Arrived
<1>2. CASE ConnStep(c)
  BY <1>2, OwnStep, Settled DEF Arrived
<1> QED BY <1>1, <1>2

-----------------------------------------------------------------------------
(* Contexts.                                                                *)

\* The context of a conn was created by a conn of the same peer since the
\* peer's entry last expired, by the conn itself on TCP; the cache holds the
\* context of the datagrams that came since then.
Founded(c) ==
  LET x == ctx[c]
  IN  /\ Arrived(x) /\ ctx[x] = x
      /\ req[x].peer = req[c].peer /\ req[x].epoch = req[c].epoch
      /\ req[c].peer \in TcpPeers => x = c

Cached(p) ==
  LET x == gUdpNetContext[p]
  IN  x # None => /\ x \in Conns /\ Arrived(x) /\ ctx[x] = x
                  /\ req[x].peer = p /\ req[x].epoch = epoch[p] /\ p \notin TcpPeers

Current(c) ==
  /\ req[c].epoch <= epoch[req[c].peer]
  /\ req[c].peer \notin TcpPeers /\ req[c].epoch = epoch[req[c].peer]
       => gUdpNetContext[req[c].peer] = ctx[c]

CtxInv ==
  /\ \A c \in Conns : pc[c] = "idle" => ctx[c] = None
  /\ \A c \in Conns : Arrived(c) => Founded(c) /\ Current(c)
  /\ \A p \in Peers : Cached(p)
  /\ \A c, d \in Conns : Arrived(c) /\ Arrived(d) /\ SamePeer(c, d) => ctx[c] = ctx[d]

LEMMA CtxInit == Init => CtxInv
BY DEF Init, CtxInv, Arrived, Cached

\* A step that moves no conn from or to "idle" and leaves packets, contexts and
\* cache alone.
LEMMA SameContexts ==
  ASSUME CtxInv, UNCHANGED <<req, ctx, gUdpNetContext, epoch>>,
         \A d \in Conns : pc'[d] = "idle" <=> pc[d] = "idle", Types
  PROVE  CtxInv'
<1>1. \A d \in Conns : Arrived(d)' <=> Arrived(d)
  BY DEF Arrived
<1>2. \A d \in Conns : Arrived(d) => ctx[d] \in Conns
  BY DEF Arrived, Types
<1>3. \A c \in Conns : Arrived(c) => (Founded(c) => Founded(c)') /\ (Current(c) => Current(c)')
  BY <1>1, <1>2 DEF Founded, Current
<1>4. \A p \in Peers : Cached(p) => Cached(p)'
  BY <1>1 DEF Cached
<1>5. \A c, d \in Conns : SamePeer(c, d)' <=> SamePeer(c, d)
  BY DEF SamePeer
<1> QED BY <1>1, <1>3, <1>4, <1>5 DEF CtxInv

\* The packet of the conn that arrives, and the context it gets: its own, or
\* the one in the cache, which is of its peer and epoch.
LEMMA ArriveShape ==
  ASSUME Types, CtxInv, NEW c \in Conns, Arrive(c)
  PROVE  \E p \in Peers, x \in Conns :
           /\ req'[c].peer = p /\ req'[c].epoch = epoch[p] /\ ctx'[c] = x
           /\ pc[c] = "idle" /\ pc'[c] = "read" /\ epoch' = epoch
           /\ x = c \/ (p \notin TcpPeers /\ gUdpNetContext[p] = x)
           /\ IF p \in TcpPeers THEN x = c /\ gUdpNetContext' = gUdpNetContext
              ELSE /\ gUdpNetContext' = [gUdpNetContext EXCEPT ![p] = x]
                   /\ gUdpNetContext[p] # None => gUdpNetContext[p] = x
<1>1. PICK p \in Peers, s \in Seqs, syn \in Syns : req' = [req EXCEPT ![c] =
        [peer |-> p, seq |-> s, syn |-> syn, epoch |-> epoch[p]]]
  BY DEF Arrive
<1>2. req'[c].peer = p /\ req'[c].epoch = epoch[p]
  BY <1>1 DEF Types
<1>3. pc[c] = "idle" /\ pc'[c] = "read" /\ epoch' = epoch
  BY DEF Arrive, Goto, Types
<1>4. CASE NewTcpConn(c)
  <2>1. p \in TcpPeers /\ ctx'[c] = c /\ gUdpNetContext' = gUdpNetContext
    BY <1>2, <1>4 DEF NewTcpConn, Types
  <2> QED BY <1>2, <1>3, <2>1
<1>5. CASE GetUdpNetContext(c)
  <2> DEFINE x == IF gUdpNetContext[p] = None THEN c ELSE gUdpNetContext[p]
  <2>1. x \in Conns /\ (x = c \/ gUdpNetContext[p] = x)
    BY DEF Types, Names
  <2>2. p \notin TcpPeers /\ ctx'[c] = x /\ gUdpNetContext' = [gUdpNetContext EXCEPT ![p] = x]
    BY <1>2, <1>5 DEF GetUdpNetContext, CacheGet, Types
  <2> QED BY <1>2, <1>3, <2>1, <2>2
<1> QED BY <1>4, <1>5 DEF Arrive

LEMMA ArriveContexts ==
  ASSUME Types, CtxInv, NEW c \in Conns, Arrive(c)
  PROVE  CtxInv'
<1>1. PICK p \in Peers, x \in Conns :
        /\ req'[c].peer = p /\ req'[c].epoch = epoch[p] /\ ctx'[c] = x
        /\ pc[c] = "idle" /\ pc'[c] = "read" /\ epoch' = epoch
        /\ x = c \/ (p \notin TcpPeers /\ gUdpNetContext[p] = x)
        /\ IF p \in TcpPeers THEN x = c /\ gUdpNetContext' = gUdpNetContext
           ELSE /\ gUdpNetContext' = [gUdpNetContext EXCEPT ![p] = x]
                /\ gUdpNetContext[p] # None => gUdpNetContext[p] = x
  BY ArriveShape
<1>2. \A d \in Conns \ {c} : /\ pc'[d] = pc[d] /\ req'[d] = req[d] /\ ctx'[d] = ctx[d]
                             /\ Arrived(d)' <=> Arrived(d)
  BY OwnStep DEF Arrived
<1>3. \A d \in Conns : Arrived(d) => d # c /\ ctx[d] \in Conns /\ ctx[d] # c
  BY <1>1 DEF CtxInv, Founded, Arrived, Types
<1>4. \A q \in Peers : gUdpNetContext[q] # c
  BY <1>1, ConstantsAssumption DEF CtxInv, Cached, Arrived
\* The context it gets is founded by a conn of the same peer and epoch.
<1>5. /\ Arrived(x)' /\ ctx'[x] = x /\ req'[x].peer = p /\ req'[x].epoch = epoch[p]
      /\ p \in TcpPeers => x = c
  <2>1. CASE x = c
    BY <1>1, <2>1 DEF Arrived
  <2>2. CASE x # c
    <3>1. gUdpNetContext[p] = x /\ Cached(p) /\ x # None
      BY <1>1, <2>2, ConstantsAssumption DEF CtxInv
    <3>2. Arrived(x) /\ ctx[x] = x /\ req[x].peer = p /\ req[x].epoch = epoch[p] /\ p \notin TcpPeers
      BY <3>1 DEF Cached
    <3> QED BY <1>2, <2>2, <3>2
  <2> QED BY <2>1, <2>2
<1>6. \A d \in Conns : Arrived(d)' => Founded(d)'
  <2> SUFFICES ASSUME NEW d \in Conns, Arrived(d)' PROVE Founded(d)'
    OBVIOUS
  <2>1. CASE d = c
    BY <1>1, <1>5, <2>1 DEF Founded
  <2>2. CASE d # c
    <3>1. Arrived(d) /\ Founded(d) /\ ctx[d] \in Conns \ {c}
      BY <1>2, <1>3, <2>2 DEF CtxInv
    <3> QED BY <1>2, <2>2, <3>1 DEF Founded
  <2> QED BY <2>1, <2>2
\* A datagram of this epoch finds the entry as the ones before it left it.
<1>7. ASSUME NEW d \in Conns \ {c}, Arrived(d), req[d].peer = p, req[d].epoch = epoch[p],
             p \notin TcpPeers
      PROVE  ctx[d] = x
  <2>1. gUdpNetContext[p] = ctx[d] /\ ctx[d] # None
    BY <1>3, <1>7, ConstantsAssumption DEF CtxInv, Current
  <2> QED BY <1>1, <1>7, <2>1
<1>8. \A d \in Conns : Arrived(d)' => Current(d)'
  <2> SUFFICES ASSUME NEW d \in Conns, Arrived(d)' PROVE Current(d)'
    OBVIOUS
  <2>1. CASE d = c
    <3>1. epoch[p] <= epoch[p]
      BY DEF Types
    <3>2. p \notin TcpPeers => gUdpNetContext'[p] = x
      BY <1>1 DEF Types
    <3> QED BY <1>1, <2>1, <3>1, <3>2 DEF Current
  <2>2. CASE d # c
    <3>1. Arrived(d) /\ Current(d)
      BY <1>2, <2>2 DEF CtxInv
    <3>2. CASE req[d].peer = p
      BY <1>1, <1>2, <1>7, <2>2, <3>1, <3>2 DEF Current, Types
    <3>3. CASE req[d].peer # p
      <4>1. req[d].peer \in Peers
        BY <3>1 DEF Types, Arrived, Requests
      <4>2. gUdpNetContext'[req[d].peer] = gUdpNetContext[req[d].peer]
        BY <1>1, <3>3, <4>1 DEF Types
      <4> QED BY <1>1, <1>2, <2>2, <3>1, <4>2 DEF Current
    <3> QED BY <3>2, <3>3
  <2> QED BY <2>1, <2>2
<1>9. ASSUME NEW q \in Peers PROVE Cached(q)'
  <2>1. CASE q = p /\ p \notin TcpPeers
    <3>1. gUdpNetContext'[q] = x
      BY <1>1, <2>1 DEF Types
    <3> QED BY <1>1, <1>5, <2>1, <3>1 DEF Cached
  <2>2. CASE ~(q = p /\ p \notin TcpPeers)
    <3> PICK y : y = gUdpNetContext[q]
      OBVIOUS
    <3>1. gUdpNetContext'[q] = y /\ y # c
      BY <1>1, <1>4, <2>2 DEF Types
    <3>2. Cached(q)
      BY DEF CtxInv
    <3>3. CASE y = None
      BY <3>1, <3>3 DEF Cached
    <3>4. CASE y # None
      <4>1. /\ y \in Conns \ {c} /\ Arrived(y) /\ ctx[y] = y
            /\ req[y].peer = q /\ req[y].epoch = epoch[q] /\ q \notin TcpPeers
        BY <3>1, <3>2, <3>4 DEF Cached
      <4>2. /\ Arrived(y)' /\ ctx'[y] = y /\ req'[y].peer = q /\ req'[y].epoch = epoch'[q]
        BY <1>1, <1>2, <4>1
      <4> QED BY <3>1, <4>1, <4>2 DEF Cached
    <3> QED BY <3>3, <3>4
  <2> QED BY <2>1, <2>2
<1>10. ASSUME NEW d \in Conns, NEW e \in Conns, Arrived(d)', Arrived(e)', SamePeer(d, e)'
       PROVE  ctx'[d] = ctx'[e]
  <2>1. CASE d # c /\ e # c
    BY <1>2, <1>10, <2>1 DEF CtxInv, SamePeer
  <2>2. CASE d = c /\ e # c
    BY <1>1, <1>2, <1>7, <1>10, <2>2 DEF SamePeer
  <2>3. CASE d # c /\ e = c
    BY <1>1, <1>2, <1>7, <1>10, <2>3 DEF SamePeer
  <2> QED BY <2>1, <2>2, <2>3
<1>11. \A d \in Conns : pc'[d] = "idle" => ctx'[d] = None
  BY <1>1, <1>2 DEF CtxInv
<1> QED BY <1>6, <1>8, <1>9, <1>10, <1>11 DEF CtxInv

\* After the expiry no datagram is of the new epoch yet.
LEMMA ExpireContexts ==
  ASSUME Types, CtxInv, NEW p \in Peers, Expire(p)
  PROVE  CtxInv'
<1> USE DEF connVars
<1>1. /\ UNCHANGED <<pc, req, ctx>>
      /\ epoch' = [epoch EXCEPT ![p] = epoch[p] + 1]
      /\ gUdpNetContext' = [gUdpNetContext EXCEPT ![p] = None]
  BY DEF Expire
<1>2. epoch'[p] = epoch[p] + 1 /\ epoch[p] \in Nat /\ gUdpNetContext'[p] = None
        /\ \A q \in Peers \ {p} : epoch'[q] = epoch[q] /\ gUdpNetContext'[q] = gUdpNetContext[q]
  BY <1>1 DEF Types
<1>3. \A c \in Conns : Arrived(c)' => Founded(c)' /\ Current(c)'
  <2> SUFFICES ASSUME NEW c \in Conns, Arrived(c)' PROVE Founded(c)' /\ Current(c)'
    OBVIOUS
  <2>1. Arrived(c) /\ Founded(c) /\ Current(c) /\ req[c] \in Requests
    BY <1>1 DEF CtxInv, Arrived, Types
  <2>2. Founded(c)'
    BY <1>1, <2>1 DEF Founded, Arrived
  <2>3. Current(c)'
    <3>1. CASE req[c].peer = p
      <4>1. req[c].epoch \in Nat /\ req[c].epoch <= epoch[p]
        BY <2>1, <3>1 DEF Current, Requests
      <4>2. req[c].epoch <= epoch[p] + 1 /\ req[c].epoch # epoch[p] + 1
        BY <1>2, <4>1
      <4> QED BY <1>1, <1>2, <3>1, <4>2 DEF Current
    <3>2. CASE req[c].peer # p
      <4>1. req[c].peer \in Peers
        BY <2>1 DEF Requests
      <4> QED BY <1>1, <1>2, <2>1, <3>2, <4>1 DEF Current
    <3> QED BY <3>1, <3>2
  <2> QED BY <2>2, <2>3
<1>4. \A q \in Peers : Cached(q)'
  BY <1>1, <1>2 DEF CtxInv, Cached, Arrived
<1> QED BY <1>1, <1>3, <1>4 DEF CtxInv, Arrived, SamePeer

LEMMA CtxStep == Types /\ CtxInv /\ [Next]_vars => CtxInv'
<1> SUFFICES ASSUME Types, CtxInv, [Next]_vars PROVE CtxInv'
  OBVIOUS
<1>1. ASSUME NEW c \in Conns, ConnStep(c) PROVE CtxInv'
  BY <1>1, OwnStep, Settled, SameContexts
<1>2. CASE UNCHANGED vars
  BY <1>2, SameContexts DEF vars, connVars, ctxVars
<1> QED BY <1>1, <1>2, ArriveContexts, ExpireContexts DEF Next

\* Whatever the order in which datagrams arrive and cache entries expire, two
\* conns share a NetContext exactly if they are datagrams of one peer between
\* which its entry in gUdpNetContext did not expire.
THEOREM ContextPerPeerAlways == Spec => []ContextPerPeer
<1>1. Types /\ CtxInv => ContextPerPeer
  <2> SUFFICES ASSUME Types, CtxInv, NEW c \in Conns, NEW d \in Conns, Arrived(c), Arrived(d)
               PROVE  ctx[c] = ctx[d] <=> c = d \/ SamePeer(c, d)
    BY DEF ContextPerPeer
  <2>1. Founded(c) /\ Founded(d)
    BY DEF CtxInv
  <2>2. ctx[c] = ctx[d] => c = d \/ SamePeer(c, d)
    BY <2>1 DEF Founded, SamePeer
  <2>3. c = d \/ SamePeer(c, d) => ctx[c] = ctx[d]
    BY DEF CtxInv
  <2> QED BY <2>2, <2>3
<1> QED BY <1>1, InitInv, CtxInit, TypesStep, CtxStep, PTL DEF Spec

-----------------------------------------------------------------------------
(* Streams.                                                                 *)

\* A context is in stream mode because one of its conns asked for it, and a
\* conn that asked for it finds it so for ever after.
StreamAsked(x) == \E d \in Conns : ctx[d] = x /\ streaming[d] # "no"

StreamInv ==
  /\ streaming \in [Conns -> {"no", "yes", "late"}]
  /\ \A x \in Conns : netctx[x].stream => StreamAsked(x)
  /\ \A c \in Conns : streaming[c] # "no" => Arrived(c) /\ Ctx(c).stream
  /\ \A c \in Conns : pc[c] = "panicked" => Ctx(c).stream

LEMMA StreamInit == Init => StreamInv
BY DEF Init, StreamInv, NewNetContext

\* Only BeginWriteStream touches the mode.
LEMMA StreamsKept ==
  ASSUME Types, NEW c \in Conns, Arrive(c) \/ ConnStep(c), ~BeginWriteStream(c)
  PROVE  streaming' = streaming /\ \A x \in Conns : netctx'[x].stream = netctx[x].stream
<1>1. streaming' = streaming
  BY DEF Arrive, ConnStep, ReadPacket, LockAck, TestAck, RecvAck, SetAck, StoreAck,
         Decrypt, DecryptError, DecryptFatal, TakeSeq, BuildAckHdr,
         WriteAckData, WriteRefused, WriteRaw, Close
<1>2. CASE UNCHANGED netctx
  BY <1>1, <1>2
<1>3. CASE SetAck(c)
  BY <1>1, <1>3 DEF SetAck, Types, Fields
<1>4. CASE StoreAck(c)
  BY <1>1, <1>4 DEF StoreAck, Types, Fields
<1>5. CASE TakeSeq(c)
  BY <1>1, <1>5 DEF TakeSeq, Types, Fields
<1>6. CASE WriteAckData(c)
  BY <1>1, <1>6 DEF WriteAckData, Types, Fields
<1>7. CASE Decrypt(c)
  BY <1>1, <1>7 DEF Decrypt, Types, Fields
<1>8. CASE BuildAckHdr(c) \/ WriteRaw(c)
  <2>1. netctx' = [netctx EXCEPT ![ctx[c]] = UpdateIv(@)]
    BY <1>8 DEF BuildAckHdr, WriteRaw
  <2>2. \A k \in Fields : UpdateIv(k).stream = k.stream
    BY DEF UpdateIv, Fields
  <2> QED BY <1>1, <2>1, <2>2 DEF Types
<1> QED BY <1>2, <1>3, <1>4, <1>5, <1>6, <1>7, <1>8
        DEF Arrive, ConnStep, ReadPacket, LockAck, TestAck, RecvAck,
            DecryptError, DecryptFatal, WriteRefused, Close

\* A step that keeps the modes and the contexts of the conns, and refuses no
\* write on a context that is not in stream mode.
LEMMA SameStreams ==
  ASSUME Types, StreamInv, streaming' = streaming,
         \A x \in Conns : netctx'[x].stream = netctx[x].stream,
         \A d \in Conns : Arrived(d) => Arrived(d)' /\ ctx'[d] = ctx[d],
         \A d \in Conns : pc'[d] = "panicked" => Arrived(d) /\ Ctx(d).stream
  PROVE  StreamInv'
<1>1. \A d \in Conns : Arrived(d) => ctx[d] \in Conns
  BY DEF Arrived, Types
<1>2. ASSUME NEW x \in Conns, netctx'[x].stream PROVE StreamAsked(x)'
  <2>1. PICK d \in Conns : ctx[d] = x /\ streaming[d] # "no"
    BY <1>2 DEF StreamInv, StreamAsked
  <2>2. ctx'[d] = x /\ streaming'[d] # "no"
    BY <2>1 DEF StreamInv
  <2> QED BY <2>2 DEF StreamAsked
<1>3. \A c \in Conns : streaming'[c] # "no" => Arrived(c)' /\ Ctx(c)'.stream
  BY <1>1 DEF StreamInv, Ctx
<1>4. \A c \in Conns : pc'[c] = "panicked" => Ctx(c)'.stream
  BY <1>1 DEF StreamInv, Ctx
<1> QED BY <1>2, <1>3, <1>4 DEF StreamInv

LEMMA BeginStreams ==
  ASSUME Types, StreamInv, NEW c \in Conns, BeginWriteStream(c)
  PROVE  StreamInv'
<1>1. /\ UNCHANGED <<pc, ctx>> /\ ctx[c] \in Conns /\ pc[c] = "handle"
      /\ streaming' = [streaming EXCEPT ![c] = IF out[c] = <<>> THEN "yes" ELSE "late"]
  BY DEF BeginWriteStream, CanWrite, connVars, Types
<1>2. streaming' \in [Conns -> {"no", "yes", "late"}]
  BY <1>1 DEF StreamInv
<1>3. streaming'[c] # "no" /\ \A d \in Conns \ {c} : streaming'[d] = streaming[d]
  BY <1>1 DEF StreamInv
<1>4. \A x \in Conns : IF x = ctx[c] THEN netctx'[x].stream
                       ELSE netctx'[x].stream = netctx[x].stream
  <2>1. PICK n \in Sizes :
          netctx' = [netctx EXCEPT ![ctx[c]].stream = TRUE, ![ctx[c]].size = n]
    BY DEF BeginWriteStream
  <2> QED BY <1>1, <2>1 DEF Types, Fields
<1>5. ASSUME NEW x \in Conns, netctx'[x].stream PROVE StreamAsked(x)'
  BY <1>1, <1>3, <1>4, <1>5 DEF StreamInv, StreamAsked
<1>6. \A d \in Conns : streaming'[d] # "no" => Arrived(d)' /\ Ctx(d)'.stream
  <2> SUFFICES ASSUME NEW d \in Conns, streaming'[d] # "no" PROVE Arrived(d)' /\ Ctx(d)'.stream
    OBVIOUS
  <2>1. CASE d = c
    BY <1>1, <1>4, <2>1 DEF Arrived, Ctx
  <2>2. CASE d # c
    <3>1. Arrived(d) /\ Ctx(d).stream /\ ctx[d] \in Conns
      BY <1>3, <2>2 DEF StreamInv, Arrived, Types
    <3> QED BY <1>1, <1>4, <3>1 DEF Arrived, Ctx
  <2> QED BY <2>1, <2>2
<1>7. \A d \in Conns : pc'[d] = "panicked" => Ctx(d)'.stream
  <2> SUFFICES ASSUME NEW d \in Conns, pc'[d] = "panicked" PROVE Ctx(d)'.stream
    OBVIOUS
  <2>1. Ctx(d).stream /\ ctx[d] \in Conns
    BY <1>1 DEF StreamInv, Types
  <2> QED BY <1>1, <1>4, <2>1 DEF Ctx
<1> QED BY <1>2, <1>5, <1>6, <1>7 DEF StreamInv

LEMMA StreamStep == Types /\ StreamInv /\ [Next]_vars => StreamInv'
<1> SUFFICES ASSUME Types, StreamInv, [Next]_vars PROVE StreamInv'
  OBVIOUS
<1>1. ASSUME NEW c \in Conns, Arrive(c) \/ ConnStep(c), ~BeginWriteStream(c) PROVE StreamInv'
  <2>1. \A d \in Conns : Arrived(d) => Arrived(d)' /\ ctx'[d] = ctx[d]
    BY <1>1, ArrivedStays
  <2>2. pc'[c] = "panicked" => (pc[c] = "enc" /\ Ctx(c).stream) \/ pc[c] = "panicked"
    BY <1>1 DEF Arrive, ConnStep, ReadPacket, LockAck, TestAck, RecvAck, SetAck, StoreAck,
         Decrypt, DecryptError, DecryptFatal, TakeSeq, BuildAckHdr,
         WriteAckData, WriteRefused, WriteRaw, Close, Goto, CanWrite, StreamRefused, Types
  <2>3. \A d \in Conns : pc'[d] = "panicked" => Arrived(d) /\ Ctx(d).stream
    BY <1>1, <2>2, OwnStep DEF Arrived, StreamInv
  <2> QED BY <1>1, <2>1, <2>3, StreamsKept, SameStreams
<1>2. CASE UNCHANGED vars
  BY <1>2, SameStreams DEF vars, connVars, Arrived, StreamInv
<1>3. ASSUME NEW p \in Peers, Expire(p) PROVE StreamInv'
  BY <1>3, SameStreams DEF Expire, connVars, Arrived, StreamInv
<1> QED BY <1>1, <1>2, <1>3, BeginStreams DEF Next

\* WriteAckData refuses a write (its stream checks panic) only on a context on
\* which some conn called BeginWriteStream.
THEOREM RefusedOnlyAfterStreamAlways == Spec => []RefusedOnlyAfterStream
<1>1. Types /\ StreamInv => RefusedOnlyAfterStream
  <2> SUFFICES ASSUME Types, StreamInv, NEW c \in Conns, pc[c] = "panicked"
               PROVE  \E d \in Sharers(c) \cup {c} : streaming[d] # "no"
    BY DEF RefusedOnlyAfterStream
  <2>1. ctx[c] \in Conns /\ Ctx(c).stream
    BY DEF StreamInv, Types
  <2>2. PICK d \in Conns : ctx[d] = ctx[c] /\ streaming[d] # "no"
    BY <2>1 DEF StreamInv, StreamAsked, Ctx
  <2> QED BY <2>2 DEF Sharers
<1> QED BY <1>1, InitInv, StreamInit, TypesStep, StreamStep, PTL DEF Spec

-----------------------------------------------------------------------------
(* Answers.                                                                 *)

\* The iv that answers to conn c are encrypted with, given the number of the
\* first one, and what the header of the first one must be.
IvOf(c, n) == [recviv |-> c, seq |-> n, recvsig |-> c]

HeaderOf(c, h) ==
  IF req[c].syn THEN h.type = 2
  ELSE /\ h.type \in {3, 4}
       /\ streaming[c] = "yes" => h.type = 4
       /\ h.type = 4 => StreamAsked(ctx[c])

\* What DecodeData leaves in the context, and what is left of it once the
\* header of the first answer, numbered n, is built.
Decrypted(c, k) ==
  /\ k.recvsig = c /\ k.recviv = c /\ k.aeskey = c /\ k.updateiv
  /\ k.state = IF req[c].syn THEN 2 ELSE 10

Keyed(c, k, n) == k.aeskey = c /\ ~k.updateiv /\ k.sendiv = IvOf(c, n)

\* The context of conn c at each point between acceptance and end, as long as
\* no other accepted conn touches it.
Session(c) ==
  /\ pc[c] \notin {"recv", "set"} => Ctx(c).ack = Seq_(c)
  /\ pc[c] = "decrypt" => Ctx(c).recvsig = c
  /\ pc[c] = "hdr" => Decrypted(c, Ctx(c))
  /\ pc[c] \in {"hdr", "enc"} => out[c] = <<>>
  /\ pc[c] = "handle" /\ out[c] = <<>> => Decrypted(c, Ctx(c))
  /\ pc[c] = "handle" /\ out[c] # <<>> =>
       Keyed(c, Ctx(c), out[c][1].seq) /\ Ctx(c).state \in {3, 11}
  /\ pc[c] = "enc" => /\ Keyed(c, Ctx(c), hdr[c].seq) /\ HeaderOf(c, hdr[c])
                       /\ Ctx(c).state = IF req[c].syn THEN 2 ELSE 10

\* No other conn on the context is past acceptance, and a repeat that is about
\* to store its number stores that of c.
Exclusive(c) == \A d \in Sharers(c) :
  ~Active(d) /\ (pc[d] \in {"recv", "set"} => Seq_(d) = Seq_(c))

BeforeHandler ==
  {"idle", "read", "lock", "test", "recv", "set", "store", "decrypt"}

Silent(c) == pc[c] \in BeforeHandler => out[c] = <<>>

Matches(c) == \A k \in 1..Len(out[c]) :
  /\ out[c][k].data.key = c /\ out[c][k].data.iv = IvOf(c, out[c][1].seq)
  /\ k = 1 => out[c][k].ack = (Seq_(c) + 1) % SeqSize /\ HeaderOf(c, out[c][k])
  /\ k # 1 => out[c][k].type = 0

AnswerInv ==
  /\ alone \in [Conns -> BOOLEAN]
  /\ \A c \in Conns : Silent(c)
  /\ \A c \in Conns : alone[c] /\ Active(c) => Exclusive(c) /\ Session(c)
  /\ \A c \in Conns : alone[c] => Matches(c)

LEMMA AnswerInit == Init => AnswerInv
BY DEF Init, AnswerInv, Silent

\* The request for a stream on a context is never forgotten.
LEMMA AskedStays ==
  ASSUME Types, StreamInv, NEW c \in Conns, Arrive(c) \/ ConnStep(c), NEW x, StreamAsked(x)
  PROVE  StreamAsked(x)'
<1>1. PICK d \in Conns : ctx[d] = x /\ streaming[d] # "no"
  BY DEF StreamAsked
<1>2. Arrived(d) /\ ctx'[d] = x
  BY <1>1, ArrivedStays DEF StreamInv
<1>3. streaming'[d] # "no"
  <2>1. CASE BeginWriteStream(c)
    BY <1>1, <2>1 DEF BeginWriteStream, StreamInv
  <2>2. CASE ~BeginWriteStream(c)
    BY <1>1, <2>2, StreamsKept
  <2> QED BY <2>1, <2>2
<1> QED BY <1>2, <1>3 DEF StreamAsked

\* A header that was right stays right, unless its conn asks for a stream
\* before it wrote anything.
LEMMA HeaderStays ==
  ASSUME Types, StreamInv, NEW c \in Conns, Arrive(c) \/ ConnStep(c),
         NEW e \in Conns, Arrived(e), streaming'[e] = "yes" => streaming[e] = "yes",
         NEW h, HeaderOf(e, h)
  PROVE  HeaderOf(e, h)'
<1>1. ctx'[e] = ctx[e] /\ req'[e] = req[e]
  BY ArrivedStays
<1>2. PICK x : x = ctx[e]
  OBVIOUS
<1>3. StreamAsked(x) => StreamAsked(x)'
  BY AskedStays
<1>4. ctx'[e] = x
  BY <1>1, <1>2
<1> QED BY <1>1, <1>2, <1>3, <1>4 DEF HeaderOf, StreamAsked

\* Only a test of ack changes which conns are alone.
LEMMA AloneStays ==
  ASSUME NEW c \in Conns, Arrive(c) \/ ConnStep(c), ~TestAck(c)
  PROVE  alone' = alone
BY DEF ackHist, Arrive, ConnStep, ReadPacket, LockAck, RecvAck, SetAck, StoreAck,
       Decrypt, DecryptError, DecryptFatal, BeginWriteStream, TakeSeq, BuildAckHdr,
       WriteAckData, WriteRefused, WriteRaw, Close

\* A conn is alone after a test only if the test did not make it interfere.
LEMMA AloneTested ==
  ASSUME NEW c \in Conns, TestAck(c)
  PROVE  /\ alone' \in [Conns -> BOOLEAN]
         /\ alone'[c] => ok'[c] /\ \A d \in Sharers(c) : ~Interferes(d, c)
         /\ \A e \in Conns \ {c} : alone'[e] =>
              alone[e] /\ (e \in Sharers(c) => ~Interferes(e, c))
<1> DEFINE others == {d \in Sharers(c) : Interferes(d, c)}
<1>1. alone' = [d \in Conns |-> IF d = c THEN ok'[c] /\ others = {}
                                ELSE alone[d] /\ d \notin others]
  BY DEF TestAck, RecordTest
<1>2. \A d \in Conns : (IF d = c THEN ok'[c] /\ others = {}
                        ELSE alone[d] /\ d \notin others) \in BOOLEAN
  OBVIOUS
<1>3. alone' \in [Conns -> BOOLEAN]
  BY <1>1, <1>2
<1>4. alone'[c] => ok'[c] /\ others = {}
  BY <1>1
<1>5. \A e \in Conns \ {c} : alone'[e] => alone[e] /\ e \notin others
  BY <1>1
<1> QED BY <1>3, <1>4, <1>5

\* Another conn's step makes no conn alone.
LEMMA AloneBefore ==
  ASSUME NEW d \in Conns, Arrive(d) \/ ConnStep(d), NEW e \in Conns \ {d}, alone'[e]
  PROVE  alone[e]
<1>1. CASE TestAck(d)
  BY <1>1, AloneTested
<1>2. CASE ~TestAck(d)
  BY <1>2, AloneStays
<1> QED BY <1>1, <1>2

\* No conn writes before its handler runs.
LEMMA SilentStep ==
  ASSUME Types, NEW c \in Conns, Arrive(c) \/ ConnStep(c), NEW e \in Conns, Silent(e)
  PROVE  Silent(e)'
<1>1. CASE e # c
  BY <1>1, OwnStep DEF Silent
<1>2. pc'[c] \in BeforeHandler => pc[c] \in BeforeHandler /\ out'[c] = out[c]
  <2> USE DEF Goto, Types, BeforeHandler
  <2>1. CASE Arrive(c)
    BY <2>1 DEF Arrive
  <2>2. CASE ReadPacket(c) \/ LockAck(c) \/ TestAck(c) \/ RecvAck(c)
    BY <2>2 DEF ReadPacket, LockAck, TestAck, RecvAck
  <2>3. CASE SetAck(c) \/ StoreAck(c) \/ Decrypt(c)
    BY <2>3 DEF SetAck, StoreAck, Decrypt
  <2>4. CASE DecryptError(c) \/ DecryptFatal(c) \/ BeginWriteStream(c)
    BY <2>4 DEF DecryptError, DecryptFatal, BeginWriteStream
  <2>5. pc'[c] \notin BeforeHandler
        \/ ~(TakeSeq(c) \/ BuildAckHdr(c) \/ WriteAckData(c) \/ WriteRefused(c) \/ Close(c))
    BY DEF TakeSeq, BuildAckHdr, WriteAckData, WriteRefused, Close
  <2>6. CASE WriteRaw(c)
    BY <2>6 DEF WriteRaw, CanWrite
  <2> QED BY <2>1, <2>2, <2>3, <2>4, <2>5, <2>6 DEF ConnStep
<1>3. CASE e = c
  BY <1>2, <1>3 DEF Silent
<1> QED BY <1>1, <1>3

\* Nothing that another conn d does disturbs the session of e while e remains
\* alone: a conn past acceptance has another context, and of the others only
\* a refused repeat touches the context, writing the number of e.
LEMMA OthersShape ==
  ASSUME Types, AckInv, AnswerInv, NEW d \in Conns, Arrive(d) \/ ConnStep(d),
         NEW e \in Conns \ {d}, alone[e], alone'[e], Active(e)
  PROVE  /\ pc[e] \notin {"recv", "set"} => netctx'[ctx[e]] = netctx[ctx[e]]
         /\ ctx'[d] = ctx'[e] =>
              ~Active(d)' /\ (pc'[d] \in {"recv", "set"} => req'[d].seq = req[e].seq)
<1>1. Exclusive(e) /\ Session(e) /\ ctx[e] \in Conns
  BY DEF AnswerInv, Active, Types
<1>2. ctx'[e] = ctx[e]
  BY OwnStep
<1>3. CASE Arrive(d)
  BY <1>3 DEF Arrive, Goto, Active, Types
<1>4. CASE ConnStep(d) /\ ctx[d] # ctx[e]
  BY <1>1, <1>2, <1>4, OwnStep, Settled
<1>5. CASE ConnStep(d) /\ ctx[d] = ctx[e]
  <2>1. ~Active(d) /\ (pc[d] \in {"recv", "set"} => ~ok[d] /\ Seq_(d) = Seq_(e))
    BY <1>1, <1>5 DEF Exclusive, Sharers, Active
  <2>2. req'[d] = req[d]
    BY <1>5, Settled
  <2>3. ReadPacket(d) \/ LockAck(d) \/ TestAck(d) \/ RecvAck(d) \/ SetAck(d)
    BY <1>5, <2>1 DEF Active, ConnStep, StoreAck, Decrypt, DecryptError, DecryptFatal,
           BeginWriteStream, TakeSeq, BuildAckHdr, WriteAckData, WriteRefused, WriteRaw, Close,
           CanWrite
  <2>4. CASE ReadPacket(d) \/ LockAck(d)
    BY <2>4 DEF ReadPacket, LockAck, Goto, Active, Types
  <2>5. CASE TestAck(d)
    <3>1. netctx' = netctx /\ pc'[d] = "recv"
      BY <2>5 DEF TestAck, Goto, Types
    <3>2. ~Interferes(e, d)
      BY <1>5, <2>5, AloneTested DEF Sharers
    <3>3. ~ok'[d] /\ Seq_(d) = Seq_(e)
      BY <3>2 DEF Interferes
    <3> QED BY <2>2, <3>1, <3>3 DEF Active, Seq_
  <2>6. CASE RecvAck(d)
    <3>1. netctx' = netctx /\ pc[d] = "recv" /\ pc'[d] = "set" /\ ok' = ok
      BY <2>6 DEF RecvAck, Goto, Types
    <3> QED BY <2>1, <2>2, <3>1 DEF Active, Seq_
  <2>7. CASE SetAck(d)
    <3>1. ~ok[d] /\ got[d] = Seq_(e)
      BY <2>1, <2>7 DEF SetAck, AckInv, Locked
    <3>2. ASSUME pc[e] \notin {"recv", "set"} PROVE netctx'[ctx[e]] = netctx[ctx[e]]
      <4>1. netctx' = [netctx EXCEPT ![ctx[e]].ack = netctx[ctx[e]].ack]
        BY <1>1, <1>5, <2>7, <3>1, <3>2 DEF SetAck, Session, Ctx
      <4> QED BY <1>1, <4>1 DEF Types, Fields
    <3>3. pc'[d] = "closed"
      BY <2>7, <3>1 DEF SetAck, Goto, Types
    <3> QED BY <3>2, <3>3 DEF Active
  <2> QED BY <2>3, <2>4, <2>5, <2>6, <2>7
<1> QED BY <1>3, <1>4, <1>5

\* What conn e has written still matches after a step in which it writes
\* nothing.
LEMMA MatchesStay ==
  ASSUME Types, StreamInv, NEW c \in Conns, Arrive(c) \/ ConnStep(c), NEW e \in Conns,
         Matches(e), Silent(e), out'[e] = out[e],
         out[e] # <<>> /\ streaming'[e] = "yes" => streaming[e] = "yes"
  PROVE  Matches(e)'
<1>1. CASE out[e] = <<>>
  BY <1>1 DEF Matches
<1>2. CASE out[e] # <<>>
  <2>1. Arrived(e)
    BY <1>2 DEF Silent, Arrived, BeforeHandler
  <2>2. PICK f : f = out[e][1]
    OBVIOUS
  <2>3. Seq_(e)' = Seq_(e)
    BY <2>1, ArrivedStays DEF Seq_
  <2>4. 1 \in 1..Len(out[e])
    BY <1>2 DEF Types
  <2>5. HeaderOf(e, f)
    BY <2>2, <2>4 DEF Matches
  <2>6. HeaderOf(e, f)'
    BY <1>2, <2>1, <2>5, HeaderStays
  <2>7. out'[e][1] = f
    BY <2>2
  <2>8. HeaderOf(e, out[e][1])'
    BY <2>6, <2>7 DEF HeaderOf
  <2> QED BY <2>3, <2>8 DEF Matches
<1> QED BY <1>1, <1>2

\* A step of another conn leaves the session and the answers of e alone.
LEMMA OthersStep ==
  ASSUME Types, AckInv, StreamInv, AnswerInv, NEW d \in Conns, Arrive(d) \/ ConnStep(d),
         NEW e \in Conns \ {d}, alone'[e]
  PROVE  Matches(e)' /\ (Active(e)' => Exclusive(e)' /\ Session(e)')
<1>1. alone[e]
  BY AloneBefore
<1>2. /\ pc'[e] = pc[e] /\ req'[e] = req[e] /\ ctx'[e] = ctx[e] /\ hdr'[e] = hdr[e]
      /\ ok'[e] = ok[e]
      /\ out'[e] = out[e] /\ streaming'[e] = streaming[e]
  BY OwnStep
<1>3. Matches(e)'
  BY <1>1, <1>2, MatchesStay DEF AnswerInv
<1>4. ASSUME Active(e)' PROVE Exclusive(e)' /\ Session(e)'
  <2>1. Active(e) /\ Exclusive(e) /\ Session(e) /\ Arrived(e) /\ ctx[e] \in Conns
    BY <1>1, <1>2, <1>4 DEF Active, AnswerInv, Arrived, Types
  <2>2. /\ pc[e] \notin {"recv", "set"} => netctx'[ctx[e]] = netctx[ctx[e]]
        /\ ctx'[d] = ctx'[e] =>
             ~Active(d)' /\ (pc'[d] \in {"recv", "set"} => req'[d].seq = req[e].seq)
    BY <1>1, <2>1, OthersShape
  <2>3. Exclusive(e)'
    <3> SUFFICES ASSUME NEW g \in Conns \ {e}, ctx'[g] = ctx'[e]
                 PROVE  ~Active(g)'
                          /\ (pc'[g] \in {"recv", "set"} => req'[g].seq = req'[e].seq)
      BY DEF Exclusive, Sharers, Seq_
    <3>1. CASE g = d
      BY <1>2, <2>2, <3>1
    <3>2. CASE g # d
      <4>1. pc'[g] = pc[g] /\ ok'[g] = ok[g] /\ req'[g] = req[g] /\ ctx'[g] = ctx[g]
        BY <3>2, OwnStep
      <4>2. g \in Sharers(e)
        BY <1>2, <4>1 DEF Sharers
      <4> QED BY <1>2, <2>1, <4>1, <4>2 DEF Exclusive, Active, Seq_
    <3> QED BY <3>1, <3>2
  <2>4. Session(e)'
    <3>1. (pc[e] \notin {"recv", "set"} => Ctx(e)' = Ctx(e)) /\ Seq_(e)' = Seq_(e)
      BY <1>2, <2>2 DEF Ctx, Seq_
    <3>2. pc[e] = "enc" => HeaderOf(e, hdr[e])'
      <4> SUFFICES ASSUME pc[e] = "enc" PROVE HeaderOf(e, hdr[e])'
        OBVIOUS
      <4>1. PICK h : h = hdr[e]
        OBVIOUS
      <4>2. HeaderOf(e, h)
        BY <2>1, <4>1 DEF Session
      <4>3. HeaderOf(e, h)' /\ hdr'[e] = h
        BY <1>2, <2>1, <4>1, <4>2, HeaderStays
      <4> QED BY <4>3 DEF HeaderOf
    <3>3. CASE pc[e] \in {"recv", "set"}
      BY <1>2, <3>3 DEF Session
    <3>4. CASE pc[e] \notin {"recv", "set"}
      BY <1>2, <2>1, <3>1, <3>2, <3>4 DEF Session, Decrypted, Keyed
    <3> QED BY <3>3, <3>4
  <2> QED BY <2>3, <2>4
<1> QED BY <1>3, <1>4

\* The frames that are written.
LEMMA AckFrame ==
  ASSUME Types, NEW c \in Conns, WriteAckData(c)
  PROVE  \E f \in Frames :
           /\ out'[c] = Append(out[c], f)
           /\ f.type = hdr[c].type /\ f.seq = hdr[c].seq /\ f.ack = (Ctx(c).ack + 1) % SeqSize
           /\ f.data = EncryptAckData(Ctx(c))
<1> DEFINE f == [type |-> hdr[c].type, seq |-> hdr[c].seq,
                 ack |-> (Ctx(c).ack + 1) % SeqSize, data |-> EncryptAckData(Ctx(c))]
<1>1. hdr[c] \in Hdrs /\ Ctx(c) \in Fields
  BY DEF WriteAckData, Types, Ctx
<1>2. (Ctx(c).ack + 1) % SeqSize \in SeqNums
  BY <1>1, NextSeqType DEF Fields
<1>3. f \in Frames
  BY <1>1, <1>2 DEF Frames, Hdrs, Fields, EncryptAckData
<1>4. out'[c] = Append(out[c], f)
  BY DEF WriteAckData, Types
<1> QED BY <1>3, <1>4

LEMMA RawFrame ==
  ASSUME Types, NEW c \in Conns, WriteRaw(c)
  PROVE  \E f \in Frames :
           /\ out'[c] = Append(out[c], f)
           /\ f.type = 0 /\ f.data = EncryptAckData(UpdateIv(Ctx(c)))
<1> DEFINE f == [type |-> 0, seq |-> 0, ack |-> 0, data |-> EncryptAckData(UpdateIv(Ctx(c)))]
<1>1. UpdateIv(Ctx(c)) \in Fields
  BY UpdateIvType DEF WriteRaw, CanWrite, Types, Ctx
<1>2. f \in Frames
  BY <1>1, ConstantsAssumption DEF Frames, Fields, EncryptAckData, SeqNums
<1>3. out'[c] = Append(out[c], f)
  BY DEF WriteRaw, Types
<1> QED BY <1>2, <1>3

\* The steps of a conn's own session.
LEMMA OwnSession ==
  ASSUME Types, AckInv, StreamInv, NEW c \in Conns, ConnStep(c), alone[c], Active(c),
         Session(c), Silent(c), Active(c)'
  PROVE  Session(c)'
<1>1. /\ ctx'[c] = ctx[c] /\ req'[c] = req[c] /\ Seq_(c)' = Seq_(c)
      /\ ctx[c] \in Conns /\ Ctx(c) \in Fields /\ Ctx(c)' = netctx'[ctx[c]]
  BY Settled DEF Active, Types, Ctx, Seq_
<1> USE DEF Goto
<1>2. CASE StoreAck(c)
  <2>1. pc[c] = "store" /\ pc'[c] = "decrypt" /\ out' = out
    BY <1>2 DEF StoreAck, Types
  <2>2. Ctx(c)'.ack = Seq_(c) /\ Ctx(c)'.recvsig = c
    BY <1>1, <1>2 DEF StoreAck, Types, Fields
  <2> QED BY <1>1, <2>1, <2>2 DEF Session
<1>3. CASE Decrypt(c)
  <2>1. pc[c] = "decrypt" /\ pc'[c] = "handle" /\ out' = out /\ out[c] = <<>>
    BY <1>3 DEF Decrypt, Types, Active, Silent, BeforeHandler
  <2>2. Ctx(c)' = [Ctx(c) EXCEPT !.recviv = c, !.aeskey = c, !.updateiv = TRUE,
                                 !.state = IF req[c].syn THEN 2 ELSE 10]
    BY <1>1, <1>3 DEF Decrypt, Types, Ctx
  <2>3. /\ Ctx(c)'.ack = Ctx(c).ack /\ Ctx(c)'.recvsig = Ctx(c).recvsig /\ Ctx(c)'.recviv = c
        /\ Ctx(c)'.aeskey = c /\ Ctx(c)'.updateiv
        /\ Ctx(c)'.state = IF req[c].syn THEN 2 ELSE 10
    BY <1>1, <2>2 DEF Fields
  <2>4. Ctx(c)'.ack = Seq_(c) /\ Ctx(c)'.recvsig = c
    BY <2>1, <2>3 DEF Session
  <2> QED BY <1>1, <2>1, <2>3, <2>4 DEF Session, Decrypted
<1>4. CASE DecryptError(c) \/ DecryptFatal(c)
  <2>1. pc'[c] = pc[c] /\ UNCHANGED <<netctx, out, hdr, streaming>> /\ pc[c] = "decrypt"
    BY <1>4 DEF DecryptError, DecryptFatal, Types, Active
  <2> QED BY <1>1, <2>1 DEF Session, Ctx
<1>5. CASE Close(c) \/ WriteRefused(c)
  <2>1. UNCHANGED <<netctx, out, hdr, streaming>>
    BY <1>5 DEF Close, WriteRefused
  <2>2. Ctx(c)' = Ctx(c)
    BY <1>1, <2>1 DEF Ctx
  <2>3. pc[c] \in {"handle", "enc", "panicked"} /\ pc'[c] = "panicked"
    BY <1>5 DEF Close, WriteRefused, Types, Active
  <2> QED BY <1>1, <2>1, <2>2, <2>3 DEF Session
<1>6. CASE BeginWriteStream(c)
  <2>1. PICK n \in Sizes :
          netctx' = [netctx EXCEPT ![ctx[c]].stream = TRUE, ![ctx[c]].size = n]
    BY <1>6 DEF BeginWriteStream
  <2>2. pc[c] = "handle" /\ UNCHANGED <<pc, out, hdr>>
    BY <1>6 DEF BeginWriteStream, CanWrite
  <2>3. /\ Ctx(c)'.ack = Ctx(c).ack /\ Ctx(c)'.recvsig = Ctx(c).recvsig
        /\ Ctx(c)'.recviv = Ctx(c).recviv /\ Ctx(c)'.aeskey = Ctx(c).aeskey
        /\ Ctx(c)'.updateiv = Ctx(c).updateiv /\ Ctx(c)'.state = Ctx(c).state
        /\ Ctx(c)'.sendiv = Ctx(c).sendiv
    BY <1>1, <2>1 DEF Types, Fields, Ctx
  <2> QED BY <1>1, <2>2, <2>3 DEF Session, Decrypted, Keyed, IvOf
<1>7. CASE TakeSeq(c)
  <2>1. pc[c] = "handle" /\ pc'[c] = "hdr" /\ out' = out /\ Ctx(c).state \in {2, 10}
    BY <1>7 DEF TakeSeq, CanWrite, FirstWrite, Types
  <2>2. out[c] = <<>> /\ Decrypted(c, Ctx(c))
    BY <2>1 DEF Session
  <2>3. /\ Ctx(c)'.ack = Ctx(c).ack /\ Ctx(c)'.recvsig = Ctx(c).recvsig
        /\ Ctx(c)'.recviv = Ctx(c).recviv /\ Ctx(c)'.aeskey = Ctx(c).aeskey
        /\ Ctx(c)'.updateiv = Ctx(c).updateiv /\ Ctx(c)'.state = Ctx(c).state
    BY <1>1, <1>7 DEF TakeSeq, Types, Fields, Ctx
  <2> QED BY <1>1, <2>1, <2>2, <2>3 DEF Session, Decrypted
<1>8. CASE BuildAckHdr(c)
  <2>1. /\ pc[c] = "hdr" /\ pc'[c] = "enc" /\ UNCHANGED <<out, streaming>>
        /\ hdr'[c] = [type |-> AckType(Ctx(c)), seq |-> Ctx(c).seq]
        /\ Ctx(c)' = UpdateIv(Ctx(c))
    BY <1>1, <1>8 DEF BuildAckHdr, Types, Ctx
  <2>2. Decrypted(c, Ctx(c)) /\ out[c] = <<>>
    BY <2>1 DEF Session
  <2>3. /\ Ctx(c)'.ack = Ctx(c).ack /\ Ctx(c)'.aeskey = c /\ ~Ctx(c)'.updateiv
        /\ Ctx(c)'.sendiv = IvOf(c, Ctx(c).seq)
        /\ Ctx(c)'.state = IF req[c].syn THEN 2 ELSE 10
    BY <1>1, <2>1, <2>2 DEF UpdateIv, Decrypted, IvOf, Fields
  <2>4. hdr'[c].seq = Ctx(c).seq /\ hdr'[c].type = AckType(Ctx(c))
    BY <2>1
  <2>5. HeaderOf(c, hdr[c])'
    <3>1. ASSUME Ctx(c).stream PROVE StreamAsked(ctx[c])'
      <4>1. PICK x : x = ctx[c]
        OBVIOUS
      <4>2. StreamAsked(x)
        BY <1>1, <3>1, <4>1 DEF StreamInv, Ctx
      <4>3. StreamAsked(x)' /\ ctx'[c] = x
        BY <1>1, <4>1, <4>2, AskedStays
      <4> QED BY <4>3 DEF StreamAsked
    <3>2. streaming[c] = "yes" => Ctx(c).stream
      BY DEF StreamInv
    <3>3. AckType(Ctx(c)) = IF req[c].syn THEN 2 ELSE IF Ctx(c).stream THEN 4 ELSE 3
      BY <2>2 DEF AckType, Decrypted
    <3> QED BY <1>1, <2>1, <2>4, <3>1, <3>2, <3>3 DEF HeaderOf
  <2> QED BY <1>1, <2>1, <2>2, <2>3, <2>4, <2>5 DEF Session, Keyed
<1>9. CASE WriteAckData(c)
  <2>1. /\ pc[c] = "enc" /\ pc'[c] = "handle"
        /\ \E f \in Frames : out'[c] = Append(out[c], f) /\ f.seq = hdr[c].seq
    BY <1>9, AckFrame DEF WriteAckData, Types
  <2>2. /\ out[c] = <<>> /\ Keyed(c, Ctx(c), hdr[c].seq)
        /\ Ctx(c).state = IF req[c].syn THEN 2 ELSE 10
    BY <2>1 DEF Session
  <2>3. out'[c] # <<>> /\ out'[c][1].seq = hdr[c].seq
    BY <2>1, <2>2
  <2>4. /\ Ctx(c)'.ack = Ctx(c).ack /\ Ctx(c)'.aeskey = Ctx(c).aeskey
        /\ Ctx(c)'.updateiv = Ctx(c).updateiv /\ Ctx(c)'.sendiv = Ctx(c).sendiv
        /\ Ctx(c)'.state = (Ctx(c).state + 1) % 256
    BY <1>1, <1>9 DEF WriteAckData, Types, Fields, Ctx
  <2>5. Ctx(c)'.state \in {3, 11}
    BY <2>2, <2>4
  <2> QED BY <1>1, <2>1, <2>2, <2>3, <2>4, <2>5 DEF Session, Keyed
<1>10. CASE WriteRaw(c)
  <2>1. /\ pc[c] = "handle" /\ pc' = pc /\ Ctx(c).state \notin {2, 10}
        /\ Ctx(c)' = UpdateIv(Ctx(c))
    BY <1>1, <1>10 DEF WriteRaw, CanWrite, FirstWrite, Types, Ctx
  <2>2. /\ out[c] # <<>> /\ Keyed(c, Ctx(c), out[c][1].seq) /\ Ctx(c).state \in {3, 11}
    BY <2>1 DEF Session, Decrypted
  <2>3. Ctx(c)' = Ctx(c)
    BY <2>1, <2>2 DEF UpdateIv, Keyed
  <2>4. out'[c] # <<>> /\ out'[c][1] = out[c][1]
    <3>1. PICK f \in Frames : out'[c] = Append(out[c], f)
      BY <1>10, RawFrame
    <3>2. out[c] \in Seq(Frames)
      BY DEF Types
    <3> QED BY <2>2, <3>1, <3>2
  <2> QED BY <1>1, <2>1, <2>2, <2>3, <2>4 DEF Session, Keyed
<1>11. CASE RecvAck(c)
  <2>1. pc'[c] = "set"
    BY <1>11 DEF RecvAck, Types
  <2> QED BY <2>1 DEF Session
<1>12. CASE SetAck(c)
  <2>1. pc'[c] = "store" /\ pc[c] = "set" /\ got[c] = Seq_(c)
    BY <1>12 DEF SetAck, Types, Active, AckInv, Locked
  <2>2. Ctx(c)'.ack = Seq_(c)
    BY <1>1, <1>12, <2>1 DEF SetAck, Types, Fields
  <2> QED BY <1>1, <2>1, <2>2 DEF Session
<1>13. ~(ReadPacket(c) \/ LockAck(c) \/ TestAck(c))
  BY DEF ReadPacket, LockAck, TestAck, Active
<1> QED BY <1>2, <1>3, <1>4, <1>5, <1>6, <1>7, <1>8, <1>9, <1>10, <1>11, <1>12, <1>13
        DEF ConnStep

\* The frames a conn has written match its packet after each of its steps.
LEMMA OwnMatches ==
  ASSUME Types, StreamInv, NEW c \in Conns, ConnStep(c), alone[c], Matches(c), Silent(c),
         Active(c) => Session(c)
  PROVE  Matches(c)'
<1>1. Arrived(c) /\ req'[c] = req[c] /\ ctx'[c] = ctx[c] /\ Seq_(c)' = Seq_(c)
        /\ out[c] \in Seq(Frames)
  BY Settled DEF Arrived, Seq_, Types
<1>2. CASE WriteAckData(c)
  <2>1. pc[c] = "enc" /\ Session(c) /\ streaming' = streaming
    BY <1>2 DEF WriteAckData, Active
  <2>2. out[c] = <<>> /\ Keyed(c, Ctx(c), hdr[c].seq) /\ HeaderOf(c, hdr[c]) /\ Ctx(c).ack = Seq_(c)
    BY <2>1 DEF Session
  <2>3. PICK f \in Frames :
          /\ out'[c] = Append(out[c], f)
          /\ f.type = hdr[c].type /\ f.seq = hdr[c].seq /\ f.ack = (Ctx(c).ack + 1) % SeqSize
          /\ f.data = EncryptAckData(Ctx(c))
    BY <1>2, AckFrame
  <2>4. f.ack = (Seq_(c) + 1) % SeqSize /\ f.data.key = c /\ f.data.iv = IvOf(c, f.seq)
    BY <2>2, <2>3 DEF EncryptAckData, Keyed
  <2>5. HeaderOf(c, f)
    BY <2>2, <2>3 DEF HeaderOf
  <2>6. HeaderOf(c, f)'
    BY <1>1, <2>1, <2>5, HeaderStays
  <2>7. Len(out'[c]) = 1 /\ out'[c][1] = f
    BY <2>2, <2>3
  <2>8. HeaderOf(c, out[c][1])'
    BY <2>6, <2>7 DEF HeaderOf
  <2> QED BY <1>1, <2>4, <2>7, <2>8 DEF Matches
<1>3. CASE WriteRaw(c)
  <2>1. pc[c] = "handle" /\ Session(c) /\ streaming' = streaming /\ Ctx(c).state \notin {2, 10}
    BY <1>3 DEF WriteRaw, CanWrite, FirstWrite, Active
  <2>2. out[c] # <<>> /\ Keyed(c, Ctx(c), out[c][1].seq)
    BY <2>1 DEF Session, Decrypted
  <2>3. PICK f \in Frames : /\ out'[c] = Append(out[c], f)
                            /\ f.type = 0 /\ f.data = EncryptAckData(UpdateIv(Ctx(c)))
    BY <1>3, RawFrame
  <2>4. f.data.key = c /\ f.data.iv = IvOf(c, out[c][1].seq)
    BY <2>2, <2>3 DEF EncryptAckData, UpdateIv, Keyed
  <2>5. /\ Len(out'[c]) = Len(out[c]) + 1 /\ Len(out[c]) \in Nat \ {0}
        /\ out'[c][Len(out[c]) + 1] = f
        /\ \A k \in 1..Len(out[c]) : out'[c][k] = out[c][k]
    BY <1>1, <2>2, <2>3
  <2>6. out'[c][1] = out[c][1] /\ 1 \in 1..Len(out[c])
    BY <2>5
  <2>7. PICK g : g = out[c][1]
    OBVIOUS
  <2>8. HeaderOf(c, g)
    BY <2>6, <2>7 DEF Matches
  <2>9. HeaderOf(c, g)'
    BY <1>1, <2>1, <2>8, HeaderStays
  <2>10. HeaderOf(c, out[c][1])'
    BY <2>6, <2>7, <2>9 DEF HeaderOf
  <2> SUFFICES ASSUME NEW k \in 1..Len(out'[c])
               PROVE  /\ out'[c][k].data.key = c /\ out'[c][k].data.iv = IvOf(c, out'[c][1].seq)
                      /\ k = 1 => out'[c][k].ack = (Seq_(c) + 1) % SeqSize
                      /\ k # 1 => out'[c][k].type = 0
    BY <1>1, <2>10 DEF Matches
  <2>11. CASE k \in 1..Len(out[c])
    BY <2>5, <2>6, <2>11 DEF Matches
  <2>12. CASE k \notin 1..Len(out[c])
    <3>1. k = Len(out[c]) + 1 /\ k # 1
      BY <2>5, <2>12
    <3> QED BY <2>3, <2>4, <2>5, <2>6, <3>1
  <2> QED BY <2>11, <2>12
<1>4. CASE BeginWriteStream(c)
  <2>1. out' = out
    BY <1>4 DEF BeginWriteStream
  <2>2. out[c] # <<>> => streaming'[c] = "late"
    BY <1>4 DEF BeginWriteStream, StreamInv
  <2> QED BY <2>1, <2>2, MatchesStay
<1>5. CASE ~(WriteAckData(c) \/ WriteRaw(c) \/ BeginWriteStream(c))
  <2>1. out' = out
    BY <1>5 DEF ConnStep, ReadPacket, LockAck, TestAck, RecvAck, SetAck, StoreAck,
           Decrypt, DecryptError, DecryptFatal, TakeSeq, BuildAckHdr, WriteRefused, Close
  <2>2. streaming' = streaming
    BY <1>5, StreamsKept
  <2> QED BY <2>1, <2>2, MatchesStay
<1> QED BY <1>2, <1>3, <1>4, <1>5

\* So does a step of the conn itself keep all of it; an acceptance begins it.
LEMMA OwnAnswer ==
  ASSUME Types, AckInv, StreamInv, AnswerInv, NEW c \in Conns, Arrive(c) \/ ConnStep(c),
         alone'[c]
  PROVE  Matches(c)' /\ (Active(c)' => Exclusive(c)' /\ Session(c)')
<1>1. Silent(c) /\ (alone[c] => Matches(c))
        /\ (alone[c] /\ Active(c) => Exclusive(c) /\ Session(c))
  BY DEF AnswerInv
<1>2. CASE Arrive(c)
  <2>1. pc[c] = "idle" /\ pc'[c] = "read" /\ out' = out
    BY <1>2 DEF Arrive, Goto, Types
  <2> QED BY <1>1, <2>1 DEF Silent, BeforeHandler, Matches, Active
<1>3. CASE TestAck(c)
  <2>1. pc[c] = "test" /\ pc'[c] = "recv" /\ out' = out /\ UNCHANGED <<req, ctx>>
    BY <1>3 DEF TestAck, Goto, Types, connVars
  <2>2. Matches(c)'
    BY <1>1, <2>1 DEF Silent, BeforeHandler, Matches
  <2>3. ok'[c] /\ \A d \in Sharers(c) : ~Interferes(d, c)
    BY <1>3, AloneTested
  <2>4. \A d \in Sharers(c) : ~Active(d) /\ (pc[d] = "set" => Seq_(d) = Seq_(c))
    BY <2>3 DEF Interferes, Unstored
  <2>5. \A d \in Sharers(c) : pc[d] # "recv"
    BY <2>1 DEF AckInv, Locked, Holds, Sharers
  <2>6. \A d \in Conns \ {c} : pc'[d] = pc[d] /\ ok'[d] = ok[d]
    BY OwnStep
  <2>7. Exclusive(c)'
    BY <2>1, <2>4, <2>5, <2>6 DEF Exclusive, Sharers, Active, Seq_
  <2>8. Session(c)'
    BY <2>1 DEF Session
  <2> QED BY <2>2, <2>7, <2>8
<1>4. CASE ConnStep(c) /\ ~TestAck(c)
  <2>1. alone[c]
    BY <1>4, AloneStays
  <2>2. Matches(c)'
    BY <1>1, <1>4, <2>1, OwnMatches
  <2>3. ASSUME Active(c)' PROVE Active(c)
    BY <1>4, <2>3 DEF Active, Goto, Types, ConnStep, ReadPacket, LockAck, RecvAck,
         SetAck, StoreAck, Decrypt, DecryptError, DecryptFatal, BeginWriteStream,
         TakeSeq, BuildAckHdr, WriteAckData, WriteRefused, WriteRaw, Close, CanWrite
  <2>4. ASSUME Active(c)' PROVE Session(c)'
    BY <1>1, <1>4, <2>1, <2>3, <2>4, OwnSession
  <2>5. ASSUME Active(c)' PROVE Exclusive(c)'
    <3>1. UNCHANGED <<req, ctx>>
      BY <1>4, Settled
    <3>2. \A d \in Conns \ {c} : pc'[d] = pc[d] /\ ok'[d] = ok[d]
      BY OwnStep
    <3>3. Exclusive(c)
      BY <1>1, <2>1, <2>3, <2>5
    <3> QED BY <3>1, <3>2, <3>3 DEF Exclusive, Sharers, Active, Seq_
  <2> QED BY <2>2, <2>4, <2>5
<1> QED BY <1>2, <1>3, <1>4

LEMMA AnswerStep ==
  Types /\ AckInv /\ StreamInv /\ AnswerInv /\ [Next]_vars => AnswerInv'
<1> SUFFICES ASSUME Types, AckInv, StreamInv, AnswerInv, [Next]_vars PROVE AnswerInv'
  OBVIOUS
<1>1. ASSUME NEW c \in Conns, Arrive(c) \/ ConnStep(c) PROVE AnswerInv'
  <2>1. alone' \in [Conns -> BOOLEAN]
    <3>1. CASE TestAck(c)
      BY <3>1, AloneTested
    <3>2. CASE ~TestAck(c)
      BY <1>1, <3>2, AloneStays DEF AnswerInv
    <3> QED BY <3>1, <3>2
  <2>2. \A e \in Conns : Silent(e)'
    BY <1>1, SilentStep DEF AnswerInv
  <2>3. \A e \in Conns : alone'[e] => Matches(e)' /\ (Active(e)' => Exclusive(e)' /\ Session(e)')
    BY <1>1, OthersStep, OwnAnswer
  <2> QED BY <2>1, <2>2, <2>3 DEF AnswerInv
<1>2. CASE UNCHANGED <<pc, req, ctx, netctx, ok, hdr, out, alone, streaming>>
  BY <1>2 DEF AnswerInv, Silent, Matches, Exclusive, Session, Active, Sharers, Ctx, Seq_,
              HeaderOf, StreamAsked, Decrypted, Keyed
<1>3. ASSUME NEW p \in Peers, Expire(p) PROVE AnswerInv'
  BY <1>2, <1>3 DEF Expire, connVars, checkVars, ackHist
<1>4. CASE UNCHANGED vars
  BY <1>2, <1>4 DEF vars, connVars, checkVars, ackHist
<1> QED BY <1>1, <1>3, <1>4 DEF Next

\* A request that no other request on its context interfered with gets its own
\* answer, however conns of the same peer and of others interleave with it:
\* every frame under the key and the iv of its packet, the first with the type
\* and the acknowledgement its packet calls for, the later ones without header.
THEOREM AnswerMatchesRequestAlways == Spec => []AnswerMatchesRequest
<1>1. Types /\ AnswerInv => AnswerMatchesRequest
  <2> SUFFICES ASSUME Types, AnswerInv, NEW c \in Conns, alone[c], NEW k \in 1..Len(out[c])
               PROVE  /\ out[c][k].data.key = c
                      /\ out[c][k].data.iv = IvOf(c, out[c][1].seq)
                      /\ IF k = 1 THEN GoodHeader(c, out[c][k]) ELSE out[c][k].type = 0
    BY DEF AnswerMatchesRequest, IvOf
  <2>1. Matches(c)
    BY DEF AnswerInv
  <2>2. ASSUME k = 1 PROVE GoodHeader(c, out[c][k])
    <3>1. out[c][k].ack = (Seq_(c) + 1) % SeqSize /\ HeaderOf(c, out[c][k])
      BY <2>1, <2>2 DEF Matches
    <3>2. StreamAsked(ctx[c]) => \E d \in Sharers(c) \cup {c} : streaming[d] # "no"
      BY DEF StreamAsked, Sharers
    <3> QED BY <3>1, <3>2 DEF HeaderOf, GoodHeader
  <2> QED BY <2>1, <2>2 DEF Matches
<1> QED BY <1>1, InitInv, StreamInit, AnswerInit, TypesStep, AckStep, StreamStep, AnswerStep, PTL
        DEF Spec

-----------------------------------------------------------------------------
(* Sequence numbers of answers.                                             *)

\* The number that conn c answers with, once it has one.
Numbered(c) == alone[c] /\ (pc[c] \in {"hdr", "enc"} \/ out[c] # <<>>)
Number(c) ==
  IF out[c] # <<>> THEN out[c][1].seq
  ELSE IF pc[c] = "enc" THEN hdr[c].seq ELSE Ctx(c).seq

\* How many numbers were taken since n was, if the counter did not come round.
Age(n) == IF n <= cipherSeq THEN cipherSeq - n ELSE cipherSeq + SeqSize - n

\* Until all numbers were used once, every number in use is one of those taken,
\* and the conns have different ones.
NumberInv ==
  taken <= SeqSize =>
    /\ \A c \in Conns : Numbered(c) => Age(Number(c)) < taken
    /\ \A c, d \in Conns : c # d /\ Numbered(c) /\ Numbered(d) => Number(c) # Number(d)

LEMMA NumberInit == Init => NumberInv
BY DEF Init, NumberInv, Numbered

\* A step that takes no number and gives no conn another one.
LEMMA SameNumbers ==
  ASSUME NumberInv, UNCHANGED <<cipherSeq, taken>>,
         \A c \in Conns : Numbered(c)' => Numbered(c) /\ Number(c)' = Number(c)
  PROVE  NumberInv'
BY DEF NumberInv, Age

\* A number already given stays its conn's, whichever conn takes a step.
LEMMA NumberStays ==
  ASSUME Types, AckInv, StreamInv, AnswerInv, NEW c \in Conns, Arrive(c) \/ ConnStep(c),
         NEW e \in Conns, Numbered(e)', ~(e = c /\ TakeSeq(c))
  PROVE  Numbered(e) /\ Number(e)' = Number(e)
<1>1. CASE e # c
  <2>1. alone[e]
    BY <1>1, AloneBefore DEF Numbered
  <2>2. /\ pc'[e] = pc[e] /\ ctx'[e] = ctx[e] /\ hdr'[e] = hdr[e] /\ out'[e] = out[e]
    BY <1>1, OwnStep
  <2>3. Numbered(e)
    BY <2>1, <2>2 DEF Numbered
  <2>4. CASE out[e] # <<>> \/ pc[e] = "enc"
    BY <2>2, <2>3, <2>4 DEF Number
  <2>5. CASE ~(out[e] # <<>> \/ pc[e] = "enc")
    <3>1. pc[e] = "hdr" /\ Active(e)
      BY <2>3, <2>5 DEF Numbered, Active
    <3>2. netctx'[ctx[e]] = netctx[ctx[e]]
      BY <1>1, <2>1, <3>1, OthersShape DEF Numbered
    <3> QED BY <2>2, <2>3, <3>2 DEF Number, Ctx
  <2> QED BY <2>4, <2>5
<1>2. CASE e = c
  <2>1. Silent(c) /\ (alone[c] /\ Active(c) => Session(c))
    BY DEF AnswerInv
  <2>2. CASE Arrive(c)
    <3>1. pc[c] = "idle" /\ pc'[c] = "read" /\ out' = out
      BY <2>2 DEF Arrive, Goto, Types
    <3> QED BY <1>2, <2>1, <3>1 DEF Numbered, Silent, BeforeHandler
  <2>3. CASE TestAck(c)
    <3>1. pc[c] = "test" /\ pc'[c] = "recv" /\ out' = out
      BY <2>3 DEF TestAck, Goto, Types
    <3> QED BY <1>2, <2>1, <3>1 DEF Numbered, Silent, BeforeHandler
  <2>4. CASE BuildAckHdr(c)
    <3>1. /\ pc[c] = "hdr" /\ pc'[c] = "enc" /\ out' = out /\ alone' = alone
          /\ hdr'[c].seq = Ctx(c).seq
      BY <2>4 DEF BuildAckHdr, Goto, Types, ackHist
    <3>2. Numbered(c)
      BY <1>2, <3>1 DEF Numbered
    <3>3. out[c] = <<>>
      BY <2>1, <3>1, <3>2 DEF Session, Numbered, Active
    <3> QED BY <1>2, <3>1, <3>2, <3>3 DEF Number
  <2>5. CASE WriteAckData(c)
    <3>1. pc[c] = "enc" /\ alone' = alone
      BY <2>5 DEF WriteAckData, ackHist
    <3>2. Numbered(c)
      BY <1>2, <3>1 DEF Numbered
    <3>3. out[c] = <<>>
      BY <2>1, <3>1, <3>2 DEF Session, Numbered, Active
    <3>4. PICK f \in Frames : out'[c] = Append(out[c], f) /\ f.seq = hdr[c].seq
      BY <2>5, AckFrame
    <3>5. out'[c] # <<>> /\ out'[c][1] = f
      BY <3>3, <3>4
    <3> QED BY <1>2, <3>1, <3>2, <3>3, <3>4, <3>5 DEF Number
  <2>6. CASE WriteRaw(c)
    <3>1. pc[c] = "handle" /\ pc' = pc /\ alone' = alone /\ Ctx(c).state \notin {2, 10}
      BY <2>6 DEF WriteRaw, CanWrite, FirstWrite, ackHist
    <3>2. out[c] # <<>>
      BY <1>2, <2>1, <3>1 DEF Session, Decrypted, Numbered, Active
    <3>3. PICK f \in Frames : out'[c] = Append(out[c], f)
      BY <2>6, RawFrame
    <3>4. out[c] \in Seq(Frames)
      BY DEF Types
    <3>5. out'[c] # <<>> /\ out'[c][1] = out[c][1]
      BY <3>2, <3>3, <3>4
    <3> QED BY <1>2, <3>1, <3>2, <3>5 DEF Numbered, Number
  <2>7. CASE ConnStep(c) /\ ~(TestAck(c) \/ BuildAckHdr(c) \/ WriteAckData(c) \/ WriteRaw(c)
                              \/ TakeSeq(c))
    <3>1. out' = out /\ alone' = alone
      BY <2>7 DEF ackHist, ConnStep, ReadPacket, LockAck, RecvAck, SetAck, StoreAck,
             Decrypt, DecryptError, DecryptFatal, BeginWriteStream, WriteRefused, Close
    <3>2. pc'[c] \notin {"hdr", "enc"}
      BY <2>7 DEF Goto, Types, ConnStep, ReadPacket, LockAck, RecvAck, SetAck, StoreAck,
             Decrypt, DecryptError, DecryptFatal, BeginWriteStream, WriteRefused, Close,
             CanWrite
    <3> QED BY <1>2, <3>1, <3>2 DEF Numbered, Number
  <2> QED BY <1>2, <2>2, <2>3, <2>4, <2>5, <2>6, <2>7
<1> QED BY <1>1, <1>2

\* The numbers of the conns are numbers.
LEMMA NumberType ==
  ASSUME Types, NEW e \in Conns, Numbered(e)
  PROVE  Number(e) \in SeqNums
<1>1. CASE out[e] # <<>>
  <2>1. out[e][1] \in Frames
    BY <1>1 DEF Types
  <2> QED BY <1>1, <2>1 DEF Number, Frames
<1>2. CASE out[e] = <<>> /\ pc[e] = "enc"
  BY <1>2 DEF Number, Types, Hdrs
<1>3. CASE out[e] = <<>> /\ pc[e] # "enc"
  <2>1. Ctx(e) \in Fields
    BY <1>3 DEF Numbered, Types, Ctx
  <2> QED BY <1>3, <2>1 DEF Number, Fields
<1> QED BY <1>1, <1>2, <1>3

\* The number just taken is the youngest; the others are a step older.
LEMMA TakeNumbers ==
  ASSUME Types, AckInv, StreamInv, AnswerInv, NumberInv, NEW c \in Conns, TakeSeq(c)
  PROVE  NumberInv'
<1> SUFFICES ASSUME taken' <= SeqSize
             PROVE  /\ \A e \in Conns : Numbered(e)' => Age(Number(e))' < taken'
                    /\ \A d, e \in Conns : d # e /\ Numbered(d)' /\ Numbered(e)'
                                              => Number(d)' # Number(e)'
  BY DEF NumberInv
<1>1. /\ taken' = taken + 1 /\ taken \in Nat /\ SeqSize \in Nat \ {0}
      /\ cipherSeq \in Nat /\ cipherSeq < SeqSize
  BY ConstantsAssumption DEF TakeSeq, Types, SeqNums
<1>2. cipherSeq' = IF cipherSeq + 1 = SeqSize THEN 0 ELSE cipherSeq + 1
  <2>1. cipherSeq' = (cipherSeq + 1) % SeqSize
    BY DEF TakeSeq
  <2>2. CASE cipherSeq + 1 = SeqSize
    <3>1. SeqSize % SeqSize = 0
      BY <1>1
    <3> QED BY <2>1, <2>2, <3>1
  <2>3. CASE cipherSeq + 1 # SeqSize
    <3>1. cipherSeq + 1 \in Nat /\ cipherSeq + 1 < SeqSize
      BY <1>1, <2>3
    <3>2. (cipherSeq + 1) % SeqSize = cipherSeq + 1
      BY <1>1, <3>1
    <3> QED BY <2>1, <2>3, <3>2
  <2> QED BY <2>2, <2>3
<1>3. taken <= SeqSize /\ taken < SeqSize
  BY <1>1
<1>4. ASSUME NEW n \in SeqNums, Age(n) < taken
      PROVE  n # cipherSeq' /\ Age(n)' < taken'
  <2>1. n \in Nat /\ n < SeqSize
    BY <1>1 DEF SeqNums
  <2> QED BY <1>1, <1>2, <1>3, <1>4, <2>1 DEF Age
<1>5. ASSUME Numbered(c)' PROVE Number(c)' = cipherSeq'
  <2>1. /\ pc[c] = "handle" /\ pc'[c] = "hdr" /\ out' = out /\ alone' = alone
        /\ Ctx(c).state \in {2, 10} /\ ctx' = ctx /\ ctx[c] \in Conns
    BY DEF TakeSeq, CanWrite, FirstWrite, Goto, Types, ackHist, connVars
  <2>2. out[c] = <<>>
    BY <1>5, <2>1 DEF Numbered, AnswerInv, Active, Session
  <2>3. netctx'[ctx[c]].seq = cipherSeq'
    BY <2>1 DEF TakeSeq, Types, Fields
  <2> QED BY <2>1, <2>2, <2>3 DEF Number, Ctx
<1>6. ASSUME NEW e \in Conns \ {c}, Numbered(e)'
      PROVE  /\ Numbered(e) /\ Number(e)' = Number(e)
             /\ Number(e)' # cipherSeq' /\ Age(Number(e))' < taken'
  <2>1. Numbered(e) /\ Number(e)' = Number(e)
    BY <1>6, NumberStays DEF ConnStep
  <2>2. PICK n \in SeqNums : n = Number(e)
    BY <2>1, NumberType
  <2>3. Age(n) < taken
    BY <1>3, <2>1, <2>2 DEF NumberInv
  <2>4. n # cipherSeq' /\ Age(n)' < taken'
    BY <1>4, <2>3
  <2> QED BY <2>1, <2>2, <2>4 DEF Age
<1>7. ASSUME NEW e \in Conns, Numbered(e)' PROVE Age(Number(e))' < taken'
  <2>1. CASE e = c
    <3>1. PICK n \in Nat : n = cipherSeq'
      BY <1>1, <1>2
    <3>2. Number(e)' = n
      BY <1>5, <1>7, <2>1, <3>1
    <3>3. n <= n /\ n - n = 0 /\ 0 < taken + 1
      BY <1>1
    <3>4. Age(n)' < taken'
      BY <1>1, <3>1, <3>3 DEF Age
    <3> QED BY <3>1, <3>2, <3>4 DEF Age
  <2>2. CASE e # c
    BY <1>6, <1>7, <2>2
  <2> QED BY <2>1, <2>2
<1>8. ASSUME NEW d \in Conns, NEW e \in Conns, d # e, Numbered(d)', Numbered(e)'
      PROVE  Number(d)' # Number(e)'
  <2>1. CASE d = c \/ e = c
    BY <1>5, <1>6, <1>8, <2>1
  <2>2. CASE d # c /\ e # c
    BY <1>3, <1>6, <1>8, <2>2 DEF NumberInv
  <2> QED BY <2>1, <2>2
<1> QED BY <1>7, <1>8

LEMMA NumberStep ==
  Types /\ AckInv /\ StreamInv /\ AnswerInv /\ NumberInv /\ [Next]_vars => NumberInv'
<1> SUFFICES ASSUME Types, AckInv, StreamInv, AnswerInv, NumberInv, [Next]_vars
             PROVE  NumberInv'
  OBVIOUS
<1>1. ASSUME NEW c \in Conns, Arrive(c) \/ ConnStep(c), ~TakeSeq(c) PROVE NumberInv'
  <2>1. UNCHANGED <<cipherSeq, taken>>
    BY <1>1 DEF seqVars, Arrive, ConnStep, ReadPacket, LockAck, TestAck, RecvAck, SetAck,
         StoreAck, Decrypt, DecryptError, DecryptFatal, BeginWriteStream, BuildAckHdr,
         WriteAckData, WriteRefused, WriteRaw, Close
  <2> QED BY <1>1, <2>1, NumberStays, SameNumbers
<1>2. CASE UNCHANGED <<pc, ctx, netctx, cipherSeq, taken, hdr, out, alone>>
  BY <1>2, SameNumbers DEF Numbered, Number, Ctx
<1>3. ASSUME NEW p \in Peers, Expire(p) PROVE NumberInv'
  BY <1>2, <1>3 DEF Expire, connVars, ackHist, seqVars
<1>4. CASE UNCHANGED vars
  BY <1>2, <1>4 DEF vars, connVars, ackHist, seqVars
<1> QED BY <1>1, <1>3, <1>4, TakeNumbers DEF Next

\* The conns of all contexts take their numbers from one atomic counter that
\* starts anywhere and wraps, and keep them in contexts they share: until every
\* number was used once, requests that nothing overlapped answer with
\* different numbers.
THEOREM AnswerSeqUniqueAlways == Spec => []AnswerSeqUnique
<1>1. NumberInv => AnswerSeqUnique
  BY DEF NumberInv, AnswerSeqUnique, Numbered, Number
<1> QED BY <1>1, InitInv, StreamInit, AnswerInit, NumberInit, TypesStep, AckStep, StreamStep,
           AnswerStep, NumberStep, PTL DEF Spec

=============================================================================
