----------------------------- MODULE StreamPack -----------------------------
(* How an answer is sent as a stream (netserve/context.go, transcipher.go):  *)
(* the first packet announces the length of all of them, which are padded    *)
(* and encrypted only later, one at a time.  Sizes are in bytes.             *)
EXTENDS Integers, FiniteSetsExt

CONSTANTS
  AesBlock,    \* length of a block, and of a key (16)
  SizeWord,    \* number of values of the announced size (2^32)
  MaxStream    \* bound of the streams

ASSUME StreamAssumption == AesBlock \in Nat \ {0} /\ SizeWord \in Nat \ {0} /\ MaxStream \in Nat

VARIABLES
  streamSize,  \* context.size and context.packsize, 0 before BeginWriteStream
  packsize,
  summed,      \* n and size of CalcStreamSize
  calc,
  sent,        \* bytes of data that have been written
  wrote,       \* bytes that have been written after the announced size
  announced    \* the size in the first packet, 0 before it is written

streamVars == <<streamSize, packsize, summed, calc, sent, wrote, announced>>

StreamTypeOK == /\ {streamSize, packsize, summed, calc, sent, wrote, announced} \subseteq Nat
                /\ summed <= streamSize /\ sent <= streamSize

StreamInit ==
  streamSize = 0 /\ packsize = 0 /\ summed = 0 /\ calc = 0 /\ sent = 0 /\ wrote = 0 /\ announced = 0

RoundUp(size, bound) == ((size + bound - 1) \div bound) * bound

\* GetPackSize: bytes of data in the packet that starts at byte k ...
PackDataSize(k) == IF streamSize - k > packsize THEN packsize ELSE streamSize - k

\* Mutant: data that fills its last block gets no block of padding.
PackSizeTight(datasize, blockSize) == RoundUp(datasize, blockSize)

\* ... and bytes of the packet: at least one byte of padding.
PackSize(datasize, blockSize) ==
  IF RoundUp(datasize, blockSize) = datasize
  THEN datasize + blockSize
  ELSE RoundUp(datasize, blockSize)

\* Length of Pkcs7Pad(data), which EncryptAckData encrypts.
PaddedSize(datasize, blockSize) ==
  datasize + Min({padlen \in 1..blockSize : (datasize + padlen) % blockSize = 0})

\* sizeof(TransPacketHdr): Checksum, Msgtype, Version, Seq and Nonce.
packhdrsize == 8 + 4 + 4 + 4 + 8
acksize == 4

BeginWriteStream(size, pack) ==
  /\ streamSize = 0
  /\ streamSize' = size /\ packsize' = pack
  /\ UNCHANGED <<summed, calc, sent, wrote, announced>>

\* The loop of CalcStreamSize, in WriteAckData for the first packet.
CalcStreamSize ==
  /\ summed < streamSize
  /\ calc' = calc + PackSize(PackDataSize(summed), AesBlock)
  /\ summed' = summed + PackDataSize(summed)
  /\ UNCHANGED <<streamSize, packsize, sent, wrote, announced>>

\* The handler writes the next packsize bytes of its data, or what is left.
Piece == Min({packsize, streamSize - sent})

\* WriteAckData after the loop: the size, the header, the acknowledgement and
\* the first piece.
WriteAckData ==
  /\ streamSize # 0 /\ summed = streamSize /\ sent = 0
  /\ announced' = (calc + packhdrsize + acksize) % SizeWord
  /\ wrote' = packhdrsize + acksize + PaddedSize(Piece, AesBlock)
  /\ sent' = Piece
  /\ UNCHANGED <<streamSize, packsize, summed, calc>>

\* EncodeWrite of the other pieces.
EncodeWriteNext ==
  /\ sent # 0 /\ sent < streamSize
  /\ wrote' = wrote + PaddedSize(Piece, AesBlock)
  /\ sent' = sent + Piece
  /\ UNCHANGED <<streamSize, packsize, summed, calc, announced>>

StreamNext ==
  \/ \E size, pack \in 1..MaxStream : BeginWriteStream(size, pack)
  \/ CalcStreamSize \/ WriteAckData \/ EncodeWriteNext

StreamSpec == StreamInit /\ [][StreamNext]_streamVars
-----------------------------------------------------------------------------
\* The size that the first packet announces, as far as its 32 bits hold it, is
\* the number of bytes that are written in the end, and no fewer are before:
\* who reads that many bytes has the whole answer, and nothing but it.
StreamSizeAnnounced ==
  sent # 0 => /\ sent = streamSize => announced = wrote % SizeWord
              /\ calc + packhdrsize + acksize < SizeWord => (wrote = announced <=> sent = streamSize)
=============================================================================
