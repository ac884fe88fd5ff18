---------------------------- MODULE RequestPath ----------------------------
(* The way of one request and of one answer through netserve: the bytes of   *)
(* a conn arrive in pieces of any size, bufio buffers them, the cipher takes *)
(* a packet out of them, the decoder takes the api and its data out of the   *)
(* packet (conn.go, transcipher.go, pdecoder.go, cipher2/pad.go).            *)
(* A byte is a pair of its kind and its value.  Encryption wraps each byte,  *)
(* so that a byte that is encrypted twice, or never decrypted, is told from  *)
(* the byte itself; the session keys are the matter of NetSession.           *)
EXTENDS Naturals, Sequences

LOCAL INSTANCE SequencesExt
LOCAL INSTANCE FiniteSetsExt

CONSTANTS
  BlockSize,  \* bytes in a block of the cipher (16)
  LenSize     \* bytes of the length in front of an sz12 packet (4)

ASSUME SizesAssumption == BlockSize \in Nat \ {0} /\ LenSize \in Nat \ {0}

Byte(n) == <<"byte", n>>
Char(c) == <<"char", c>>
Zero == Char("\\x00")
CR == Char("\\r")
LF == Char("\\n")

\* How a call ends: with data, with a panic that is an error, or with a panic
\* that is a string (crypto/cipher), which x.(error) in HandleRequest turns
\* into the end of the process.
Bytes(d) == [end |-> "data", data |-> d]
Error == [end |-> "error", data |-> <<>>]
Fatal == [end |-> "fatal", data |-> <<>>]

\* Goes on with the data, unless the call has panicked.
AndThen(res, f(_)) == IF res.end = "data" THEN f(res.data) ELSE res

Smaller(a, b) == IF a <= b THEN a ELSE b
First(s, k) == SubSeq(s, 1, Smaller(k, Len(s)))
After(s, k) == SubSeq(s, k + 1, Len(s))
-----------------------------------------------------------------------------
(* cipher2/pad.go *)

PadLen(n) == (BlockSize - (n % BlockSize)) % BlockSize

ZeroPad(data) == data \o [i \in 1..PadLen(Len(data)) |-> Zero]

\* The least padlen >= 1 that fills a block, appended as padlen bytes padlen.
Pkcs7Pad(data) ==
  LET padlen == Min({k \in 1..BlockSize : (Len(data) + k) % BlockSize = 0})
  IN  data \o [i \in 1..padlen |-> Byte(padlen)]

Pkcs7Unpad(data) ==
  LET last == data[Len(data)]
  IN  IF \/ data = <<>>
         \/ Len(data) % BlockSize # 0
         \/ last \notin {Byte(n) : n \in 1..BlockSize}
         \/ \E i \in 1..last[2] : data[Len(data) - last[2] + i] # last
      THEN Error
      ELSE Bytes(First(data, Len(data) - last[2]))

\* Three bytes become four characters, the last group is filled up with "=".
Base64(data) ==
  [i \in 1..4 * ((Len(data) + 2) \div 3) |->
     <<"base64", <<First(After(data, 3 * ((i - 1) \div 4)), 3), i % 4>>>>]

Base64Decode(text) ==
  IF Len(text) % 4 # 0 \/ \E i \in 1..Len(text) : text[i][1] # "base64" THEN Error
  ELSE Bytes(FlattenSeq([k \in 1..Len(text) \div 4 |-> text[4 * k][2][1]]))

\* CryptBlocks of the CBC and ECB modes (cipher2/ecbaes.go).
Encrypt(data) == [i \in 1..Len(data) |-> <<"crypt", data[i]>>]
DecryptBlocks(data) ==
  IF Len(data) % BlockSize # 0 THEN Fatal
  ELSE Bytes([i \in 1..Len(data) |-> IF data[i][1] = "crypt" THEN data[i][2] ELSE <<"junk", data[i]>>])

\* Plain bytes of a base64 text, or how the decoding ends.
DecryptText(text) == AndThen(Base64Decode(text), DecryptBlocks)
-----------------------------------------------------------------------------
(* bufio.Reader over a conn: buf holds at most cap bytes, segs are the       *)
(* pieces that have not been read from the conn, then comes io.EOF.          *)

Reader(cap, segs) == [cap |-> cap, buf |-> <<>>, segs |-> segs, eof |-> FALSE]

Fill(r) ==
  IF r.segs = <<>> THEN [r EXCEPT !.eof = TRUE]
  ELSE LET k == Smaller(Len(Head(r.segs)), r.cap - Len(r.buf))
           left == After(Head(r.segs), k)
       IN  [r EXCEPT !.buf = @ \o First(Head(r.segs), k),
                     !.segs = (IF left = <<>> THEN <<>> ELSE <<left>>) \o Tail(@)]

RECURSIVE FillTo(_, _), FillToLine(_)
FillTo(r, n) ==
  IF Len(r.buf) < Smaller(n, r.cap) /\ ~r.eof THEN FillTo(Fill(r), n) ELSE r

FillToLine(r) ==
  IF Len(r.buf) < r.cap /\ ~r.eof /\ ~Contains(r.buf, LF) THEN FillToLine(Fill(r)) ELSE r

\* Mutant: a short Peek is taken for the packet.
ReadBytesOnce(r0, n, b, counter) ==
  LET r == FillTo(r0, n)
  IN  [res |-> Bytes(b \o First(r.buf, n)), r |-> [r EXCEPT !.buf = After(@, n)]]

\* Peek(n) and Discard in a loop.  A packet longer than the buffer is put
\* together from full buffers (ErrBufferFull); at the end of the stream Peek
\* returns io.EOF, or ErrBufferFull with nothing ten times over.
RECURSIVE ReadBytes(_, _, _, _)
AfterPeek(r, n, b, counter) ==
  LET tmp == First(r.buf, n)
      next == [r EXCEPT !.buf = After(@, n)]
  IN  CASE n = 0 -> [res |-> Error, r |-> r]
        [] n > 0 /\ Len(tmp) = n -> [res |-> Bytes(b \o tmp), r |-> next]
        [] Len(tmp) < n /\ n <= r.cap -> [res |-> Error, r |-> next]
        [] n > r.cap /\ Len(tmp) < n -> IF tmp = <<>> /\ counter = 10 THEN [res |-> Error, r |-> next]
                                        ELSE ReadBytes(next, n - Len(tmp), b \o tmp,
                                                       IF tmp = <<>> THEN counter + 1 ELSE counter)
ReadBytes(r, n, b, counter) == AfterPeek(FillTo(r, n), n, b, counter)

\* ReadLine until there is no more: the line without its end.  A full buffer
\* is a part of the line, except for a CR at its end; a line that the end of
\* the stream cuts off is returned as if it were whole.
RECURSIVE ReadLine(_, _)
WithoutCR(s) == IF s # <<>> /\ s[Len(s)] = CR THEN First(s, Len(s) - 1) ELSE s
AfterFill(r, line) ==
  CASE Contains(r.buf, LF) ->
         LET lf == Min({i \in 1..Len(r.buf) : r.buf[i] = LF})
         IN  Bytes(line \o WithoutCR(First(r.buf, lf - 1)))
    [] ~Contains(r.buf, LF) /\ Len(r.buf) = r.cap ->
         LET part == WithoutCR(r.buf)
         IN  ReadLine([r EXCEPT !.buf = After(@, Len(part))], line \o part)
    [] ~Contains(r.buf, LF) /\ Len(r.buf) < r.cap ->
         IF r.buf = <<>> THEN Error ELSE Bytes(line \o r.buf)
ReadLine(r, line) == AfterFill(FillToLine(r), line)
-----------------------------------------------------------------------------
(* DecodeRead of the three ciphers. *)

\* The length, then as many bytes; NetSession has what DecodeData does with
\* the header and the keys, the wrapping of the bytes stands for it here, for
\* a packet that has data after its RSA block.
ReadAllData(r) ==
  LET rest(hdr) ==
        IF hdr.res.end # "data" THEN hdr.res
        ELSE IF hdr.res.data[1][2][1] = 0 THEN Error
        ELSE ReadBytes(hdr.r, hdr.res.data[1][2][1], <<>>, 0).res
  IN  rest(ReadBytes(r, LenSize, <<>>, 0))

DecodeReadSz(r) == AndThen(AndThen(ReadAllData(r), DecryptBlocks), Pkcs7Unpad)

DecodeReadEle(r) == AndThen(ReadLine(r, <<>>), DecryptText)

\* One Read into a slice as long as the buffer goes past it to the conn: it
\* returns what has arrived.
DecodeReadCccfg(r) ==
  LET data == Fill(r).buf IN IF data = <<>> THEN Error ELSE DecryptText(data)

DecodeRead(cipher, r) ==
  CASE cipher = "nj11" -> DecodeReadEle(r)
    [] cipher = "sz12" -> DecodeReadSz(r)
    [] cipher = "cccfg" -> DecodeReadCccfg(r)

\* Mutant: sz12 encrypts in place too.
SliceInPlace(cipher, data, room) == IF PadLen(Len(data)) <= room THEN Encrypt(data) ELSE data

\* The caller's slice after EncodeWrite.  nj11 and cccfg encrypt it in place
\* when it needs no padding or append finds room for it; sz12 copies it.
SliceAfter(cipher, data, room) ==
  IF cipher # "sz12" /\ PadLen(Len(data)) <= room THEN Encrypt(data) ELSE data

\* The bytes that EncodeWrite leaves on the wire.
EncodeWrite(cipher, data) ==
  LET rs == Encrypt(IF cipher = "sz12" THEN Pkcs7Pad(data) ELSE ZeroPad(data))
  IN  CASE cipher = "sz12" -> [i \in 1..LenSize |-> <<"size", <<Len(rs), i>>>>] \o rs
        [] cipher = "nj11" -> Base64(rs) \o <<CR, LF>>
        [] cipher = "cccfg" -> Base64(rs)
-----------------------------------------------------------------------------
(* pdecoder.go *)

\* bytes.Trim(buf, "\x00")
TrimZeros(s) ==
  LET kept == {i \in 1..Len(s) : s[i] # Zero}
  IN  IF kept = {} THEN <<>> ELSE SubSeq(s, Min(kept), Max(kept))

\* A call of the handler, or the end of the request without one.
Request(api, data) == [end |-> "data", api |-> api, data |-> data]
NoRequest(end) == [end |-> end, api |-> 0, data |-> <<>>]

\* The text of a request, as its sender forms it.
RequestText(codeType, api, data) ==
  CASE codeType = "nj11" -> <<<<"api", api>>>> \o Base64(data)
    [] codeType = "sz12" -> <<Char("{"), <<"api", api>>>> \o data \o <<Char("}")>>
    [] codeType = "mt" -> <<<<"api", api>>, <<"high", api>>>> \o data

\* A query without data gives api 0 and no error; JSON has its line feeds
\* removed and must be closed; mt takes two bytes and leaves the rest as it is.
Decode(codeType, buf) ==
  LET s == TrimZeros(buf)
      p == SelectSeq(s, LAMBDA t : t # LF)
      v == Base64Decode(After(s, 1))
  IN  CASE codeType = "nj11" ->
             IF Len(s) < 2 THEN Request(0, <<>>)
             ELSE IF v.end = "error" THEN NoRequest("error") ELSE Request(s[1][2], v.data)
        [] codeType = "sz12" ->
             IF Len(p) < 3 \/ p[1] # Char("{") \/ p[Len(p)] # Char("}") THEN NoRequest("error")
             ELSE Request(p[2][2], SubSeq(p, 3, Len(p) - 1))
        [] codeType = "mt" ->
             IF Len(buf) < 2 THEN NoRequest("error") ELSE Request(buf[1][2], After(buf, 2))

\* What the handler is called with, or how the request ends without a call.
HandleRequestPath(cipher, codeType, r) ==
  LET decoded(raw) == IF raw.end # "data" THEN NoRequest(raw.end)
                      ELSE IF raw.data = <<>> THEN NoRequest("error")
                      ELSE Decode(codeType, raw.data)
  IN  decoded(DecodeRead(cipher, r))
=============================================================================
