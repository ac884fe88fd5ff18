---------------------------- MODULE MCAlgorithms ----------------------------
(* The smaller parts of the library, which have nothing to do with one       *)
(* another: a behaviour is one of one part, and the others stay where they   *)
(* begin.  The algorithms without state are one such part, which chooses one *)
(* input; the invariants compare the results with what they should be.       *)
EXTENDS LogTables, SSHDial, StreamPack, IPRegions, FileServer, RecordTypes,
        RequestPath, MapTree, WebParams, TLC

CONSTANT Start

VARIABLES
  part,  \* the part that the behaviour is about
  in     \* the input chosen for the algorithms without state

Symmetry == Permutations(Checkers) \cup Permutations(Keys)
-----------------------------------------------------------------------------
(* The country of an address: up to three ranges in order, one of a country  *)
(* that the other file does not list; one is listed twice, in lower and      *)
(* upper case.                                                               *)

MaxAddress == 5

MCLower == ("cn" :> "cn") @@ ("CN" :> "cn") @@ ("us" :> "us") @@ ("US" :> "us") @@ ("zz" :> "zz")
MCCodes == DOMAIN MCLower
MCCountries == <<[code |-> "cn"], [code |-> "US"], [code |-> "CN"]>>

\* The tables, and those with one range more.
RangeCodes == <<"CN", "us", "zz">>
Longer(ts) ==
  ts \cup {Append(r[1], [from |-> r[2], to |-> r[3], code |-> RangeCodes[Len(r[1]) + 1]]) :
             r \in {s \in ts \X (0..MaxAddress) \X (0..MaxAddress) :
                     s[2] <= s[3] /\ (s[1] # <<>> => s[1][Len(s[1])].to < s[2])}}
MCTables == Longer(Longer(Longer({<<>>})))

\* As net.ParseIP returns them, and as four bytes.
MCAddresses == {<<n>> : n \in 0..(MaxAddress + 1)} \cup {<<0, 0, 0, n>> : n \in 0..(MaxAddress + 1)}
-----------------------------------------------------------------------------
(* The file server: trees two levels deep of files and directories with two  *)
(* names, in which the directories hold the same, and paths in and below.    *)

MCNames == {"a", "index.html"}
MCPaths == UNION {[1..k -> MCNames] : k \in 0..3}

MaybeKinds == Kinds \cup {"none"}
MCFileSystems ==
  {LET tops == {<<m>> : m \in {m \in MCNames : top[m] # "none"}}
       subs == {<<p, m>> : p \in {q \in MCNames : top[q] = "dir"}, m \in {q \in MCNames : sub[q] # "none"}}
   IN  [p \in {<<>>} \cup tops \cup subs |->
          IF p = <<>> THEN "dir" ELSE IF p \in tops THEN top[p[1]] ELSE sub[p[2]]] :
     top \in [MCNames -> MaybeKinds], sub \in [MCNames -> MaybeKinds]}
-----------------------------------------------------------------------------
(* Records are read into new ones, whose flag has no byte yet, and into ones  *)
(* whose flag is set, not set, or longer than a byte.                        *)

MCSlices == {<<>>, <<0>>, <<1>>, <<0, 1>>}
-----------------------------------------------------------------------------
(* Inputs of the algorithms without state. *)

Case(op, input) == in' = [op |-> op] @@ input
Is(op) == in # Start /\ in.op = op
Symbols(n) == [i \in 1..n |-> Byte(i)]

\* Every way to cut a sequence into pieces.
RECURSIVE Cuts(_)
Cuts(s) ==
  IF s = <<>> THEN {<<>>}
  ELSE UNION {{<<SubSeq(s, 1, k)>> \o c : c \in Cuts(SubSeq(s, k + 1, Len(s)))} : k \in 1..Len(s)}

\* A request cut into pieces, the last ones of its bytes perhaps lost, and a
\* buffer that is shorter than the request, or longer.
ReadCase ==
  /\ in = Start
  /\ \E way \in {<<"nj11", "nj11">>, <<"sz12", "sz12">>, <<"sz12", "mt">>, <<"cccfg", "nj11">>},
        n \in 1..3, cap \in {3, 5, 32} :
       LET wire == EncodeWrite(way[1], RequestText(way[2], 1, Symbols(n)))
       IN  \E lost \in 0..2 : \E segs \in Cuts(SubSeq(wire, 1, Len(wire) - lost)) :
             Case("read", [way |-> way, n |-> n, cap |-> cap, lost |-> lost, segs |-> segs])

\* An answer in a slice with or without room after it.
WriteCase ==
  /\ in = Start
  /\ \E cipher \in {"nj11", "sz12", "cccfg"}, room \in 0..2, cap \in {3, 32},
        data \in UNION {[1..n -> {Byte(k) : k \in 1..3}] : n \in 1..4} :
       Case("write", [cipher |-> cipher, room |-> room, cap |-> cap, data |-> data])

\* Objects a, b and c in the root, which name one another as bases, with an
\* object n in each and a list in c, ranged over in any order of a, b and c.  The
\* object n of c may name as its base an object t that only c has.
Str(s) == <<"str", s>>
Based(base) == IF base = "" THEN <<>> ELSE BaseKey :> Str(base)
Object(name, base, x, n, nested) ==
  Based(base) @@ (IF x THEN "x" :> Str(name) ELSE <<>>)
              @@ (IF n # "none" THEN "n" :> <<"obj", nested>> ELSE <<>>)
Nested(name, n) == ("y" :> Str(name)) @@ Based(IF n = "plain" THEN "" ELSE n)

MapCase ==
  /\ in = Start
  /\ \E baseA \in {"", "b", "c"}, baseB \in {"", "c"}, x \in [{"a", "b", "c"} -> BOOLEAN],
        nA \in {"none", "plain", "b", "c"}, nB \in {"none", "plain", "c"}, nC \in {"none", "plain", "t"},
        list \in BOOLEAN, order \in {<<"a", "b", "c">>, <<"a", "c", "b">>, <<"b", "a", "c">>,
                                     <<"b", "c", "a">>, <<"c", "a", "b">>, <<"c", "b", "a">>} :
       Case("map", [order |-> order \o <<"x", "n", "t", "y", "l", BaseKey, NameKey>>,
                    h |-> <<("a" :> <<"obj", 2>>) @@ ("b" :> <<"obj", 3>>) @@ ("c" :> <<"obj", 4>>),
                            Object("a", baseA, x["a"], nA, 5),
                            Object("b", baseB, x["b"], nB, 6),
                            (IF list THEN "l" :> <<"arr", <<Str("i"), Str("j")>>>> ELSE <<>>)
                              @@ (IF nC = "t" THEN "t" :> <<"obj", 8>> ELSE <<>>)
                              @@ Object("c", "", x["c"], nC, 7),
                            Nested("a", nA), Nested("b", nB), Nested("c", nC), "x" :> Str("t")>>])

Tags == {TagOrder[i] : i \in 1..Len(TagOrder)}
SignCase ==
  /\ in = Start
  /\ \E tags, known \in SUBSET Tags, signType \in SignTypes \cup {"none"} :
       Case("sign", [fields |-> [t \in tags |-> IF t = "amount" THEN <<"1">> ELSE <<"x", "y">>],
                     known |-> known, signType |-> signType])

AlgorithmsNext == ReadCase \/ WriteCase \/ MapCase \/ SignCase
-----------------------------------------------------------------------------
\* A part that the behaviour is not about has one initial state.
Init ==
  /\ part \in {"algorithms", "log", "dial", "stream", "regions", "files", "records"}
  /\ in = Start /\ LogInit /\ StreamInit /\ IPInit
  /\ part = "dial" \/ (clock = 1 /\ config = HostMapToSSHConfig(NoKey))
  /\ DialInit
  /\ part = "files" \/ (fs = (<<>> :> "dir") /\ asked = [path |-> <<>>, slash |-> TRUE])
  /\ FileInit
  /\ part = "records" \/ \E t \in {CHOOSE t \in Times : TRUE} : born = [time |-> t, flag |-> TRUE]
  /\ RecordInit

Next ==
  \/ /\ part = "algorithms" /\ AlgorithmsNext
     /\ UNCHANGED <<part, logVars, dialVars, streamVars, ipVars, fileVars, recordVars>>
  \/ /\ part = "log" /\ LogNext
     /\ UNCHANGED <<part, in, dialVars, streamVars, ipVars, fileVars, recordVars>>
  \/ /\ part = "dial" /\ DialNext
     /\ UNCHANGED <<part, in, logVars, streamVars, ipVars, fileVars, recordVars>>
  \/ /\ part = "stream" /\ StreamNext
     /\ UNCHANGED <<part, in, logVars, dialVars, ipVars, fileVars, recordVars>>
  \/ /\ part = "regions" /\ IPNext
     /\ UNCHANGED <<part, in, logVars, dialVars, streamVars, fileVars, recordVars>>
  \/ /\ part = "files" /\ FileNext
     /\ UNCHANGED <<part, in, logVars, dialVars, streamVars, ipVars, recordVars>>
  \/ /\ part = "records" /\ RecordNext
     /\ UNCHANGED <<part, in, logVars, dialVars, streamVars, ipVars, fileVars>>

vars == <<part, in, logVars, dialVars, streamVars, ipVars, fileVars, recordVars>>

Spec == Init /\ [][Next]_vars
-----------------------------------------------------------------------------
(* What is checked of the algorithms without state. *)

\* The handler is called with the api and the data that the client sent,
\* however TCP cuts the request and however short the buffer is.  cccfg reads
\* once, so it needs the request in one piece that fits.  A packet of sz12
\* that has lost its end is refused, never passed on in part.
RequestDelivered ==
  Is("read") =>
    LET got == HandleRequestPath(in.way[1], in.way[2], Reader(in.cap, in.segs))
        whole == in.way[1] = "cccfg" => Len(in.segs) = 1 /\ Len(in.segs[1]) <= in.cap
    IN  /\ in.lost = 0 /\ whole => got = Request(1, Symbols(in.n))
        /\ in.lost > 0 /\ in.way[1] = "sz12" => got = NoRequest("error")

\* The client reads what the handler wrote, up to zeros; with sz12 also when
\* the handler writes the same slice again, which the other ciphers may have
\* encrypted in place.
AnswerReadable ==
  Is("write") =>
    LET again == SliceAfter(in.cipher, in.data, in.room)
        cap == IF in.cipher = "cccfg" THEN 32 ELSE in.cap
        read(data) == DecodeRead(in.cipher, Reader(cap, <<EncodeWrite(in.cipher, data)>>))
    IN  /\ read(in.data).end = "data" /\ TrimZeros(read(in.data).data) = in.data
        /\ in.cipher = "sz12" => read(again) = read(in.data)

\* In whatever order the maps are ranged over, an object keeps its own keys and
\* gains none but those of its bases, no two places share an object, and where
\* every base is an object of the root it gains them all.  (A base that is named
\* inside another object may be looked for in the root, and then it is dropped:
\* whether it is depends on the order.)
InheritanceResolves ==
  Is("map") =>
    LET read == ReadMap(in.h, in.order)
        tree == Tree(read[2], 1)
        objects == ObjectsBelow(read[2], 1, in.order)
    IN  /\ read[1]
        /\ Within(Tree(in.h, 1), tree) /\ Within(tree, Resolved(in.h, 1, <<>>))
        /\ RootBases(in.h) => tree = Resolved(in.h, 1, <<>>)
        /\ \A i, j \in 1..Len(objects) : objects[i] = objects[j] => i = j

\* What is sent verifies, and not with any value changed; what the receiver
\* parsed verifies exactly when its struct has a tag for everything that was
\* sent, nonce_str, sign_type and sign included.
SignedVerifies ==
  Is("sign") =>
    LET signed == BuildSignedValues(in.fields, in.signType, "key", "n1", "n2")
        verifies(values) == VerifyValuesSign(values, in.signType, "key")
    IN  signed.ok =>
          /\ verifies(signed.values)
          /\ \A k \in DOMAIN signed.values \ {KNameSign} : ~verifies([signed.values EXCEPT ![k] = <<"z">>])
          /\ verifies(ParseWebParams(signed.values, in.known, {})) <=> DOMAIN signed.values \subseteq in.known
=============================================================================
