----------------------------- MODULE WebParams -----------------------------
(* Signed request parameters (netutils/webparams.go).  A struct of the       *)
(* caller is a function from the webvar tags of its fields to their values,  *)
(* a value is a sequence of characters.                                      *)
EXTENDS Naturals, Sequences, TLC

LOCAL INSTANCE SequencesExt

KNameSign == "sign"
KNameSignType == "sign_type"
KNameNonceStr == "nonce_str"
SignTypes == {"md5", "rsa1", "rsa2"}

\* The tags in alphabetical order.
TagOrder == <<"amount", "name", "nonce_str", "sign", "sign_type", "timestamp">>

\* buildValuesSignData: key=value of every key but sign, joined by "&".
BuildValuesSignData(values) ==
  LET keys == SelectSeq(TagOrder, LAMBDA k : k \in DOMAIN values \ {KNameSign})
  IN  FlattenSeq([i \in 1..Len(keys) |->
                    (IF i = 1 THEN <<>> ELSE <<"&">>) \o <<keys[i], "=">> \o values[keys[i]]])

\* Only the holder of the key makes a signature; <<>> for an unknown type.
SignWithKey(data, signType, key) ==
  CASE signType = "md5" -> <<<<"md5", data \o <<"&key=", key>>>>>>
    [] signType = "rsa1" -> <<<<"sha1", key, data>>>>
    [] signType = "rsa2" -> <<<<"sha256", key, data>>>>
    [] signType \notin SignTypes -> <<>>

\* Mutant: the type of the signature is set after the data has been signed.
BuildSignedValuesLate(fields, signType, key, nonce1, nonce2) ==
  LET filled == [t \in DOMAIN fields |-> IF t = KNameNonceStr THEN <<nonce1>> ELSE fields[t]]
      values == (KNameNonceStr :> <<nonce2>>) @@ filled
      sign == SignWithKey(BuildValuesSignData(values), signType, key)
  IN  [ok |-> signType \in SignTypes,
       values |-> (KNameSign :> sign) @@ (KNameSignType :> <<signType>>) @@ values,
       fields |-> filled]

\* BuildSignedValues: the values to send, and the struct afterwards.  The
\* nonce that is sent is not the one that is stored in the struct.
BuildSignedValues(fields, signType, key, nonce1, nonce2) ==
  LET filled == [t \in DOMAIN fields |->
                   CASE t = KNameNonceStr -> <<nonce1>>
                     [] t = KNameSignType -> <<signType>>
                     [] OTHER -> fields[t]]
      values == (KNameSignType :> <<signType>>) @@ (KNameNonceStr :> <<nonce2>>) @@ filled
      sign == SignWithKey(BuildValuesSignData(values), signType, key)
  IN  [ok |-> signType \in SignTypes,
       values |-> (KNameSign :> sign) @@ values,
       fields |-> [t \in DOMAIN filled |-> IF t = KNameSign THEN sign ELSE filled[t]]]

\* VerifyValuesSign: any type that is neither md5 nor rsa1 is taken for rsa2.
VerifyValuesSign(values, signType, key) ==
  LET data == BuildValuesSignData(values)
      type == IF signType \in {"md5", "rsa1"} THEN signType ELSE "rsa2"
  IN  /\ data # <<>>
      /\ KNameSign \in DOMAIN values
      /\ values[KNameSign] = SignWithKey(data, type, key)

\* ParseWebParams: the values it returns are those that the struct has a tag
\* for; discard names tags to leave out.
ParseWebParams(query, tags, discard) == [t \in (DOMAIN query \cap tags) \ discard |-> query[t]]
=============================================================================
