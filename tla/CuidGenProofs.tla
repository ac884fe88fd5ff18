---------------------------- MODULE CuidGenProofs ----------------------------
(***************************************************************************)
(* For every width of the fields, every number of InitCuidDev calls and of *)
(* users: CuidGen keeps TypeOK, and NewCUID returns no id twice inside the *)
(* design envelope.  UniqueIds is not inductive: it says nothing of the    *)
(* offer that waits on the channel, nor of the counters a later turn may   *)
(* reach.  Envelope adds both: the ids of the current second lie in the    *)
(* range of counters that runs from lastCounter around to counter, and a   *)
(* turn that does not skip takes a counter outside that range.             *)
(***************************************************************************)
EXTENDS CuidGen, TLAPS

Offers == [id : [time : Nat, counter : Nat, dev : Nat], sec : Nat, ctr : Nat]

IInv ==
  /\ TypeOK
  /\ cause = {} => /\ issued \in Seq(Offers)
                   /\ pending \in [Initers -> Offers]
                   /\ Envelope

\* A field that does not overflow spills nothing.
LEMMA SmallField ==
  ASSUME NEW a \in Nat, NEW b \in Nat \ {0}, a < b
  PROVE  a \div b = 0 /\ a % b = a
BY SMTT(30)

\* Inside the envelope the encoding is faithful: shifting and or-ing loses
\* nothing.
LEMMA FaithfulOffer ==
  ASSUME TypeOK, gCUIDDevID >= 0, gCUIDDevID <= devIDMax,
         NEW t \in Nat, NEW c \in Nat, c <= counterMax
  PROVE  /\ Offer(t, c) \in Offers
         /\ Offer(t, c).sec = t /\ Offer(t, c).ctr = c
         /\ Offer(t, c).id.time = t /\ Offer(t, c).id.counter = c
<1> USE ConstantsAssumption DEF TypeOK
<1>1. gCUIDDevID \in Nat /\ gCUIDDevID < DevSize /\ c < CounterSize
  BY DEF devIDMax, counterMax
<1>a. gCUIDDevID \div DevSize = 0 /\ gCUIDDevID % DevSize = gCUIDDevID
  BY ONLY <1>1, SmallField, ConstantsAssumption
<1>b. CounterSize \in Nat \ {0}
  OBVIOUS
<1>2. c \div CounterSize = 0 /\ c % CounterSize = c
  BY <1>1, <1>b, SmallField
<1>3. CUID(t, c, gCUIDDevID)
        = [time |-> t, counter |-> c, dev |-> gCUIDDevID]
  BY <1>a, <1>2 DEF CUID, BitOr
<1>4. QED
  BY <1>1, <1>3 DEF Offer, Offers

\* The types are kept by every step.
LEMMA TypeStep == TypeOK /\ [Next]_vars => TypeOK'
<1> SUFFICES ASSUME TypeOK, [Next]_vars PROVE TypeOK'
  OBVIOUS
<1> USE ConstantsAssumption DEF TypeOK, initVars, userVars, genVars, Causes
<1>1. ASSUME NEW i \in Initers, TestDevID(i) PROVE TypeOK'
  BY <1>1 DEF TestDevID
<1>2. ASSUME NEW i \in Initers, SetDevID(i) PROVE TypeOK'
  BY <1>2 DEF SetDevID
<1>3. ASSUME NEW i \in Initers, CheckDevID(i) PROVE TypeOK'
  BY <1>3 DEF CheckDevID
<1>4. ASSUME NEW i \in Initers, InvalidTime(i) PROVE TypeOK'
  BY <1>4 DEF InvalidTime
<1>5. ASSUME NEW i \in Initers, NewSecond(i) PROVE TypeOK'
  BY <1>5 DEF NewSecond, ValidTime
<1>6. ASSUME NEW i \in Initers, SameSecond(i) PROVE TypeOK'
  BY <1>6 DEF SameSecond, WrappedCounter
<1>7. ASSUME NEW i \in Initers, SkipTurn(i) PROVE TypeOK'
  BY <1>7 DEF SkipTurn, WrappedCounter
<1>8. ASSUME NEW u \in Users, NewCUID(u) PROVE TypeOK'
  BY <1>8 DEF NewCUID
<1>9. ASSUME NEW i \in Initers, NEW u \in Users, Handoff(i, u) PROVE TypeOK'
  BY <1>9 DEF Handoff
<1>10. ASSUME Tick PROVE TypeOK'
  BY <1>10 DEF Tick
<1>11. ASSUME ClockBack PROVE TypeOK'
  BY <1>11 DEF ClockBack
<1>12. ASSUME UNCHANGED vars PROVE TypeOK'
  BY <1>12 DEF vars
<1>13. QED
  BY <1>1, <1>2, <1>3, <1>4, <1>5, <1>6, <1>7, <1>8, <1>9, <1>10, <1>11, <1>12
     DEF Next, LoopTurn

-----------------------------------------------------------------------------
\* A turn in a second that has begun takes a counter the second has not used,
\* and the range of used counters grows by just that counter.
LEMMA FreshCounter ==
  ASSUME TypeOK, NEW i \in Initers, NEW n, n = WrappedCounter(i),
         counter[i] < counterMax, lastCounter[i] < counterMax,
         counter[i] > 0, lastCounter[i] > 0, n # lastCounter[i],
         counter' = [counter EXCEPT ![i] = n],
         lastCounter' = lastCounter
  PROVE  /\ n \in Nat /\ n > 0 /\ n < counterMax
         /\ ~Used(i, n)
         /\ \A c \in Nat : Used(i, c) => Used(i, c)'
         /\ Used(i, n)'
<1>1. PICK C \in Nat, B \in Nat : C = counter[i] /\ B = lastCounter[i]
  BY DEF TypeOK
<1>2. counterMax \in Nat /\ counter'[i] = n /\ lastCounter'[i] = B
  BY <1>1, ConstantsAssumption DEF TypeOK, counterMax
<1>3. n = IF C + 1 >= counterMax THEN 1 ELSE C + 1
  BY <1>1 DEF WrappedCounter
<1>4. \A c : Used(i, c) <=> IF B <= C THEN B <= c /\ c <= C ELSE B <= c \/ c <= C
  BY <1>1 DEF Used
<1>5. \A c : Used(i, c)' <=> IF B <= n THEN B <= c /\ c <= n ELSE B <= c \/ c <= n
  BY <1>2 DEF Used
<1>6. n \in Nat /\ n > 0 /\ n < counterMax
  BY <1>1, <1>2, <1>3
<1>7. ~Used(i, n)
  BY <1>1, <1>2, <1>3, <1>4, <1>6
<1>8. \A c \in Nat : Used(i, c) => Used(i, c)'
  BY <1>1, <1>2, <1>3, <1>4, <1>5, <1>6
<1>9. Used(i, n)'
  BY <1>5, <1>6
<1>10. QED
  BY <1>6, <1>7, <1>8, <1>9

\* A step that changes no id, no counter and no offer, and starts no generator,
\* stays in the envelope.
LEMMA EnvelopeFrame ==
  ASSUME TypeOK, TypeOK', Envelope, clock' >= clock,
         UNCHANGED <<gCUIDDevID, genVars, issued>>,
         \A i \in Initers : /\ Started(i)' <=> Started(i)
                            /\ gpc'[i] = "send" => gpc[i] = "send"
                            /\ gpc'[i] = "loop" => gCUIDDevID <= devIDMax
  PROVE  Envelope'
<1> USE DEF genVars
<1>1. clock' > 0 /\ gCUIDDevID' >= 0
  BY DEF Envelope, TypeOK
<1>2. OneGenerator'
  BY DEF Envelope, OneGenerator
<1>3. ASSUME NEW i \in Initers PROVE InRange(i)'
  BY DEF Envelope, InRange, TypeOK, counterMax, devIDMax
<1>4. ASSUME NEW i \in Initers, gpc'[i] = "send" PROVE FreshOffer(i)'
  BY <1>4 DEF Envelope, FreshOffer, Used
<1>5. ASSUME NEW i \in Initers, Started(i)' PROVE IdsBehind(i)'
  BY <1>5 DEF Envelope, IdsBehind, Used
<1>6. Faithful' /\ Distinct'
  BY DEF Envelope, Faithful, Distinct
<1>7. QED
  BY <1>1, <1>2, <1>3, <1>4, <1>5, <1>6 DEF Envelope

\* A turn that offers (t, n), with t the current second of generator i and n a
\* counter that no id of that second has, stays in the envelope.
LEMMA EnvelopeOffer ==
  ASSUME TypeOK, TypeOK', Envelope, NEW i \in Initers, NEW n \in Nat,
         gpc[i] = "loop", gpc' = [gpc EXCEPT ![i] = "send"],
         n > 0, n < counterMax, clock > 0,
         pending \in [Initers -> Offers],
         pending' = [pending EXCEPT ![i] = Offer(clock, n)],
         counter' = [counter EXCEPT ![i] = n],
         lastTime' = [lastTime EXCEPT ![i] = clock],
         lastCounter'[i] > 0, lastCounter'[i] < counterMax,
         \A j \in Initers \ {i} : lastCounter'[j] = lastCounter[j],
         UNCHANGED <<gCUIDDevID, issued, clock>>,
         Used(i, n)',
         \A k \in 1..Len(issued) : issued[k].sec = clock =>
             issued[k].ctr # n /\ Used(i, issued[k].ctr)',
         \A k \in 1..Len(issued) : issued[k].sec <= clock
  PROVE  Envelope' /\ Offer(clock, n) \in Offers
<1>1. clock \in Nat /\ n <= counterMax /\ gCUIDDevID >= 0 /\ gCUIDDevID <= devIDMax
  BY ConstantsAssumption DEF TypeOK, counterMax, Envelope, InRange
<1>2. /\ Offer(clock, n) \in Offers
      /\ Offer(clock, n).sec = clock /\ Offer(clock, n).ctr = n
      /\ Offer(clock, n).id.time = clock /\ Offer(clock, n).id.counter = n
  BY <1>1, FaithfulOffer
<1>3. /\ \A j \in Initers : Started(j)' <=> Started(j)
      /\ Started(i)
  BY DEF Started, TypeOK
<1>4. OneGenerator'
  BY <1>3 DEF Envelope, OneGenerator
<1>5. \A j \in Initers : j # i => ~Started(j)
  BY <1>3 DEF Envelope, OneGenerator
<1>6. ASSUME NEW j \in Initers PROVE InRange(j)'
  <2>1. CASE j = i
    BY <2>1, <1>1 DEF InRange, TypeOK, devIDMax, counterMax
  <2>2. CASE j # i
    BY <2>2, <1>1 DEF Envelope, InRange, TypeOK, devIDMax, counterMax
  <2>3. QED
    BY <2>1, <2>2
<1>7. FreshOffer(i)'
  <2>1. /\ pending'[i] = Offer(clock, n)
        /\ counter'[i] = n /\ lastTime'[i] = clock /\ issued' = issued
    BY DEF TypeOK
  <2>2. QED
    BY <1>2, <2>1 DEF FreshOffer
<1>8. IdsBehind(i)'
  BY <1>1 DEF IdsBehind, TypeOK
<1>9. ASSUME NEW j \in Initers, j # i PROVE gpc'[j] # "send" /\ ~Started(j)'
  BY <1>3, <1>5, <1>9 DEF Started
<1>10. Faithful' /\ Distinct'
  BY DEF Envelope, Faithful, Distinct
<1>11. QED
  BY <1>2, <1>4, <1>6, <1>7, <1>8, <1>9, <1>10 DEF Envelope

\* Every step inside the envelope stays inside it or records a cause.
LEMMA EnvelopeStep == IInv /\ [Next]_vars => IInv'
<1> SUFFICES ASSUME IInv, [Next]_vars PROVE IInv'
  OBVIOUS
<1>t. TypeOK /\ TypeOK'
  BY TypeStep DEF IInv
<1>0. SUFFICES ASSUME cause' = {}
               PROVE  /\ issued' \in Seq(Offers)
                      /\ pending' \in [Initers -> Offers]
                      /\ Envelope'
  BY <1>t DEF IInv
<1> DEFINE Goal == /\ issued' \in Seq(Offers)
                   /\ pending' \in [Initers -> Offers]
                   /\ Envelope'
<1>c. cause = {}
  BY <1>0 DEF Next, LoopTurn, TestDevID, SetDevID, CheckDevID, InvalidTime,
     NewSecond, SameSecond, SkipTurn, NewCUID, Handoff, Tick, ClockBack, vars
<1>e. Envelope
  BY <1>c DEF IInv
<1>s. issued \in Seq(Offers) /\ pending \in [Initers -> Offers]
  BY <1>c DEF IInv
<1>r. \A k \in 1..Len(issued) : issued[k] \in Offers
  BY <1>s
<1>n. \A k \in 1..Len(issued) : issued[k].ctr \in Nat /\ issued[k].sec \in Nat
  BY <1>r DEF Offers
<1> USE DEF initVars, userVars, genVars
<1>f. ASSUME clock' >= clock,
             UNCHANGED <<gCUIDDevID, genVars, issued>>,
             \A i \in Initers : /\ Started(i)' <=> Started(i)
                                /\ gpc'[i] = "send" => gpc[i] = "send"
                                /\ gpc'[i] = "loop" => gCUIDDevID <= devIDMax
      PROVE  Goal
  BY <1>f, <1>e, <1>s, <1>t, EnvelopeFrame
<1>d. \A i \in Initers : gpc[i] = "loop" => gCUIDDevID <= devIDMax
  BY <1>e DEF Envelope, InRange
<1>k. clock \in Int /\ clock >= clock
  BY <1>t DEF TypeOK
<1>1. ASSUME NEW i \in Initers, TestDevID(i) PROVE Goal
  BY <1>1, <1>d, <1>k, <1>f DEF TestDevID, Started
<1>2. ASSUME NEW i \in Initers, SetDevID(i) PROVE Goal
  <2>1. \A j \in Initers : gpc[j] = "none"
    BY <1>2, <1>0 DEF SetDevID
  <2>2. issued = <<>>
    BY <1>e, <2>1 DEF Envelope, OneGenerator, Started
  <2>3. \A j \in Initers : gpc'[j] = IF j = i THEN "start" ELSE "none"
    BY <1>2, <2>1, <1>t DEF SetDevID, TypeOK
  <2>4. UNCHANGED <<issued, pending, counter, lastCounter, lastTime, clock>>
    BY <1>2 DEF SetDevID
  <2>5. OneGenerator' /\ Faithful' /\ Distinct'
    BY <2>2, <2>3, <2>4 DEF OneGenerator, Started, Faithful, Distinct
  <2>6. ASSUME NEW j \in Initers PROVE InRange(j)' /\ IdsBehind(j)' /\ gpc'[j] # "send"
    BY <2>2, <2>3, <2>4, <1>e DEF Envelope, InRange, IdsBehind
  <2>7. gCUIDDevID' >= 0
    <3>1. gCUIDDevID' \in Int
      BY <1>t, ConstantsAssumption DEF TypeOK
    <3> QED BY <1>2, <1>0, <3>1 DEF SetDevID
  <2>8. QED
    BY <1>e, <1>s, <2>4, <2>5, <2>6, <2>7 DEF Envelope
<1>3. ASSUME NEW i \in Initers, CheckDevID(i) PROVE Goal
  <2>1. \A j \in Initers : /\ Started(j)' <=> Started(j)
                           /\ gpc'[j] = "send" => gpc[j] = "send"
    BY <1>3, <1>t DEF CheckDevID, Started, TypeOK
  <2>2. gCUIDDevID \in Int /\ devIDMax \in Int
    BY <1>t, ConstantsAssumption DEF TypeOK, devIDMax
  <2>3. \A j \in Initers : gpc'[j] = "loop" => gCUIDDevID <= devIDMax
    BY <1>3, <1>t, <1>d, <2>2 DEF CheckDevID, TypeOK
  <2>4. QED
    BY <1>3, <1>k, <1>f, <2>1, <2>3 DEF CheckDevID
<1>4. ASSUME NEW i \in Initers, InvalidTime(i) PROVE Goal
  <2>1. \A j \in Initers : /\ Started(j)' <=> Started(j)
                           /\ gpc'[j] \in {"send", "loop"} => gpc'[j] = gpc[j]
    BY <1>4, <1>t DEF InvalidTime, Started, TypeOK
  <2>2. QED
    BY <1>4, <1>k, <1>d, <1>f, <2>1 DEF InvalidTime
<1>5. ASSUME NEW i \in Initers, NewSecond(i) PROVE Goal
  <2>a. PICK n : n = counter[i] + 1
    OBVIOUS
  <2>1. counter[i] \in Nat /\ lastTime[i] \in Nat /\ counterMax \in Int
    BY <1>t, ConstantsAssumption DEF TypeOK, counterMax
  <2>2. ~(n >= counterMax)
    BY <1>5, <1>0, <2>a DEF NewSecond
  <2>3. n \in Nat /\ n > 0 /\ n < counterMax
    BY <2>1, <2>2, <2>a
  <2>4. /\ gpc[i] = "loop" /\ gpc' = [gpc EXCEPT ![i] = "send"]
        /\ counter' = [counter EXCEPT ![i] = n]
        /\ lastCounter' = [lastCounter EXCEPT ![i] = n]
        /\ lastTime' = [lastTime EXCEPT ![i] = clock] /\ lastTime[i] # clock
        /\ pending' = [pending EXCEPT ![i] = Offer(clock, n)]
        /\ UNCHANGED <<gCUIDDevID, issued, clock>>
    BY <1>5, <2>a DEF NewSecond
  <2>5. lastTime[i] < clock /\ clock > 0
    BY <2>1, <2>4, <1>e, <1>k DEF Envelope, InRange
  <2>6. \A k \in 1..Len(issued) : issued[k].sec < clock
    BY <2>1, <2>4, <2>5, <1>e, <1>n, <1>k DEF Envelope, IdsBehind, Started
  <2>7. /\ lastCounter'[i] = n /\ counter'[i] = n
        /\ \A j \in Initers \ {i} : lastCounter'[j] = lastCounter[j]
    BY <2>4, <1>t DEF TypeOK
  <2>8. Used(i, n)'
    BY <2>3, <2>7 DEF Used
  <2>9. \A k \in 1..Len(issued) : issued[k].sec # clock /\ issued[k].sec <= clock
    BY <2>6, <1>n, <1>k
  <2>10. Envelope' /\ Offer(clock, n) \in Offers
    BY <2>3, <2>4, <2>5, <2>7, <2>8, <2>9, <1>e, <1>s, <1>t, EnvelopeOffer
  <2>11. QED
    BY <2>4, <2>10, <1>s
<1>6. ASSUME NEW i \in Initers, SameSecond(i) PROVE Goal
  <2>a. PICK n : n = WrappedCounter(i)
    OBVIOUS
  <2>1. /\ gpc[i] = "loop" /\ gpc' = [gpc EXCEPT ![i] = "send"]
        /\ counter' = [counter EXCEPT ![i] = n]
        /\ lastCounter' = lastCounter /\ n # lastCounter[i]
        /\ lastTime' = lastTime /\ lastTime[i] = clock
        /\ pending' = [pending EXCEPT ![i] = Offer(clock, n)]
        /\ UNCHANGED <<gCUIDDevID, issued, clock>>
    BY <1>6, <2>a DEF SameSecond
  <2>2. /\ clock > 0
        /\ counter[i] < counterMax /\ lastCounter[i] < counterMax
        /\ counter[i] > 0 /\ lastCounter[i] > 0
    BY <2>1, <1>e DEF Envelope, InRange
  <2>3. /\ n \in Nat /\ n > 0 /\ n < counterMax
        /\ ~Used(i, n)
        /\ \A c \in Nat : Used(i, c) => Used(i, c)'
        /\ Used(i, n)'
    BY <2>1, <2>2, <2>a, <1>t, FreshCounter
  <2>4. \A k \in 1..Len(issued) :
          /\ issued[k].sec <= clock
          /\ issued[k].sec = clock => Used(i, issued[k].ctr)
    BY <2>1, <1>e DEF Envelope, IdsBehind, Started
  <2>5. \A k \in 1..Len(issued) : issued[k].sec = clock =>
           issued[k].ctr # n /\ Used(i, issued[k].ctr)'
    BY <2>1, <2>3, <2>4, <1>n
  <2>6. lastTime' = [lastTime EXCEPT ![i] = clock]
    BY <2>1, <1>t DEF TypeOK
  <2>7. Envelope' /\ Offer(clock, n) \in Offers
    BY <2>1, <2>2, <2>3, <2>4, <2>5, <2>6, <1>e, <1>s, <1>t, EnvelopeOffer
  <2>8. QED
    BY <2>1, <2>7, <1>s
<1>7. ASSUME NEW i \in Initers, SkipTurn(i) PROVE FALSE
  BY <1>7, <1>0 DEF SkipTurn
<1>8. ASSUME NEW u \in Users, NewCUID(u) PROVE Goal
  BY <1>8, <1>d, <1>k, <1>f DEF NewCUID, Started
<1>9. ASSUME NEW i \in Initers, NEW u \in Users, Handoff(i, u) PROVE Goal
  <2>1. /\ issued' \in Seq(Offers) /\ Len(issued) \in Nat
        /\ Len(issued') = Len(issued) + 1
        /\ \A k \in 1..Len(issued) : issued'[k] = issued[k]
        /\ issued'[Len(issued) + 1] = pending[i]
    BY <1>9, <1>s DEF Handoff
  <2>2. \A j \in Initers : /\ Started(j)' <=> Started(j)
                           /\ gpc'[j] = IF j = i THEN "loop" ELSE gpc[j]
    BY <1>9, <1>t DEF Handoff, Started, TypeOK
  <2>3. Started(i) /\ gpc[i] = "send"
    BY <1>9 DEF Handoff, Started
  <2>4. FreshOffer(i) /\ IdsBehind(i) /\ InRange(i)
    BY <2>3, <1>e DEF Envelope
  <2>5. UNCHANGED <<counter, lastCounter, lastTime, pending, clock, gCUIDDevID>>
    BY <1>9 DEF Handoff
  <2>6. \A j \in Initers : Started(j) => j = i
    BY <2>3, <1>e DEF Envelope, OneGenerator
  <2>7. OneGenerator'
    BY <2>2, <2>3, <2>6 DEF OneGenerator
  <2>8. Distinct'
    BY <1>e, <2>1, <2>4 DEF Envelope, Distinct, FreshOffer
  <2>9. Faithful'
    BY <1>e, <2>1, <2>4 DEF Envelope, Faithful, FreshOffer
  <2>10. IdsBehind(i)'
    <3>1. lastTime[i] \in Nat
      BY <1>t DEF TypeOK
    <3>2. \A c : Used(i, c)' <=> Used(i, c)
      BY <2>5 DEF Used
    <3>3. pending[i].sec = lastTime[i] /\ Used(i, pending[i].ctr)
      BY <2>4 DEF FreshOffer
    <3>4. \A k \in 1..Len(issued') :
            /\ issued'[k].sec <= lastTime[i]
            /\ issued'[k].sec = lastTime[i] => Used(i, issued'[k].ctr)
      BY <2>1, <2>4, <3>1, <3>3 DEF IdsBehind
    <3>5. QED
      BY <2>5, <3>2, <3>4 DEF IdsBehind
  <2>11. ASSUME NEW j \in Initers PROVE InRange(j)' /\ gpc'[j] # "send"
    BY <1>e, <1>d, <2>2, <2>3, <2>4, <2>5, <2>6 DEF Envelope, InRange, Started
  <2>12. QED
    BY <1>e, <1>s, <2>1, <2>2, <2>5, <2>6, <2>7, <2>8, <2>9, <2>10, <2>11
       DEF Envelope
<1>10. ASSUME Tick PROVE Goal
  <2>1. clock' >= clock
    BY <1>10, <1>k DEF Tick
  <2>2. QED
    BY <1>10, <1>d, <2>1, <1>f DEF Tick, Started
<1>11. ASSUME ClockBack PROVE FALSE
  BY <1>11, <1>0 DEF ClockBack
<1>12. ASSUME UNCHANGED vars PROVE Goal
  BY <1>12, <1>d, <1>k, <1>f DEF vars, Started
<1>13. QED
  BY <1>1, <1>2, <1>3, <1>4, <1>5, <1>6, <1>7, <1>8, <1>9, <1>10, <1>11, <1>12
     DEF Next, LoopTurn

\* The initial states satisfy the inductive invariant.
LEMMA EnvelopeInit == Init => IInv
<1> SUFFICES ASSUME Init PROVE IInv
  OBVIOUS
<1> USE ConstantsAssumption DEF Init
<1>1. TypeOK
  BY DEF TypeOK, Causes
<1>2. issued \in Seq(Offers) /\ pending \in [Initers -> Offers]
  BY DEF Offers, NoOffer
<1>3. OneGenerator /\ Faithful /\ Distinct
  BY DEF OneGenerator, Faithful, Distinct, Started
<1>4. clock > 0 /\ clock \in Nat
  OBVIOUS
<1>5. ASSUME NEW i \in Initers
      PROVE  InRange(i) /\ gpc[i] # "send" /\ ~Started(i)
  BY <1>4 DEF InRange, Started, counterMax
<1>6. QED
  BY <1>1, <1>2, <1>3, <1>4, <1>5 DEF IInv, Envelope

\* The types of the generator's state, for all field widths.
THEOREM CuidTypes == Spec => []TypeOK
BY EnvelopeInit, EnvelopeStep, PTL DEF Spec, IInv

\* The ids of the current second lie in the range of counters it has used, as
\* long as no cause is recorded.
THEOREM CuidCounters == Spec => []CountersInUse
<1>1. IInv => CountersInUse
  BY DEF IInv, CountersInUse
<1>2. QED
  BY <1>1, EnvelopeInit, EnvelopeStep, PTL DEF Spec

\* NewCUID never returns one id twice, whatever the widths, the number of
\* users, of InitCuidDev calls and the device ids, as long as no cause is
\* recorded (the clock set back, a second generator, a negative device id, a
\* second with more ids than counters or one begun at the counter's end).
THEOREM CuidUnique == Spec => []UniqueIds
<1>1. IInv => UniqueIds
  BY DEF IInv, UniqueIds, Envelope, Faithful, Distinct
<1>2. QED
  BY <1>1, EnvelopeInit, EnvelopeStep, PTL DEF Spec
=============================================================================
