------------------------ MODULE SSHDialersMgrProofs ------------------------
(***************************************************************************)
(* Proofs about SSHDialersMgr, for any dialers, hosts, users and numbers   *)
(* of rounds and clients: the types, that dialers are neither lost nor     *)
(* duplicated however rounds overlap, that a round's results fit, and that *)
(* clients are neither lost nor used after they were closed.               *)
(*                                                                         *)
(* The types need RoundKnown: a dialer that is out was taken in a round    *)
(* whose channels exist.  With the types DialerConserved is inductive.     *)
(* Rounds are bounded because their results are counted (ResultsCounted).  *)
(* Clients are not lost because each is in one place at a time (OnePlace). *)
(***************************************************************************)
EXTENDS SSHDialersMgr, FiniteSetTheorems, TLAPS

RoundKnown ==
  /\ \A d \in Dialers : gpc[d] # "pooled" => ground[d] \in Rounds
  /\ mpc \in {"pop", "select"} => round \in Rounds

-----------------------------------------------------------------------------
\* The pool starts with every dialer in it, once.
LEMMA InitInv == Init => TypeOK /\ RoundKnown /\ DialerConserved
<1> SUFFICES ASSUME Init PROVE TypeOK /\ RoundKnown /\ DialerConserved
  OBVIOUS
<1>1. N \in Nat /\ N <= Cap
  BY ConstantsAssumption, FS_CardinalityType DEF N
<1>2. sshDialers \in [1..N -> Dialers] /\ Len(sshDialers) = N /\ sshDialers \in Seq(Dialers)
  BY <1>1 DEF Init
<1>3. \A i, j \in 1..N : sshDialers[i] = sshDialers[j] => i = j
  BY DEF Init
<1>4. \A d \in Dialers : \E i \in 1..N : sshDialers[i] = d
  <2>1. sshDialers \in Injection(1..N, Dialers)
    BY <1>2, <1>3 DEF Injection, IsInjective
  <2>2. Cardinality(1..N) = N
    BY <1>1, FS_Interval
  <2>3. sshDialers \in Surjection(1..N, Dialers)
    BY <2>1, <2>2, ConstantsAssumption, FS_Injection DEF N
  <2> QED BY <2>3 DEF Surjection
<1>5. DialerConserved
  BY <1>2, <1>3, <1>4 DEF Init, DialerConserved, Pooled
<1>6. TypeOK
  <2>1. /\ gpc \in [Dialers -> {"pooled", "dial", "report", "return"}]
        /\ ground \in [Dialers -> 0..MaxRounds]
        /\ gres \in [Dialers -> Clients \cup {Nil}]
        /\ round \in 0..MaxRounds /\ made \in 0..MaxClients
    BY ConstantsAssumption DEF Init
  <2>2. /\ sshClients \in [Rounds -> Seq(Clients \cup {Nil})]
        /\ \A r \in Rounds : Len(sshClients[r]) <= Cap
        /\ expected \in [Rounds -> Nat] /\ got \in [Rounds -> Nat]
        /\ haveGet \in [Rounds -> BOOLEAN]
        /\ cpc \in [Rounds -> {"none", "run", "done"}]
        /\ offer \in [Rounds -> Seq(Clients \cup {Nil})]
        /\ \A r \in Rounds : Len(offer[r]) <= 1
    BY ConstantsAssumption DEF Init
  <2>3. /\ mpc = "check" /\ isOK \in BOOLEAN /\ connIsValid \in BOOLEAN
        /\ sshClient = Nil /\ cancelled \in BOOLEAN /\ abandoned = {}
        /\ clients \in [Clients -> {"none", "open", "dropped", "closed"}]
        /\ upc \in [Users -> {"idle", "found", "dialing", "panicked"}]
        /\ ucl \in [Users -> Clients \cup {Nil}]
    BY DEF Init
  <2> QED BY <1>1, <1>2, <2>1, <2>2, <2>3, ConstantsAssumption DEF TypeOK
<1>7. RoundKnown
  BY DEF Init, RoundKnown
<1> QED BY <1>5, <1>6, <1>7

-----------------------------------------------------------------------------
(* Buffered channels of capacity n, one for each member of I.               *)

\* A send to a channel with room.
LEMMA ChannelSend ==
  ASSUME NEW I, NEW S, NEW n \in Nat, NEW f \in [I -> Seq(S)],
         \A r \in I : Len(f[r]) <= n,
         NEW q \in I, NEW x \in S, Len(f[q]) < n
  PROVE  /\ [f EXCEPT ![q] = Append(@, x)] \in [I -> Seq(S)]
         /\ \A r \in I : Len([f EXCEPT ![q] = Append(@, x)][r]) <= n
<1> DEFINE g == Append(f[q], x)
<1>1. g \in Seq(S) /\ Len(g) <= n
  BY DEF g
<1> HIDE DEF g
<1>2. [f EXCEPT ![q] = g] \in [I -> Seq(S)] /\ \A r \in I : Len([f EXCEPT ![q] = g][r]) <= n
  BY <1>1
<1> QED BY <1>2 DEF g

\* A receive from a channel that is not empty.
LEMMA ChannelReceive ==
  ASSUME NEW I, NEW S, NEW n \in Nat, NEW f \in [I -> Seq(S)],
         \A r \in I : Len(f[r]) <= n,
         NEW q \in I, f[q] # <<>>
  PROVE  /\ [f EXCEPT ![q] = Tail(@)] \in [I -> Seq(S)]
         /\ \A r \in I : Len([f EXCEPT ![q] = Tail(@)][r]) <= n
<1> DEFINE g == Tail(f[q])
<1>1. g \in Seq(S) /\ Len(g) <= n
  BY DEF g
<1> HIDE DEF g
<1>2. [f EXCEPT ![q] = g] \in [I -> Seq(S)] /\ \A r \in I : Len([f EXCEPT ![q] = g][r]) <= n
  BY <1>1
<1> QED BY <1>2 DEF g

\* Every step keeps the types and the rounds of the dialers that are out.
LEMMA TypesStep ==
  TypeOK /\ RoundKnown /\ [Next]_vars => TypeOK' /\ RoundKnown'
<1> SUFFICES ASSUME TypeOK, RoundKnown, [Next]_vars PROVE TypeOK' /\ RoundKnown'
  OBVIOUS
<1> USE ConstantsAssumption
    DEF poolVars, roundVars, mgrVars, cliVars, userVars
<1>1. CASE ServerIsOK
  BY <1>1 DEF ServerIsOK, TypeOK, RoundKnown
<1>2. CASE AssignValid
  BY <1>2 DEF AssignValid, TypeOK, RoundKnown
<1>3. CASE CloseOld
  <2>1. clients' \in [Clients -> {"none", "open", "dropped", "closed"}]
    BY <1>3 DEF CloseOld, TypeOK, Closed
  <2>2. round' \in Rounds /\ round' \in 0..MaxRounds
    BY <1>3 DEF CloseOld, TypeOK, Rounds
  <2> QED BY <1>3, <2>1, <2>2 DEF CloseOld, TypeOK, RoundKnown
<1>4. CASE PopSSHDialer
  <2>1. round \in Rounds /\ round \in 0..MaxRounds /\ Head(sshDialers) \in Dialers
    <3>1. sshDialers \in Seq(Dialers) /\ sshDialers # <<>>
      BY <1>4 DEF PopSSHDialer, TypeOK
    <3>2. Head(sshDialers) \in Dialers
      BY <3>1
    <3> QED BY <1>4, <3>2 DEF PopSSHDialer, TypeOK, RoundKnown
  <2>2. sshDialers' \in Seq(Dialers) /\ Len(sshDialers') <= Cap
    BY <1>4 DEF PopSSHDialer, TypeOK
  <2>3. gpc' \in [Dialers -> {"pooled", "dial", "report", "return"}]
          /\ ground' \in [Dialers -> 0..MaxRounds] /\ expected' \in [Rounds -> Nat]
    <3> DEFINE h == Head(sshDialers)
    <3>1. /\ h \in Dialers /\ gpc' = [gpc EXCEPT ![h] = "dial"]
          /\ ground' = [ground EXCEPT ![h] = round]
      BY <1>4, <2>1 DEF PopSSHDialer
    <3> HIDE DEF h
    <3>2. gpc' \in [Dialers -> {"pooled", "dial", "report", "return"}]
      BY <3>1 DEF TypeOK
    <3>3. ground' \in [Dialers -> 0..MaxRounds]
      BY <2>1, <3>1 DEF TypeOK
    <3>4. expected' \in [Rounds -> Nat]
      <4>1. expected' = [expected EXCEPT ![round] = expected[round] + 1]
        BY <1>4 DEF PopSSHDialer
      <4> QED BY <2>1, <4>1 DEF TypeOK
    <3> QED BY <3>2, <3>3, <3>4
  <2>4. RoundKnown'
    BY <1>4, <2>1 DEF PopSSHDialer, TypeOK, RoundKnown
  <2> QED BY <1>4, <2>2, <2>3, <2>4 DEF PopSSHDialer, TypeOK
<1>5. CASE StartCollector
  BY <1>5 DEF StartCollector, TypeOK, RoundKnown
<1>6. CASE TakeClient
  <2>1. round \in Rounds
    BY <1>6 DEF TakeClient, RoundKnown
  <2>2. sshClient' \in Clients \cup {Nil}
    BY <1>6, <2>1 DEF TakeClient, TypeOK
  <2>3. offer' \in [Rounds -> Seq(Clients \cup {Nil})]
          /\ \A r \in Rounds : Len(offer'[r]) <= 1
    <3>1. offer[round] # <<>> /\ offer' = [offer EXCEPT ![round] = Tail(@)]
      BY <1>6 DEF TakeClient
    <3>2. 1 \in Nat
      OBVIOUS
    <3> QED BY <2>1, <3>1, <3>2, ChannelReceive DEF TypeOK
  <2> QED BY <1>6, <2>2, <2>3 DEF TakeClient, TypeOK, RoundKnown
<1>7. CASE TimeOut
  BY <1>7 DEF TimeOut, TypeOK, RoundKnown
<1>8. CASE Terminate
  BY <1>8 DEF Terminate, TypeOK, RoundKnown
<1>9. CASE Sleep
  BY <1>9 DEF Sleep, TypeOK, RoundKnown
<1>10. ASSUME NEW d \in Dialers, NewClient(d) PROVE TypeOK' /\ RoundKnown'
  <2>1. /\ made' \in 0..MaxClients
        /\ clients' \in [Clients -> {"none", "open", "dropped", "closed"}]
        /\ gres' \in [Dialers -> Clients \cup {Nil}]
    <3>1. CASE made < MaxClients /\ made' = made + 1
                 /\ clients' = [clients EXCEPT ![made + 1] = "open"]
                 /\ gres' = [gres EXCEPT ![d] = made + 1]
      BY <3>1 DEF TypeOK, Clients
    <3>2. CASE gres' = [gres EXCEPT ![d] = Nil] /\ UNCHANGED cliVars
      BY <3>2 DEF TypeOK
    <3> QED BY <1>10, <3>1, <3>2 DEF NewClient
  <2>2. gpc' \in [Dialers -> {"pooled", "dial", "report", "return"}] /\ RoundKnown'
    BY <1>10 DEF NewClient, TypeOK, RoundKnown
  <2> QED BY <1>10, <2>1, <2>2 DEF NewClient, TypeOK
<1>11. ASSUME NEW d \in Dialers, Report(d) PROVE TypeOK' /\ RoundKnown'
  <2>1. ground[d] \in Rounds /\ gres[d] \in Clients \cup {Nil}
    BY <1>11 DEF Report, TypeOK, RoundKnown
  <2>2. sshClients' \in [Rounds -> Seq(Clients \cup {Nil})]
          /\ \A r \in Rounds : Len(sshClients'[r]) <= Cap
    <3>1. /\ Len(sshClients[ground[d]]) < Cap
          /\ sshClients' = [sshClients EXCEPT ![ground[d]] = Append(@, gres[d])]
      BY <1>11 DEF Report
    <3> QED BY <2>1, <3>1, ChannelSend DEF TypeOK
  <2>3. gpc' \in [Dialers -> {"pooled", "dial", "report", "return"}] /\ RoundKnown'
    BY <1>11 DEF Report, TypeOK, RoundKnown
  <2> QED BY <1>11, <2>2, <2>3 DEF Report, TypeOK
<1>12. ASSUME NEW d \in Dialers, ReturnDialer(d) PROVE TypeOK' /\ RoundKnown'
  <2>1. sshDialers' \in Seq(Dialers) /\ Len(sshDialers') <= Cap
    BY <1>12 DEF ReturnDialer, TypeOK
  <2>2. /\ gpc' \in [Dialers -> {"pooled", "dial", "report", "return"}]
        /\ ground' \in [Dialers -> 0..MaxRounds]
        /\ gres' \in [Dialers -> Clients \cup {Nil}]
    BY <1>12 DEF ReturnDialer, TypeOK
  <2>3. RoundKnown'
    BY <1>12 DEF ReturnDialer, TypeOK, RoundKnown
  <2> QED BY <1>12, <2>1, <2>2, <2>3 DEF ReturnDialer, TypeOK
<1>13. ASSUME NEW r \in Rounds, Collect(r) PROVE TypeOK' /\ RoundKnown'
  <2> DEFINE k == Head(sshClients[r])
  <2>1. k \in Clients \cup {Nil}
    BY <1>13 DEF Collect, TypeOK
  <2>2. sshClients' \in [Rounds -> Seq(Clients \cup {Nil})]
          /\ \A q \in Rounds : Len(sshClients'[q]) <= Cap
    <3>1. sshClients[r] # <<>> /\ sshClients' = [sshClients EXCEPT ![r] = Tail(@)]
      BY <1>13 DEF Collect
    <3> QED BY <3>1, ChannelReceive DEF TypeOK
  <2>3. got' \in [Rounds -> Nat] /\ haveGet' \in [Rounds -> BOOLEAN]
    BY <1>13 DEF Collect, TypeOK
  <2>4. offer' \in [Rounds -> Seq(Clients \cup {Nil})]
          /\ \A q \in Rounds : Len(offer'[q]) <= 1
    <3>1. CASE k # Nil /\ ~haveGet[r]
      <4>1. offer' = [offer EXCEPT ![r] = Append(@, k)] /\ Len(offer[r]) < 1
        BY <1>13, <3>1 DEF Collect
      <4>2. Append(offer[r], k) \in Seq(Clients \cup {Nil}) /\ Len(Append(offer[r], k)) <= 1
        BY <2>1, <4>1 DEF TypeOK
      <4> QED BY <4>1, <4>2 DEF TypeOK
    <3>2. CASE ~(k # Nil /\ ~haveGet[r])
      BY <1>13, <3>2 DEF Collect, TypeOK
    <3> QED BY <3>1, <3>2
  <2>5. clients' \in [Clients -> {"none", "open", "dropped", "closed"}]
    BY <1>13, <2>1 DEF Collect, TypeOK, Closed
  <2> QED BY <1>13, <2>2, <2>3, <2>4, <2>5 DEF Collect, TypeOK, RoundKnown
<1>14. ASSUME NEW r \in Rounds, CollectEnd(r) PROVE TypeOK' /\ RoundKnown'
  <2>1. offer' \in [Rounds -> Seq(Clients \cup {Nil})]
          /\ \A q \in Rounds : Len(offer'[q]) <= 1
    <3>1. \/ offer' = offer
          \/ Len(offer[r]) < 1 /\ offer' = [offer EXCEPT ![r] = Append(@, Nil)]
      BY <1>14 DEF CollectEnd
    <3>2. CASE offer' = offer
      BY <3>2 DEF TypeOK
    <3>3. CASE Len(offer[r]) < 1 /\ offer' = [offer EXCEPT ![r] = Append(@, Nil)]
      <4>1. Nil \in Clients \cup {Nil} /\ 1 \in Nat
        OBVIOUS
      <4> QED BY <3>3, <4>1, ChannelSend DEF TypeOK
    <3> QED BY <3>1, <3>2, <3>3
  <2>2. cpc' \in [Rounds -> {"none", "run", "done"}]
    BY <1>14 DEF CollectEnd, TypeOK
  <2> QED BY <1>14, <2>1, <2>2 DEF CollectEnd, TypeOK, RoundKnown
<1>15. ASSUME NEW u \in Users, FindClient(u) PROVE TypeOK' /\ RoundKnown'
  BY <1>15 DEF FindClient, TypeOK, RoundKnown
<1>16. ASSUME NEW u \in Users, BeginDial(u) PROVE TypeOK' /\ RoundKnown'
  BY <1>16 DEF BeginDial, TypeOK, RoundKnown
<1>17. ASSUME NEW u \in Users, EndDial(u) PROVE TypeOK' /\ RoundKnown'
  BY <1>17 DEF EndDial, TypeOK, RoundKnown
<1>18. ASSUME NEW k \in Clients, DropConnection(k) PROVE TypeOK' /\ RoundKnown'
  BY <1>18 DEF DropConnection, TypeOK, RoundKnown
<1>19. CASE Cancel
  BY <1>19 DEF Cancel, TypeOK, RoundKnown
<1>20. CASE UNCHANGED vars
  BY <1>20 DEF vars, TypeOK, RoundKnown
<1> QED
  BY <1>1, <1>2, <1>3, <1>4, <1>5, <1>6, <1>7, <1>8, <1>9, <1>10, <1>11, <1>12, <1>13, <1>14, <1>15, <1>16, <1>17, <1>18, <1>19, <1>20
     DEF Next, Manager, DialGoroutine, Collector

-----------------------------------------------------------------------------
\* Taking the first dialer out of the pool: it is nowhere else in it.
LEMMA PopConserves ==
  ASSUME TypeOK, DialerConserved, PopSSHDialer PROVE DialerConserved'
<1>1. sshDialers \in Seq(Dialers) /\ sshDialers # <<>>
  BY DEF TypeOK, PopSSHDialer
<1>2. PICK h \in Dialers : h = Head(sshDialers) /\ h = sshDialers[1]
  BY <1>1
<1>3. gpc' = [gpc EXCEPT ![h] = "dial"] /\ sshDialers' = Tail(sshDialers)
  BY <1>2 DEF PopSSHDialer
<1>4. Len(sshDialers') = Len(sshDialers) - 1 /\ Len(sshDialers) >= 1
  BY <1>1, <1>3
<1>5. \A i \in 1..Len(sshDialers') : sshDialers'[i] = sshDialers[i + 1]
  BY <1>1, <1>3
<1>6. \A i, j \in 1..Len(sshDialers') : sshDialers'[i] = sshDialers'[j] => i = j
  BY <1>4, <1>5 DEF DialerConserved
<1>7. ASSUME NEW d \in Dialers PROVE Pooled(d)' <=> Pooled(d) /\ d # h
  <2>1. ASSUME NEW i \in 1..Len(sshDialers'), sshDialers'[i] = d
        PROVE  Pooled(d) /\ d # h
    <3>1. i + 1 \in 1..Len(sshDialers) /\ i + 1 # 1 /\ 1 \in 1..Len(sshDialers)
      BY <1>1, <1>4
    <3>2. sshDialers[i + 1] = d
      BY <1>5, <2>1
    <3> QED BY <1>2, <3>1, <3>2 DEF Pooled, DialerConserved
  <2>2. ASSUME NEW i \in 1..Len(sshDialers), sshDialers[i] = d, d # h
        PROVE  Pooled(d)'
    <3>1. i - 1 \in 1..Len(sshDialers')
      BY <1>1, <1>2, <1>4, <2>2
    <3>2. sshDialers'[i - 1] = d
      BY <1>5, <2>2, <3>1
    <3> QED BY <3>1, <3>2 DEF Pooled
  <2> QED BY <2>1, <2>2 DEF Pooled
<1>8. \A d \in Dialers : gpc'[d] = "pooled" <=> gpc[d] = "pooled" /\ d # h
  BY <1>3 DEF TypeOK
<1> QED BY <1>6, <1>7, <1>8 DEF DialerConserved

\* Giving a dialer back: it was out, so it is in the pool once again.
LEMMA ReturnConserves ==
  ASSUME TypeOK, DialerConserved, NEW d \in Dialers, ReturnDialer(d)
  PROVE  DialerConserved'
<1>1. /\ sshDialers \in Seq(Dialers) /\ sshDialers' = Append(sshDialers, d)
      /\ gpc' = [gpc EXCEPT ![d] = "pooled"]
  BY DEF TypeOK, ReturnDialer
<1>2. \A i \in 1..Len(sshDialers) : sshDialers[i] # d
  BY DEF ReturnDialer, DialerConserved, Pooled
<1>3. /\ Len(sshDialers') = Len(sshDialers) + 1
      /\ sshDialers'[Len(sshDialers) + 1] = d
      /\ \A i \in 1..Len(sshDialers) : sshDialers'[i] = sshDialers[i]
  BY <1>1
<1>4. \A i, j \in 1..Len(sshDialers') : sshDialers'[i] = sshDialers'[j] => i = j
  BY <1>1, <1>2, <1>3 DEF DialerConserved
<1>5. \A e \in Dialers : Pooled(e)' <=> Pooled(e) \/ e = d
  <2>1. Len(sshDialers) \in Nat
    BY <1>1
  <2> QED BY <1>3, <2>1 DEF Pooled
<1>6. \A e \in Dialers : gpc'[e] = "pooled" <=> gpc[e] = "pooled" \/ e = d
  BY <1>1 DEF TypeOK
<1> QED BY <1>4, <1>5, <1>6 DEF DialerConserved

\* A step that leaves the pool alone and keeps the dialers that are out out.
LEMMA OutsideConserves ==
  ASSUME DialerConserved, UNCHANGED sshDialers,
         \A d \in Dialers : gpc'[d] = "pooled" <=> gpc[d] = "pooled"
  PROVE  DialerConserved'
BY DEF DialerConserved, Pooled

\* Every step conserves the dialers.
LEMMA ConserveStep == TypeOK /\ DialerConserved /\ [Next]_vars => DialerConserved'
<1> SUFFICES ASSUME TypeOK, DialerConserved, [Next]_vars PROVE DialerConserved'
  OBVIOUS
<1> USE DEF poolVars
<1>1. CASE Manager
  <2>1. CASE PopSSHDialer
    BY <2>1, PopConserves
  <2>2. CASE UNCHANGED poolVars
    BY <2>2, OutsideConserves
  <2> QED BY <1>1, <2>1, <2>2 DEF Manager, ServerIsOK, AssignValid, CloseOld,
        StartCollector, TakeClient, TimeOut, Terminate, Sleep
<1>2. ASSUME NEW d \in Dialers, NewClient(d) \/ Report(d) PROVE DialerConserved'
  BY <1>2, OutsideConserves DEF NewClient, Report, TypeOK
<1>3. ASSUME NEW d \in Dialers, ReturnDialer(d) PROVE DialerConserved'
  BY <1>3, ReturnConserves
<1>4. ASSUME NEW r \in Rounds, Collector(r) PROVE DialerConserved'
  BY <1>4, OutsideConserves DEF Collector, Collect, CollectEnd
<1>5. ASSUME NEW u \in Users, FindClient(u) \/ BeginDial(u) \/ EndDial(u)
      PROVE  DialerConserved'
  BY <1>5, OutsideConserves DEF FindClient, BeginDial, EndDial
<1>6. ASSUME NEW k \in Clients, DropConnection(k) PROVE DialerConserved'
  BY <1>6, OutsideConserves DEF DropConnection
<1>7. CASE Cancel \/ UNCHANGED vars
  BY <1>7, OutsideConserves DEF Cancel, vars
<1> QED
  BY <1>1, <1>2, <1>3, <1>4, <1>5, <1>6, <1>7 DEF Next, DialGoroutine

-----------------------------------------------------------------------------
\* The types of the manager's state, for any number of dialers, rounds and
\* clients: in particular no channel of results, no offer and not the pool
\* ever holds more than its capacity.
THEOREM DialerTypes == Spec => []TypeOK
BY InitInv, TypesStep, PTL DEF Spec

\* For any number of dialers and overlapping rounds, a dialer is in the pool
\* exactly once or held by its goroutine.
THEOREM DialersConserved == Spec => []DialerConserved
BY InitInv, TypesStep, ConserveStep, PTL DEF Spec

-----------------------------------------------------------------------------
(* The collectors.                                                          *)

\* A round that has not started its collector has had no result received, and
\* a collector leaves something in the offer only when it passes a client on
\* or ends.
RoundsFresh ==
  \A r \in Rounds :
    /\ r > round \/ (r = round /\ mpc = "pop") => cpc[r] = "none"
    /\ cpc[r] = "none" => got[r] = 0
    /\ offer[r] # <<>> => cpc[r] = "done" \/ (cpc[r] = "run" /\ haveGet[r])

LEMMA SameCollectors ==
  ASSUME RoundsFresh, UNCHANGED <<round, cpc, got, offer, haveGet>>,
         mpc' = "pop" => mpc = "pop"
  PROVE  RoundsFresh'
BY DEF RoundsFresh

LEMMA FreshStep == TypeOK /\ RoundKnown /\ RoundsFresh /\ [Next]_vars => RoundsFresh'
<1> SUFFICES ASSUME TypeOK, RoundKnown, RoundsFresh, [Next]_vars PROVE RoundsFresh'
  OBVIOUS
<1> USE DEF poolVars, roundVars, mgrVars
<1>1. CASE ServerIsOK \/ AssignValid \/ PopSSHDialer \/ TimeOut \/ Terminate \/ Sleep
  BY <1>1, SameCollectors
     DEF ServerIsOK, AssignValid, PopSSHDialer, TimeOut, Terminate, Sleep
<1>2. CASE CloseOld
  <2>1. round' = round + 1 /\ UNCHANGED <<cpc, got, offer, haveGet>>
    BY <1>2 DEF CloseOld
  <2>2. \A r \in Rounds : r > round' \/ r = round' => r > round
    BY <2>1 DEF TypeOK, Rounds
  <2> QED BY <2>1, <2>2 DEF RoundsFresh
<1>3. CASE StartCollector
  <2>1. /\ cpc' = [cpc EXCEPT ![round] = "run"] /\ mpc = "pop" /\ mpc' = "select"
        /\ UNCHANGED <<round, got, offer, haveGet>>
    BY <1>3 DEF StartCollector
  <2>2. \A r \in Rounds : r > round => r # round
    BY DEF TypeOK, Rounds
  <2> QED BY <2>1, <2>2 DEF RoundsFresh, TypeOK
<1>4. CASE TakeClient
  <2>1. /\ offer' = [offer EXCEPT ![round] = Tail(@)] /\ offer[round] # <<>>
        /\ mpc' = "sleep" /\ UNCHANGED <<round, cpc, got, haveGet>>
    BY <1>4 DEF TakeClient
  <2> QED BY <2>1 DEF RoundsFresh, TypeOK
<1>5. ASSUME NEW d \in Dialers, DialGoroutine(d) PROVE RoundsFresh'
  BY <1>5, SameCollectors DEF DialGoroutine, NewClient, Report, ReturnDialer
<1>6. ASSUME NEW q \in Rounds, Collect(q) PROVE RoundsFresh'
  <2>1. /\ cpc[q] = "run" /\ UNCHANGED <<round, mpc, cpc>>
        /\ got' = [got EXCEPT ![q] = got[q] + 1]
        /\ \A r \in Rounds : haveGet[r] => haveGet'[r]
        /\ \A r \in Rounds \ {q} : offer'[r] = offer[r]
        /\ offer'[q] = offer[q] \/ haveGet'[q]
    BY <1>6 DEF Collect, TypeOK
  <2>2. \A r \in Rounds : cpc[r] = "none" => got'[r] = got[r]
    BY <2>1 DEF TypeOK
  <2> QED BY <2>1, <2>2 DEF RoundsFresh
<1>7. ASSUME NEW q \in Rounds, CollectEnd(q) PROVE RoundsFresh'
  <2>1. /\ cpc[q] = "run" /\ cpc' = [cpc EXCEPT ![q] = "done"]
        /\ UNCHANGED <<round, mpc, got, haveGet>>
        /\ \A r \in Rounds \ {q} : offer'[r] = offer[r]
    BY <1>7 DEF CollectEnd, TypeOK
  <2> QED BY <2>1 DEF RoundsFresh, TypeOK
<1>8. ASSUME NEW u \in Users, FindClient(u) \/ BeginDial(u) \/ EndDial(u)
      PROVE RoundsFresh'
  BY <1>8, SameCollectors DEF FindClient, BeginDial, EndDial
<1>9. ASSUME NEW k \in Clients, DropConnection(k) PROVE RoundsFresh'
  BY <1>9, SameCollectors DEF DropConnection
<1>10. CASE Cancel \/ UNCHANGED vars
  BY <1>10, SameCollectors DEF Cancel, vars
<1> QED
  BY <1>1, <1>2, <1>3, <1>4, <1>5, <1>6, <1>7, <1>8, <1>9, <1>10
     DEF Next, Manager, Collector

-----------------------------------------------------------------------------
(* The length of a round.                                                   *)

\* The goroutines of round r that have not reported yet.
Out(r) == {d \in Dialers : gpc[d] \in {"dial", "report"} /\ ground[d] = r}

\* Every dialer that a round has taken is still out, or its result waits in
\* the channel of the round, or the collector has received it.
ResultsCounted ==
  \A r \in Rounds : expected[r] = Cardinality(Out(r)) + Len(sshClients[r]) + got[r]

LEMMA OutFinite ==
  ASSUME NEW r \in Rounds
  PROVE  IsFiniteSet(Out(r)) /\ Cardinality(Out(r)) \in Nat /\ Cardinality(Out(r)) <= N
BY ConstantsAssumption, FS_Subset, FS_CardinalityType DEF Out, N

LEMMA SameCount ==
  ASSUME ResultsCounted, RoundBounded, UNCHANGED <<expected, sshClients, got>>,
         \A r \in Rounds : Out(r)' = Out(r)
  PROVE  ResultsCounted' /\ RoundBounded'
<1>1. ResultsCounted'
  BY DEF ResultsCounted
<1>2. RoundBounded'
  BY DEF RoundBounded
<1> QED BY <1>1, <1>2

\* The first dialer of the pool is held by no goroutine.
LEMMA FirstPooled ==
  ASSUME TypeOK, DialerConserved, sshDialers # <<>>
  PROVE  Head(sshDialers) \in Dialers /\ gpc[Head(sshDialers)] = "pooled"
<1>1. sshDialers \in Seq(Dialers)
  BY DEF TypeOK
<1>2. Head(sshDialers) \in Dialers /\ Head(sshDialers) = sshDialers[1]
        /\ 1 \in 1..Len(sshDialers)
  BY <1>1
<1> QED BY <1>2 DEF DialerConserved, Pooled

\* A dialer that the round takes is one more result to come.  The collector of
\* the round has not started, so what is expected is out or in the channel.
LEMMA PopCounts ==
  ASSUME TypeOK, RoundKnown, DialerConserved, RoundsFresh, ResultsCounted, RoundBounded,
         PopSSHDialer
  PROVE  ResultsCounted' /\ RoundBounded'
<1>1. PICK h \in Dialers : h = Head(sshDialers) /\ gpc[h] = "pooled"
  BY FirstPooled DEF PopSSHDialer
<1>2. PICK q \in Rounds : q = round /\ got[q] = 0
  BY DEF PopSSHDialer, RoundKnown, RoundsFresh
<1>3. /\ gpc' = [gpc EXCEPT ![h] = "dial"] /\ ground' = [ground EXCEPT ![h] = q]
      /\ expected' = [expected EXCEPT ![q] = expected[q] + 1]
      /\ UNCHANGED <<sshClients, got>>
  BY <1>1, <1>2 DEF PopSSHDialer
<1>4. h \notin Out(q) /\ Out(q)' = Out(q) \cup {h}
  BY <1>1, <1>3 DEF Out, TypeOK
<1>5. Cardinality(Out(q)') = Cardinality(Out(q)) + 1
  BY <1>4, OutFinite, FS_AddElement
<1>6. \A r \in Rounds \ {q} : Out(r)' = Out(r) /\ expected'[r] = expected[r]
  BY <1>1, <1>3 DEF Out, TypeOK
<1>7. /\ expected'[q] = expected[q] + 1
      /\ Cardinality(Out(q)) \in Nat /\ Len(sshClients[q]) \in Nat
  BY <1>3, OutFinite DEF TypeOK
<1>8. expected[q] = Cardinality(Out(q)) + Len(sshClients[q])
  <2>1. expected[q] = Cardinality(Out(q)) + Len(sshClients[q]) + 0
    BY <1>2 DEF ResultsCounted
  <2> QED BY <1>7, <2>1
<1>9. ResultsCounted'
  <2> SUFFICES ASSUME NEW r \in Rounds
               PROVE  expected'[r] = Cardinality(Out(r)') + Len(sshClients[r]) + got[r]
    BY <1>3 DEF ResultsCounted
  <2>1. CASE r = q
    BY <1>2, <1>5, <1>7, <1>8, <2>1
  <2>2. CASE r # q
    BY <1>6, <2>2 DEF ResultsCounted
  <2> QED BY <2>1, <2>2
<1>10. RoundBounded'
  <2>1. Cardinality(Out(q)') <= N
    <3>1. Out(q)' \subseteq Dialers
      BY DEF Out
    <3> QED BY <3>1, ConstantsAssumption, FS_Subset DEF N
  <2>2. expected'[q] <= Cap + N
    <3>1. Len(sshClients[q]) <= Cap /\ Cap \in Nat /\ N \in Nat
      BY ConstantsAssumption, FS_CardinalityType DEF TypeOK, N
    <3> QED BY <1>5, <1>7, <1>8, <2>1, <3>1
  <2> QED BY <1>6, <2>2 DEF RoundBounded
<1> QED BY <1>9, <1>10

LEMMA ReportCounts ==
  ASSUME TypeOK, RoundKnown, ResultsCounted, RoundBounded, NEW d \in Dialers, Report(d)
  PROVE  ResultsCounted' /\ RoundBounded'
<1>1. PICK q \in Rounds : q = ground[d]
  BY DEF Report, RoundKnown
<1>2. /\ gpc[d] = "report" /\ gpc' = [gpc EXCEPT ![d] = "return"]
      /\ sshClients' = [sshClients EXCEPT ![q] = Append(sshClients[q], gres[d])]
      /\ UNCHANGED <<ground, expected, got>>
  BY <1>1 DEF Report
<1>3. d \in Out(q) /\ Out(q)' = Out(q) \ {d}
  BY <1>1, <1>2 DEF Out, TypeOK
<1>4. Cardinality(Out(q)') = Cardinality(Out(q)) - 1
  BY <1>3, OutFinite, FS_RemoveElement
<1>5. Len(sshClients'[q]) = Len(sshClients[q]) + 1
  <2>1. sshClients[q] \in Seq(Clients \cup {Nil}) /\ gres[d] \in Clients \cup {Nil}
    BY DEF TypeOK
  <2>2. sshClients'[q] = Append(sshClients[q], gres[d])
    BY <1>2 DEF TypeOK
  <2> QED BY <2>1, <2>2
<1>6. \A r \in Rounds \ {q} : Out(r)' = Out(r) /\ sshClients'[r] = sshClients[r]
  BY <1>1, <1>2 DEF Out, TypeOK
<1>7. ResultsCounted'
  <2> SUFFICES ASSUME NEW r \in Rounds
               PROVE  expected[r] = Cardinality(Out(r)') + Len(sshClients'[r]) + got[r]
    BY <1>2 DEF ResultsCounted
  <2>1. CASE r = q
    <3>1. Cardinality(Out(q)) \in Nat /\ Len(sshClients[q]) \in Nat /\ got[q] \in Nat
      BY OutFinite DEF TypeOK
    <3>2. expected[q] = Cardinality(Out(q)) + Len(sshClients[q]) + got[q]
      BY DEF ResultsCounted
    <3> QED BY <1>4, <1>5, <2>1, <3>1, <3>2
  <2>2. CASE r # q
    BY <1>6, <2>2 DEF ResultsCounted
  <2> QED BY <2>1, <2>2
<1>8. RoundBounded'
  BY <1>2 DEF RoundBounded
<1> QED BY <1>7, <1>8

LEMMA CollectCounts ==
  ASSUME TypeOK, ResultsCounted, RoundBounded, NEW q \in Rounds, Collect(q)
  PROVE  ResultsCounted' /\ RoundBounded'
<1>1. /\ sshClients[q] # <<>>
      /\ sshClients' = [sshClients EXCEPT ![q] = Tail(sshClients[q])]
      /\ got' = [got EXCEPT ![q] = got[q] + 1]
      /\ UNCHANGED <<gpc, ground, expected>>
  BY DEF Collect, poolVars
<1>2. \A r \in Rounds : Out(r)' = Out(r)
  BY <1>1 DEF Out
<1>3. Len(sshClients'[q]) \in Nat /\ Len(sshClients[q]) = Len(sshClients'[q]) + 1
  <2>1. sshClients[q] \in Seq(Clients \cup {Nil}) /\ sshClients[q] # <<>>
    BY <1>1 DEF TypeOK
  <2>2. sshClients'[q] = Tail(sshClients[q])
    BY <1>1 DEF TypeOK
  <2>3. Len(Tail(sshClients[q])) \in Nat /\ Len(sshClients[q]) = Len(Tail(sshClients[q])) + 1
    BY <2>1
  <2> QED BY <2>2, <2>3
<1>4. ResultsCounted'
  <2> SUFFICES ASSUME NEW r \in Rounds
               PROVE  expected[r] = Cardinality(Out(r)) + Len(sshClients'[r]) + got'[r]
    BY <1>1, <1>2 DEF ResultsCounted
  <2>1. CASE r = q
    <3>1. Cardinality(Out(q)) \in Nat /\ Len(sshClients[q]) \in Nat /\ got[q] \in Nat
      BY OutFinite DEF TypeOK
    <3>2. expected[q] = Cardinality(Out(q)) + Len(sshClients[q]) + got[q]
      BY DEF ResultsCounted
    <3>3. got'[q] = got[q] + 1
      BY <1>1 DEF TypeOK
    <3>4. \A c, l, g \in Nat : c + (l + 1) + g = c + l + (g + 1)
      OBVIOUS
    <3>5. Cardinality(Out(q)) + (Len(sshClients'[q]) + 1) + got[q]
            = Cardinality(Out(q)) + Len(sshClients'[q]) + (got[q] + 1)
      BY <1>3, <3>1, <3>4
    <3>6. expected[q] = Cardinality(Out(q)) + (Len(sshClients'[q]) + 1) + got[q]
      BY <1>3, <3>2
    <3>7. expected[q] = Cardinality(Out(q)) + Len(sshClients'[q]) + got'[q]
      BY <3>3, <3>5, <3>6
    <3> QED BY <2>1, <3>7
  <2>2. CASE r # q
    BY <1>1, <2>2 DEF ResultsCounted, TypeOK
  <2> QED BY <2>1, <2>2
<1>5. RoundBounded'
  BY <1>1 DEF RoundBounded
<1> QED BY <1>4, <1>5

LEMMA CountStep ==
  ASSUME TypeOK, RoundKnown, DialerConserved, RoundsFresh, ResultsCounted, RoundBounded,
         [Next]_vars
  PROVE  ResultsCounted' /\ RoundBounded'
<1> USE DEF poolVars, roundVars
<1>1. CASE PopSSHDialer
  BY <1>1, PopCounts
<1>2. CASE ServerIsOK \/ AssignValid \/ CloseOld \/ StartCollector \/ TakeClient
             \/ TimeOut \/ Terminate \/ Sleep
  <2>1. UNCHANGED <<expected, sshClients, got, gpc, ground>>
    BY <1>2 DEF ServerIsOK, AssignValid, CloseOld, StartCollector, TakeClient,
                TimeOut, Terminate, Sleep
  <2> QED BY <2>1, SameCount DEF Out
<1>3. ASSUME NEW d \in Dialers, NewClient(d) PROVE ResultsCounted' /\ RoundBounded'
  <2>1. \A r \in Rounds : Out(r)' = Out(r)
    BY <1>3 DEF NewClient, Out, TypeOK
  <2> QED BY <1>3, <2>1, SameCount DEF NewClient
<1>4. ASSUME NEW d \in Dialers, Report(d) PROVE ResultsCounted' /\ RoundBounded'
  BY <1>4, ReportCounts
<1>5. ASSUME NEW d \in Dialers, ReturnDialer(d) PROVE ResultsCounted' /\ RoundBounded'
  <2>1. \A r \in Rounds : Out(r)' = Out(r)
    BY <1>5 DEF ReturnDialer, Out, TypeOK
  <2> QED BY <1>5, <2>1, SameCount DEF ReturnDialer
<1>6. ASSUME NEW r \in Rounds, Collect(r) PROVE ResultsCounted' /\ RoundBounded'
  BY <1>6, CollectCounts
<1>7. ASSUME NEW r \in Rounds, CollectEnd(r) PROVE ResultsCounted' /\ RoundBounded'
  BY <1>7, SameCount DEF CollectEnd, Out
<1>8. ASSUME NEW u \in Users, FindClient(u) \/ BeginDial(u) \/ EndDial(u)
      PROVE ResultsCounted' /\ RoundBounded'
  BY <1>8, SameCount DEF FindClient, BeginDial, EndDial, Out
<1>9. ASSUME NEW k \in Clients, DropConnection(k) PROVE ResultsCounted' /\ RoundBounded'
  BY <1>9, SameCount DEF DropConnection, Out
<1>10. CASE Cancel \/ UNCHANGED vars
  BY <1>10, SameCount DEF Cancel, vars, Out
<1> QED
  BY <1>1, <1>2, <1>3, <1>4, <1>5, <1>6, <1>7, <1>8, <1>9, <1>10
     DEF Next, Manager, DialGoroutine, Collector

LEMMA CountInit == Init => RoundsFresh /\ ResultsCounted /\ RoundBounded
<1> SUFFICES ASSUME Init PROVE RoundsFresh /\ ResultsCounted /\ RoundBounded
  OBVIOUS
<1>1. RoundsFresh
  BY DEF Init, RoundsFresh
<1>2. \A r \in Rounds : Out(r) = {}
  BY DEF Init, Out
<1>3. ResultsCounted
  <2> SUFFICES ASSUME NEW r \in Rounds
               PROVE  expected[r] = Cardinality(Out(r)) + Len(sshClients[r]) + got[r]
    BY DEF ResultsCounted
  <2>1. expected[r] = 0 /\ got[r] = 0 /\ sshClients[r] = <<>>
    BY DEF Init
  <2>2. Cardinality(Out(r)) = 0
    BY <1>2, FS_EmptySet
  <2>3. Len(sshClients[r]) = 0
    BY <2>1
  <2> QED BY <2>1, <2>2, <2>3
<1>4. RoundBounded
  BY ConstantsAssumption, FS_CardinalityType DEF Init, RoundBounded, N
<1> QED BY <1>1, <1>3, <1>4

\* However often dialers come back while connetToSSH is still taking dialers
\* out of the pool, one round takes at most Cap + N of them, and the collector
\* waits for no more results than that.
THEOREM RoundBoundedAlways == Spec => []RoundBounded
<1> DEFINE Inv == TypeOK /\ RoundKnown /\ DialerConserved /\ RoundsFresh
                  /\ ResultsCounted /\ RoundBounded
<1>1. Init => Inv
  BY InitInv, CountInit
<1>2. Inv /\ [Next]_vars => Inv'
  BY TypesStep, ConserveStep, FreshStep, CountStep
<1> QED BY <1>1, <1>2, PTL DEF Spec

-----------------------------------------------------------------------------
(* Where the clients are.                                                   *)

Reporting(k, d)   == gpc[d] = "report" /\ gres[d] = k
ResultAt(k, r, i) == i \in 1..Len(sshClients[r]) /\ sshClients[r][i] = k
SomeOffer(k)      == \E r \in Rounds : Offered(k, r)

\* A client is in one place at most: with the goroutine that made it, in the
\* channel of one round, in the offer of one round, or installed.  One that
\* was closed is in none, except that it may still be installed.
Placed(k) ==
  /\ \A d, e \in Dialers : Reporting(k, d) /\ Reporting(k, e) => d = e
  /\ \A r, q \in Rounds : \A i, j \in Nat :
       ResultAt(k, r, i) /\ ResultAt(k, q, j) => r = q /\ i = j
  /\ \A r, q \in Rounds : Offered(k, r) /\ Offered(k, q) => r = q
  /\ InGoroutine(k) => ~InResults(k) /\ ~SomeOffer(k) /\ sshClient # k
  /\ InResults(k) => ~SomeOffer(k) /\ sshClient # k
  /\ SomeOffer(k) => sshClient # k
  /\ InGoroutine(k) \/ InResults(k) \/ SomeOffer(k) \/ sshClient = k => k <= made
  /\ clients[k] = "closed" => ~InGoroutine(k) /\ ~InResults(k) /\ ~SomeOffer(k)

OnePlace == \A k \in Clients : Placed(k)

LEMMA ResultPlaces ==
  ASSUME TypeOK, NEW k
  PROVE  InResults(k) <=> \E r \in Rounds : \E i \in Nat : ResultAt(k, r, i)
<1>1. \A r \in Rounds : Len(sshClients[r]) \in Nat
  BY DEF TypeOK
<1> QED BY <1>1 DEF InResults, ResultAt

\* A step after which client k is in no place where it was not, and that closes
\* it only if it was closed or is installed.
LEMMA FewerPlaces ==
  ASSUME TypeOK, TypeOK', NEW k \in Clients, Placed(k),
         \A d \in Dialers : Reporting(k, d)' => Reporting(k, d),
         \A r \in Rounds : \A i \in Nat : ResultAt(k, r, i)' => ResultAt(k, r, i),
         \A r \in Rounds : Offered(k, r)' => Offered(k, r),
         sshClient' = k => sshClient = k,
         made' >= made,
         clients'[k] = "closed" => clients[k] = "closed" \/ sshClient = k
  PROVE  Placed(k)'
<1>1. InGoroutine(k)' => InGoroutine(k)
  BY DEF InGoroutine, Reporting
<1>2. InResults(k)' => InResults(k)
  <2>1. InResults(k)' <=> \E r \in Rounds : \E i \in Nat : ResultAt(k, r, i)'
    <3>1. \A r \in Rounds : Len(sshClients'[r]) \in Nat
      BY DEF TypeOK
    <3> QED BY <3>1 DEF InResults, ResultAt
  <2> QED BY <2>1, ResultPlaces
<1>3. SomeOffer(k)' => SomeOffer(k)
  BY DEF SomeOffer
<1>4. /\ \A d, e \in Dialers : Reporting(k, d)' /\ Reporting(k, e)' => d = e
      /\ \A r, q \in Rounds : \A i, j \in Nat :
           ResultAt(k, r, i)' /\ ResultAt(k, q, j)' => r = q /\ i = j
      /\ \A r, q \in Rounds : Offered(k, r)' /\ Offered(k, q)' => r = q
  BY DEF Placed
<1>5. InGoroutine(k)' \/ InResults(k)' \/ SomeOffer(k)' \/ sshClient' = k => k <= made'
  <2>1. k <= made => k <= made'
    BY DEF TypeOK, Clients
  <2> QED BY <1>1, <1>2, <1>3, <2>1 DEF Placed
<1>6. clients'[k] = "closed" => ~InGoroutine(k)' /\ ~InResults(k)' /\ ~SomeOffer(k)'
  BY <1>1, <1>2, <1>3 DEF Placed
<1> QED BY <1>1, <1>2, <1>3, <1>4, <1>5, <1>6 DEF Placed

\* A step that touches nothing a client is held in.
LEMMA SamePlaces ==
  ASSUME TypeOK, TypeOK', OnePlace,
         \A d \in Dialers : gpc'[d] = "report" => gpc[d] = "report" /\ gres'[d] = gres[d],
         UNCHANGED <<sshClients, offer, made>>,
         sshClient' \in {sshClient, Nil},
         \A k \in Clients : clients'[k] = "closed" => clients[k] = "closed" \/ sshClient = k
  PROVE  OnePlace'
<1> SUFFICES ASSUME NEW k \in Clients PROVE Placed(k)'
  BY DEF OnePlace
<1>1. Placed(k)
  BY DEF OnePlace
<1>2. k # Nil /\ made' >= made
  BY ConstantsAssumption DEF Clients, TypeOK
<1>3. /\ \A d \in Dialers : Reporting(k, d)' => Reporting(k, d)
      /\ \A r \in Rounds : \A i \in Nat : ResultAt(k, r, i)' => ResultAt(k, r, i)
      /\ \A r \in Rounds : Offered(k, r)' => Offered(k, r)
  BY DEF Reporting, ResultAt, Offered
<1> QED BY <1>1, <1>2, <1>3, FewerPlaces

\* The client that a dial makes is new.
LEMMA NewPlaced ==
  ASSUME TypeOK, TypeOK', OnePlace, NEW d \in Dialers, NewClient(d)
  PROVE  OnePlace'
<1> USE DEF roundVars, mgrVars, cliVars
<1>1. /\ gpc[d] = "dial" /\ gpc' = [gpc EXCEPT ![d] = "report"]
      /\ UNCHANGED <<sshClients, offer, sshClient>>
  BY DEF NewClient
<1>2. CASE gres' = [gres EXCEPT ![d] = Nil] /\ UNCHANGED cliVars
  <2> SUFFICES ASSUME NEW k \in Clients PROVE Placed(k)'
    BY DEF OnePlace
  <2>1. k # Nil /\ made' >= made /\ Placed(k)
    BY <1>2, ConstantsAssumption DEF Clients, TypeOK, OnePlace
  <2>2. /\ \A e \in Dialers : Reporting(k, e)' => Reporting(k, e)
        /\ \A r \in Rounds : \A i \in Nat : ResultAt(k, r, i)' => ResultAt(k, r, i)
        /\ \A r \in Rounds : Offered(k, r)' => Offered(k, r)
    BY <1>1, <1>2, <2>1 DEF Reporting, ResultAt, Offered, TypeOK
  <2> QED BY <1>1, <1>2, <2>1, <2>2, FewerPlaces
<1>3. CASE /\ made < MaxClients /\ made' = made + 1
           /\ clients' = [clients EXCEPT ![made + 1] = "open"]
           /\ gres' = [gres EXCEPT ![d] = made + 1]
  <2> SUFFICES ASSUME NEW k \in Clients PROVE Placed(k)'
    BY DEF OnePlace
  <2>1. Placed(k) /\ made' >= made /\ k \in Nat /\ made \in Nat
    BY <1>3 DEF Clients, TypeOK, OnePlace
  <2>2. /\ \A r \in Rounds : \A i \in Nat : ResultAt(k, r, i)' <=> ResultAt(k, r, i)
        /\ \A r \in Rounds : Offered(k, r)' <=> Offered(k, r)
    BY <1>1 DEF ResultAt, Offered
  <2>3. CASE k # made + 1
    <3>1. \A e \in Dialers : Reporting(k, e)' => Reporting(k, e)
      BY <1>1, <1>3, <2>3 DEF Reporting, TypeOK
    <3>2. clients'[k] = clients[k]
      BY <1>3, <2>3 DEF TypeOK
    <3> QED BY <1>1, <2>1, <2>2, <3>1, <3>2, FewerPlaces
  <2>4. CASE k = made + 1
    <3>1. ~(k <= made) /\ k <= made'
      BY <1>3, <2>1, <2>4
    <3>2. ~InGoroutine(k) /\ ~InResults(k) /\ ~SomeOffer(k) /\ sshClient # k
      BY <2>1, <3>1 DEF Placed
    <3>3. ~InResults(k)' /\ ~SomeOffer(k)' /\ sshClient' # k
      BY <1>1, <3>2 DEF InResults, SomeOffer, Offered
    <3>4. \A e \in Dialers : Reporting(k, e)' => e = d
      BY <1>1, <1>3, <3>2 DEF Reporting, InGoroutine, TypeOK
    <3>5. clients'[k] = "open"
      BY <1>3, <2>4 DEF TypeOK
    <3>6. \A r \in Rounds : \A i \in Nat : ~ResultAt(k, r, i)
      BY <3>2, ResultPlaces
    <3> QED BY <2>2, <3>1, <3>3, <3>4, <3>5, <3>6 DEF Placed, SomeOffer
  <2> QED BY <2>3, <2>4
<1> QED BY <1>2, <1>3 DEF NewClient

\* Report moves the result of d to the end of the channel.
LEMMA ReportPlaced ==
  ASSUME TypeOK, TypeOK', RoundKnown, OnePlace, NEW d \in Dialers, Report(d)
  PROVE  OnePlace'
<1> USE DEF mgrVars, cliVars
<1>1. PICK q \in Rounds : q = ground[d]
  BY DEF Report, RoundKnown
<1>2. /\ gpc[d] = "report" /\ gpc' = [gpc EXCEPT ![d] = "return"]
      /\ sshClients' = [sshClients EXCEPT ![q] = Append(sshClients[q], gres[d])]
      /\ UNCHANGED <<gres, offer, sshClient, clients, made>>
  BY <1>1 DEF Report
<1> SUFFICES ASSUME NEW k \in Clients PROVE Placed(k)'
  BY DEF OnePlace
<1>3. Placed(k) /\ made' >= made
  BY <1>2 DEF OnePlace, TypeOK
<1>4. \A e \in Dialers : Reporting(k, e)' <=> Reporting(k, e) /\ e # d
  BY <1>2 DEF Reporting, TypeOK
<1>5. \A r \in Rounds : Offered(k, r)' <=> Offered(k, r)
  BY <1>2 DEF Offered
<1>6. \A r \in Rounds \ {q} : \A i \in Nat : ResultAt(k, r, i)' <=> ResultAt(k, r, i)
  BY <1>2 DEF ResultAt, TypeOK
<1>7. \A i \in Nat : ResultAt(k, q, i)'
        <=> ResultAt(k, q, i) \/ (i = Len(sshClients[q]) + 1 /\ gres[d] = k)
  <2>1. sshClients[q] \in Seq(Clients \cup {Nil}) /\ gres[d] \in Clients \cup {Nil}
    BY DEF TypeOK
  <2>2. sshClients'[q] = Append(sshClients[q], gres[d])
    BY <1>2 DEF TypeOK
  <2>3. /\ Len(sshClients'[q]) = Len(sshClients[q]) + 1
        /\ sshClients'[q][Len(sshClients[q]) + 1] = gres[d]
        /\ \A i \in 1..Len(sshClients[q]) : sshClients'[q][i] = sshClients[q][i]
    BY <2>1, <2>2
  <2>4. Len(sshClients[q]) \in Nat
    BY <2>1
  <2> QED BY <2>3, <2>4 DEF ResultAt
<1>8. CASE gres[d] # k
  <2>1. \A r \in Rounds : \A i \in Nat : ResultAt(k, r, i)' => ResultAt(k, r, i)
    BY <1>6, <1>7, <1>8
  <2> QED BY <1>2, <1>3, <1>4, <1>5, <2>1, FewerPlaces
<1>9. CASE gres[d] = k
  <2>1. Reporting(k, d) /\ InGoroutine(k)
    BY <1>2, <1>9 DEF Reporting, InGoroutine
  <2>2. ~InResults(k) /\ ~SomeOffer(k) /\ sshClient # k /\ k <= made /\ clients[k] # "closed"
    BY <1>3, <2>1 DEF Placed
  <2>3. \A e \in Dialers : ~Reporting(k, e)'
    BY <1>3, <1>4, <2>1 DEF Placed
  <2>4. \A r \in Rounds : \A i \in Nat : ~ResultAt(k, r, i)
    BY <2>2, ResultPlaces
  <2>5. \A r, p \in Rounds : \A i, j \in Nat :
          ResultAt(k, r, i)' /\ ResultAt(k, p, j)' => r = p /\ i = j
    BY <1>6, <1>7, <2>4
  <2>6. ~InGoroutine(k)' /\ ~SomeOffer(k)' /\ \A r \in Rounds : ~Offered(k, r)'
    BY <1>5, <2>2, <2>3 DEF InGoroutine, Reporting, SomeOffer
  <2> QED BY <1>2, <2>2, <2>3, <2>5, <2>6 DEF Placed
<1> QED BY <1>8, <1>9

\* The collector takes the first result out and offers it, or closes it.
LEMMA CollectPlaced ==
  ASSUME TypeOK, TypeOK', OnePlace, NEW q \in Rounds, Collect(q)
  PROVE  OnePlace'
<1> USE DEF poolVars, mgrVars
<1>1. PICK h \in Clients \cup {Nil} : h = Head(sshClients[q]) /\ h = sshClients[q][1]
        /\ sshClients[q] \in Seq(Clients \cup {Nil}) /\ sshClients[q] # <<>>
  BY DEF Collect, TypeOK
<1>2. /\ h # Nil /\ ~haveGet[q] => Len(offer[q]) < 1
      /\ sshClients' = [sshClients EXCEPT ![q] = Tail(sshClients[q])]
      /\ offer' = IF h # Nil /\ ~haveGet[q] THEN [offer EXCEPT ![q] = Append(offer[q], h)] ELSE offer
      /\ clients' = IF haveGet[q] THEN Closed(clients, h) ELSE clients
      /\ UNCHANGED <<gpc, gres, sshClient, made>>
  BY <1>1 DEF Collect
<1> SUFFICES ASSUME NEW k \in Clients PROVE Placed(k)'
  BY DEF OnePlace
<1>3. Placed(k) /\ made' >= made /\ k # Nil
  <2>1. Placed(k) /\ k # Nil
    BY ConstantsAssumption DEF OnePlace, Clients
  <2>2. made' = made /\ made \in Nat
    BY <1>2 DEF TypeOK
  <2> QED BY <2>1, <2>2
<1>4. \A e \in Dialers : Reporting(k, e)' <=> Reporting(k, e)
  BY <1>2 DEF Reporting
<1>5. \A r \in Rounds \ {q} : \A i \in Nat : ResultAt(k, r, i)' <=> ResultAt(k, r, i)
  BY <1>2 DEF ResultAt, TypeOK
<1>6. \A i \in Nat : ResultAt(k, q, i)' => ResultAt(k, q, i + 1) /\ i # 0
  <2>1. sshClients'[q] = Tail(sshClients[q])
    BY <1>2 DEF TypeOK
  <2>2. /\ Len(sshClients'[q]) = Len(sshClients[q]) - 1 /\ Len(sshClients[q]) \in Nat
        /\ \A i \in 1..Len(sshClients'[q]) : sshClients'[q][i] = sshClients[q][i + 1]
    BY <1>1, <2>1
  <2> QED BY <2>2 DEF ResultAt
<1>7. ResultAt(k, q, 1) <=> h = k
  <2>1. 1 \in 1..Len(sshClients[q])
    BY <1>1
  <2> QED BY <1>1, <2>1 DEF ResultAt
<1>8. InResults(k)' => InResults(k)
  <2>1. InResults(k)' <=> \E r \in Rounds : \E i \in Nat : ResultAt(k, r, i)'
    <3>1. \A r \in Rounds : Len(sshClients'[r]) \in Nat
      BY DEF TypeOK
    <3> QED BY <3>1 DEF InResults, ResultAt
  <2>2. \A i \in Nat : i + 1 \in Nat
    OBVIOUS
  <2> QED BY <1>5, <1>6, <2>1, <2>2, ResultPlaces
<1>9. \A r, p \in Rounds : \A i, j \in Nat :
        ResultAt(k, r, i)' /\ ResultAt(k, p, j)' => r = p /\ i = j
  <2> SUFFICES ASSUME NEW r \in Rounds, NEW p \in Rounds, NEW i \in Nat, NEW j \in Nat,
                      ResultAt(k, r, i)', ResultAt(k, p, j)'
               PROVE  r = p /\ i = j
    OBVIOUS
  <2> DEFINE ii == IF r = q THEN i + 1 ELSE i
             jj == IF p = q THEN j + 1 ELSE j
  <2>1. ii \in Nat /\ jj \in Nat /\ ResultAt(k, r, ii) /\ ResultAt(k, p, jj)
    BY <1>5, <1>6
  <2>2. r = p /\ ii = jj
    BY <1>3, <2>1 DEF Placed
  <2> QED BY <2>2
<1>10. InGoroutine(k)' <=> InGoroutine(k)
  BY <1>2 DEF InGoroutine
<1>11. CASE h # k
  <2>1. \A r \in Rounds : Offered(k, r)' => Offered(k, r)
    <3>1. CASE h # Nil /\ ~haveGet[q]
      <4>1. offer[q] = <<>> /\ offer' = [offer EXCEPT ![q] = Append(offer[q], h)]
        BY <1>2, <3>1 DEF TypeOK
      <4>2. offer'[q] = <<h>>
        BY <4>1 DEF TypeOK
      <4>3. \A r \in Rounds \ {q} : offer'[r] = offer[r]
        BY <4>1 DEF TypeOK
      <4>4. <<h>> # <<k>>
        BY <1>11
      <4> QED BY <4>2, <4>3, <4>4 DEF Offered
    <3>2. CASE ~(h # Nil /\ ~haveGet[q])
      BY <1>2, <3>2 DEF Offered
    <3> QED BY <3>1, <3>2
  <2>2. clients'[k] = clients[k]
    BY <1>2, <1>11 DEF Closed, TypeOK
  <2>3. SomeOffer(k)' => SomeOffer(k)
    BY <2>1 DEF SomeOffer
  <2> QED BY <1>2, <1>3, <1>4, <1>8, <1>9, <1>10, <2>1, <2>2, <2>3 DEF Placed
<1>12. CASE h = k
  <2>1. InResults(k)
    BY <1>7, <1>12, ResultPlaces
  <2>2. ~InGoroutine(k) /\ ~SomeOffer(k) /\ sshClient # k /\ k <= made /\ clients[k] # "closed"
    BY <1>3, <2>1 DEF Placed
  <2>3. \A r \in Rounds : \A i \in Nat : ~ResultAt(k, r, i)'
    <3> SUFFICES ASSUME NEW r \in Rounds, NEW i \in Nat, ResultAt(k, r, i)' PROVE FALSE
      OBVIOUS
    <3>1. CASE r = q
      <4>1. i + 1 \in Nat /\ i + 1 # 1 /\ ResultAt(k, q, i + 1)
        BY <1>6, <3>1
      <4> QED BY <1>3, <1>7, <1>12, <4>1 DEF Placed
    <3>2. CASE r # q
      BY <1>3, <1>5, <1>7, <1>12, <3>2 DEF Placed
    <3> QED BY <3>1, <3>2
  <2>4. ~InResults(k)'
    <3>1. \A r \in Rounds : Len(sshClients'[r]) \in Nat
      BY DEF TypeOK
    <3> QED BY <2>3, <3>1 DEF InResults, ResultAt
  <2>5. \A r \in Rounds : ~Offered(k, r)
    BY <2>2 DEF SomeOffer
  <2>6. CASE haveGet[q]
    <3>1. \A r \in Rounds : ~Offered(k, r)'
      BY <1>2, <2>5, <2>6 DEF Offered
    <3> QED BY <1>2, <1>4, <1>9, <1>10, <2>2, <2>3, <2>4, <3>1, <1>3 DEF Placed, SomeOffer
  <2>7. CASE ~haveGet[q]
    <3>1. \A r \in Rounds : Offered(k, r)' => r = q
      BY <1>2, <1>3, <1>12, <2>5, <2>7 DEF Offered, TypeOK
    <3>2. clients' = clients
      BY <1>2, <2>7
    <3> QED BY <1>2, <1>3, <1>4, <1>9, <1>10, <2>2, <2>3, <2>4, <3>1, <3>2 DEF Placed, SomeOffer
  <2> QED BY <2>6, <2>7
<1> QED BY <1>11, <1>12

\* The manager takes the client out of the offer of its round and installs it.
LEMMA TakePlaced ==
  ASSUME TypeOK, TypeOK', RoundKnown, OnePlace, TakeClient
  PROVE  OnePlace'
<1> USE DEF poolVars, cliVars
<1>1. PICK q \in Rounds : q = round /\ offer[q] # <<>>
  BY DEF TakeClient, RoundKnown
<1>2. PICK h \in Clients \cup {Nil} : offer[q] = <<h>>
  <2>1. offer[q] \in Seq(Clients \cup {Nil}) /\ Len(offer[q]) <= 1
    BY DEF TypeOK
  <2> QED BY <1>1, <2>1
<1>3. /\ sshClient' = h /\ offer' = [offer EXCEPT ![q] = Tail(offer[q])]
      /\ UNCHANGED <<gpc, gres, sshClients, clients, made>>
  BY <1>1, <1>2 DEF TakeClient
<1>4. offer'[q] = <<>>
  <2>1. offer'[q] = Tail(offer[q]) /\ offer'[q] \in Seq(Clients \cup {Nil})
    BY <1>3 DEF TypeOK
  <2>2. Len(Tail(<<h>>)) = 0
    OBVIOUS
  <2> QED BY <1>2, <2>1, <2>2
<1> SUFFICES ASSUME NEW k \in Clients PROVE Placed(k)'
  BY DEF OnePlace
<1>5. Placed(k) /\ made' >= made
  BY <1>3 DEF OnePlace, TypeOK
<1>6. /\ \A d \in Dialers : Reporting(k, d)' <=> Reporting(k, d)
      /\ \A r \in Rounds : \A i \in Nat : ResultAt(k, r, i)' <=> ResultAt(k, r, i)
      /\ \A r \in Rounds : Offered(k, r)' => Offered(k, r) /\ r # q
  <2>1. /\ \A d \in Dialers : Reporting(k, d)' <=> Reporting(k, d)
        /\ \A r \in Rounds : \A i \in Nat : ResultAt(k, r, i)' <=> ResultAt(k, r, i)
    BY <1>3 DEF Reporting, ResultAt
  <2>2. \A r \in Rounds \ {q} : offer'[r] = offer[r]
    BY <1>3 DEF TypeOK
  <2>3. <<>> # <<k>>
    OBVIOUS
  <2>4. \A r \in Rounds : Offered(k, r)' => Offered(k, r) /\ r # q
    BY <1>4, <2>2, <2>3 DEF Offered
  <2> QED BY <2>1, <2>4
<1>7. CASE h # k
  BY <1>3, <1>5, <1>6, <1>7, FewerPlaces
<1>8. CASE h = k
  <2>1. Offered(k, q) /\ SomeOffer(k)
    BY <1>2, <1>8 DEF Offered, SomeOffer
  <2>2. ~InGoroutine(k) /\ ~InResults(k) /\ k <= made /\ clients[k] # "closed"
    BY <1>5, <2>1 DEF Placed
  <2>3. \A r \in Rounds : ~Offered(k, r)'
    BY <1>5, <1>6, <2>1 DEF Placed
  <2>4. ~InGoroutine(k)' /\ ~InResults(k)' /\ ~SomeOffer(k)'
    BY <1>3, <2>2, <2>3 DEF InGoroutine, InResults, SomeOffer
  <2> QED BY <1>3, <1>5, <1>6, <2>2, <2>3, <2>4 DEF Placed
<1> QED BY <1>7, <1>8

\* The offer of a collector that passed nothing on ends with no client in it.
LEMMA EndPlaced ==
  ASSUME TypeOK, TypeOK', OnePlace, NEW q \in Rounds, CollectEnd(q)
  PROVE  OnePlace'
<1> USE DEF poolVars, mgrVars, cliVars
<1>1. /\ UNCHANGED <<gpc, gres, sshClients, sshClient, clients, made>>
      /\ offer' = offer \/ (Len(offer[q]) < 1 /\ offer' = [offer EXCEPT ![q] = Append(offer[q], Nil)])
  BY DEF CollectEnd, TypeOK
<1>2. \A r \in Rounds : offer'[r] = offer[r] \/ offer'[r] = <<Nil>>
  <2>1. CASE offer' = offer
    BY <2>1
  <2>2. CASE Len(offer[q]) < 1 /\ offer' = [offer EXCEPT ![q] = Append(offer[q], Nil)]
    <3>1. offer[q] = <<>>
      BY <2>2 DEF TypeOK
    <3> QED BY <2>2, <3>1 DEF TypeOK
  <2> QED BY <1>1, <2>1, <2>2
<1> SUFFICES ASSUME NEW k \in Clients PROVE Placed(k)'
  BY DEF OnePlace
<1>3. Placed(k) /\ made' >= made /\ k # Nil
  <2>1. Placed(k)
    BY DEF OnePlace
  <2>2. made' >= made
    BY <1>1 DEF TypeOK
  <2>3. k # Nil
    BY ConstantsAssumption DEF Clients
  <2> QED BY <2>1, <2>2, <2>3
<1>4. /\ \A d \in Dialers : Reporting(k, d)' => Reporting(k, d)
      /\ \A r \in Rounds : \A i \in Nat : ResultAt(k, r, i)' => ResultAt(k, r, i)
  BY <1>1 DEF Reporting, ResultAt
<1>5. \A r \in Rounds : Offered(k, r)' => Offered(k, r)
  BY <1>2, <1>3 DEF Offered
<1> QED BY <1>1, <1>3, <1>4, <1>5, FewerPlaces

LEMMA PlacesStep ==
  ASSUME TypeOK, RoundKnown, DialerConserved, OnePlace, [Next]_vars
  PROVE  OnePlace'
<1>0. TypeOK'
  BY TypesStep
<1> USE <1>0 DEF poolVars, roundVars, mgrVars, cliVars
<1>1. CASE ServerIsOK \/ AssignValid \/ StartCollector \/ TimeOut \/ Terminate \/ Sleep
  <2>1. /\ UNCHANGED <<gpc, gres, sshClients, offer, made, clients>>
        /\ sshClient' \in {sshClient, Nil}
    BY <1>1 DEF ServerIsOK, AssignValid, StartCollector, TimeOut, Terminate, Sleep
  <2> QED BY <2>1, SamePlaces
<1>2. CASE CloseOld
  <2>1. \A k \in Clients : clients'[k] = "closed" => clients[k] = "closed" \/ sshClient = k
    BY <1>2 DEF CloseOld, Closed, TypeOK
  <2> QED BY <1>2, <2>1, SamePlaces DEF CloseOld
<1>3. CASE PopSSHDialer
  <2>1. PICK h : gpc' = [gpc EXCEPT ![h] = "dial"]
    BY <1>3 DEF PopSSHDialer
  <2>2. \A d \in Dialers : gpc'[d] = "report" => gpc[d] = "report"
    BY <2>1 DEF TypeOK
  <2> QED BY <1>3, <2>2, SamePlaces DEF PopSSHDialer
<1>4. CASE TakeClient
  BY <1>4, TakePlaced
<1>5. ASSUME NEW d \in Dialers, NewClient(d) PROVE OnePlace'
  BY <1>5, NewPlaced
<1>6. ASSUME NEW d \in Dialers, Report(d) PROVE OnePlace'
  BY <1>6, ReportPlaced
<1>7. ASSUME NEW d \in Dialers, ReturnDialer(d) PROVE OnePlace'
  <2>1. \A e \in Dialers : gpc'[e] = "report" => gpc[e] = "report" /\ gres'[e] = gres[e]
    BY <1>7 DEF ReturnDialer, TypeOK
  <2> QED BY <1>7, <2>1, SamePlaces DEF ReturnDialer
<1>8. ASSUME NEW r \in Rounds, Collect(r) PROVE OnePlace'
  BY <1>8, CollectPlaced
<1>9. ASSUME NEW r \in Rounds, CollectEnd(r) PROVE OnePlace'
  BY <1>9, EndPlaced
<1>10. ASSUME NEW u \in Users, FindClient(u) \/ BeginDial(u) \/ EndDial(u) PROVE OnePlace'
  BY <1>10, SamePlaces DEF FindClient, BeginDial, EndDial
<1>11. ASSUME NEW k \in Clients, DropConnection(k) PROVE OnePlace'
  <2>1. \A j \in Clients : clients'[j] = "closed" => clients[j] = "closed"
    BY <1>11 DEF DropConnection, TypeOK
  <2> QED BY <1>11, <2>1, SamePlaces DEF DropConnection
<1>12. CASE Cancel \/ UNCHANGED vars
  BY <1>12, SamePlaces DEF Cancel, vars
<1> QED
  BY <1>1, <1>2, <1>3, <1>4, <1>5, <1>6, <1>7, <1>8, <1>9, <1>10, <1>11, <1>12
     DEF Next, Manager, DialGoroutine, Collector

-----------------------------------------------------------------------------
(* The installed client.                                                    *)

\* While the manager reconnects, the client it had is closed and connIsValid
\* is FALSE: users can clear the flag at any time but only a check sets it.
Reconnecting ==
  /\ mpc \in {"close", "pop", "select"} => ~connIsValid
  /\ sshClient \in Clients /\ mpc \in {"pop", "select"} => clients[sshClient] = "closed"
  /\ sshClient \in Clients /\ clients[sshClient] = "closed" =>
       mpc \in {"pop", "select", "done"} /\ ~connIsValid

\* A step outside StartServe that neither closes nor revives the installed client.
LEMMA StillConnected ==
  ASSUME Reconnecting, UNCHANGED <<mpc, sshClient>>, connIsValid' => connIsValid,
         sshClient \in Clients =>
           (clients'[sshClient] = "closed" <=> clients[sshClient] = "closed")
  PROVE  Reconnecting'
BY DEF Reconnecting

LEMMA ReconnectStep ==
  ASSUME TypeOK, RoundKnown, OnePlace, Reconnecting, [Next]_vars
  PROVE  Reconnecting'
<1> USE DEF poolVars, roundVars, mgrVars, cliVars
<1>1. CASE ServerIsOK
  BY <1>1 DEF ServerIsOK, Reconnecting
<1>2. CASE AssignValid
  BY <1>2 DEF AssignValid, Reconnecting
<1>3. CASE CloseOld
  <2>1. mpc = "close" /\ mpc' = "pop" /\ UNCHANGED <<sshClient, connIsValid>>
    BY <1>3 DEF CloseOld
  <2>2. sshClient \in Clients => clients'[sshClient] = "closed"
    BY <1>3, ConstantsAssumption DEF CloseOld, Closed, TypeOK, Clients
  <2> QED BY <2>1, <2>2 DEF Reconnecting
<1>4. CASE PopSSHDialer
  BY <1>4, StillConnected DEF PopSSHDialer
<1>5. CASE StartCollector
  BY <1>5 DEF StartCollector, Reconnecting
<1>6. CASE TakeClient
  <2>1. PICK q \in Rounds : q = round /\ offer[q] # <<>>
    BY <1>6 DEF TakeClient, RoundKnown
  <2>2. mpc' = "sleep" /\ sshClient' = Head(offer[q]) /\ UNCHANGED <<connIsValid, clients>>
    BY <1>6, <2>1 DEF TakeClient
  <2>3. sshClient' \in Clients => clients[sshClient'] # "closed"
    <3>1. offer[q] = <<Head(offer[q])>>
      <4>1. offer[q] \in Seq(Clients \cup {Nil}) /\ Len(offer[q]) <= 1
        BY DEF TypeOK
      <4> QED BY <2>1, <4>1
    <3> QED BY <2>2, <3>1 DEF OnePlace, Placed, SomeOffer, Offered
  <2> QED BY <2>2, <2>3 DEF Reconnecting
<1>7. CASE TimeOut
  <2>1. mpc' = "sleep" /\ sshClient' = Nil /\ Nil \notin Clients
    BY <1>7, ConstantsAssumption DEF TimeOut, Clients
  <2> QED BY <2>1 DEF Reconnecting
<1>8. CASE Terminate
  BY <1>8 DEF Terminate, Reconnecting
<1>9. CASE Sleep
  BY <1>9 DEF Sleep, Reconnecting
<1>10. ASSUME NEW d \in Dialers, DialGoroutine(d) PROVE Reconnecting'
  <2>1. clients' = clients \/ (made < MaxClients /\ clients' = [clients EXCEPT ![made + 1] = "open"])
    BY <1>10 DEF DialGoroutine, NewClient, Report, ReturnDialer
  <2>2. sshClient \in Clients => clients'[sshClient] = clients[sshClient]
    <3>1. sshClient \in Clients => sshClient <= made
      BY DEF OnePlace, Placed
    <3>2. sshClient \in Clients => sshClient # made + 1
      BY <3>1 DEF Clients, TypeOK
    <3> QED BY <2>1, <3>2 DEF TypeOK
  <2>3. UNCHANGED <<mpc, sshClient, connIsValid>>
    BY <1>10 DEF DialGoroutine, NewClient, Report, ReturnDialer
  <2> QED BY <2>2, <2>3, StillConnected
<1>11. ASSUME NEW r \in Rounds, Collect(r) PROVE Reconnecting'
  <2> DEFINE h == Head(sshClients[r])
  <2>1. h = sshClients[r][1] /\ 1 \in 1..Len(sshClients[r])
    BY <1>11 DEF Collect, TypeOK
  <2>2. sshClient \in Clients => sshClient # h
    BY <2>1 DEF OnePlace, Placed, InResults
  <2>3. clients' = clients \/ clients' = Closed(clients, h)
    BY <1>11 DEF Collect
  <2> HIDE DEF h
  <2>4. sshClient \in Clients => clients'[sshClient] = clients[sshClient]
    BY <2>2, <2>3 DEF Closed, TypeOK
  <2>5. UNCHANGED <<mpc, sshClient, connIsValid>>
    BY <1>11 DEF Collect
  <2> QED BY <2>4, <2>5, StillConnected
<1>12. ASSUME NEW r \in Rounds, CollectEnd(r) PROVE Reconnecting'
  BY <1>12, StillConnected DEF CollectEnd
<1>13. ASSUME NEW u \in Users, FindClient(u) \/ BeginDial(u) \/ EndDial(u)
       PROVE Reconnecting'
  BY <1>13, StillConnected DEF FindClient, BeginDial, EndDial
<1>14. ASSUME NEW k \in Clients, DropConnection(k) PROVE Reconnecting'
  <2>1. \A j \in Clients : clients'[j] = "closed" <=> clients[j] = "closed"
    BY <1>14 DEF DropConnection, TypeOK
  <2> QED BY <1>14, <2>1, StillConnected DEF DropConnection
<1>15. CASE Cancel \/ UNCHANGED vars
  BY <1>15, StillConnected DEF Cancel, vars
<1> QED
  BY <1>1, <1>2, <1>3, <1>4, <1>5, <1>6, <1>7, <1>8, <1>9, <1>10, <1>11, <1>12, <1>13, <1>14, <1>15
     DEF Next, Manager, Collector

-----------------------------------------------------------------------------
(* Clients that nobody closes.                                              *)

\* A collector that has passed nothing on works for the round the manager
\* waits for, or for one it gave up.
Collecting ==
  \A r \in Rounds : cpc[r] = "run" /\ ~haveGet[r] => Wanted(r) \/ r \in abandoned

LEMMA SameWanted ==
  ASSUME Collecting, UNCHANGED <<round, abandoned>>, mpc = "select" => mpc' = "select",
         \A r \in Rounds : cpc'[r] = "run" /\ ~haveGet'[r] => cpc[r] = "run" /\ ~haveGet[r]
  PROVE  Collecting'
BY DEF Collecting, Wanted

LEMMA CollectingStep ==
  ASSUME TypeOK, RoundKnown, RoundsFresh, Collecting, [Next]_vars
  PROVE  Collecting'
<1> USE DEF poolVars, roundVars, mgrVars, cliVars
<1>1. CASE ServerIsOK \/ AssignValid \/ PopSSHDialer \/ Sleep
  BY <1>1, SameWanted DEF ServerIsOK, AssignValid, PopSSHDialer, Sleep
<1>2. CASE CloseOld
  BY <1>2 DEF CloseOld, Collecting, Wanted
<1>3. CASE StartCollector
  BY <1>3 DEF StartCollector, Collecting, Wanted, TypeOK
<1>4. CASE TakeClient
  \* Something was in the offer, so this collector is through with it.
  BY <1>4 DEF TakeClient, Collecting, Wanted, RoundsFresh
<1>5. CASE TimeOut \/ Terminate
  BY <1>5 DEF TimeOut, Terminate, Collecting, Wanted
<1>6. ASSUME NEW d \in Dialers, DialGoroutine(d) PROVE Collecting'
  BY <1>6, SameWanted DEF DialGoroutine, NewClient, Report, ReturnDialer
<1>7. ASSUME NEW q \in Rounds, Collect(q) PROVE Collecting'
  <2>1. UNCHANGED <<round, abandoned, mpc, cpc>> /\ \A r \in Rounds : haveGet[r] => haveGet'[r]
    BY <1>7 DEF Collect, TypeOK
  <2> QED BY <2>1, SameWanted
<1>8. ASSUME NEW q \in Rounds, CollectEnd(q) PROVE Collecting'
  <2>1. /\ UNCHANGED <<round, abandoned, mpc, haveGet>>
        /\ \A r \in Rounds : cpc'[r] = "run" => cpc[r] = "run"
    BY <1>8 DEF CollectEnd, TypeOK
  <2> QED BY <2>1, SameWanted
<1>9. ASSUME NEW u \in Users, FindClient(u) \/ BeginDial(u) \/ EndDial(u) PROVE Collecting'
  BY <1>9, SameWanted DEF FindClient, BeginDial, EndDial
<1>10. ASSUME NEW k \in Clients, DropConnection(k) PROVE Collecting'
  BY <1>10, SameWanted DEF DropConnection
<1>11. CASE Cancel \/ UNCHANGED vars
  BY <1>11, SameWanted DEF Cancel, vars
<1> QED
  BY <1>1, <1>2, <1>3, <1>4, <1>5, <1>6, <1>7, <1>8, <1>9, <1>10, <1>11
     DEF Next, Manager, Collector

LEMMA MadeClients ==
  ASSUME TypeOK PROVE made \in Nat /\ \A k \in 1..made : k \in Clients
<1>1. made \in Nat /\ made <= MaxClients /\ MaxClients \in Nat
  BY ConstantsAssumption DEF TypeOK
<1> QED BY <1>1 DEF Clients

\* The places of a client that is not closed.
Kept(k) ==
  \/ InGoroutine(k) \/ InResults(k) \/ sshClient = k
  \/ \E r \in Rounds : Offered(k, r) /\ (Wanted(r) \/ r \in abandoned)

AllKept == \A k \in 1..made : clients[k] # "closed" => Kept(k)

\* Offers that are left alone stay wanted or become those of abandoned rounds.
OffersKept ==
  /\ \A r \in Rounds : Wanted(r) => Wanted(r)' \/ r \in abandoned'
  /\ abandoned \subseteq abandoned'

\* A step that closes no client but the installed one, and takes a client from
\* no place, except the installed one once it is closed.
LEMMA SameKept ==
  ASSUME TypeOK, AllKept, OffersKept, UNCHANGED <<sshClients, offer, made>>,
         \A d \in Dialers : gpc[d] = "report" => gpc'[d] = "report" /\ gres'[d] = gres[d],
         \A k \in Clients : clients[k] = "closed" => clients'[k] = "closed",
         \/ sshClient' = sshClient
         \/ sshClient \in Clients => clients'[sshClient] = "closed"
  PROVE  AllKept'
<1> SUFFICES ASSUME NEW k \in 1..made', clients'[k] # "closed" PROVE Kept(k)'
  BY DEF AllKept, Kept
<1>1. k \in 1..made /\ k \in Clients /\ clients[k] # "closed" /\ Kept(k)
  BY MadeClients DEF AllKept, Kept
<1>2. CASE InGoroutine(k)
  BY <1>2 DEF InGoroutine, Kept
<1>3. CASE InResults(k)
  BY <1>3 DEF InResults, Kept
<1>4. CASE sshClient = k
  BY <1>1, <1>4 DEF Kept
<1>5. CASE \E r \in Rounds : Offered(k, r) /\ (Wanted(r) \/ r \in abandoned)
  <2>1. PICK r \in Rounds : Offered(k, r) /\ (Wanted(r) \/ r \in abandoned)
    BY <1>5
  <2>2. Offered(k, r)' /\ (Wanted(r)' \/ r \in abandoned')
    BY <2>1 DEF Offered, OffersKept
  <2> QED BY <2>2 DEF Kept
<1> QED BY <1>1, <1>2, <1>3, <1>4, <1>5 DEF Kept

LEMMA NewKept ==
  ASSUME TypeOK, AllKept, NEW d \in Dialers, NewClient(d)
  PROVE  AllKept'
<1> USE DEF roundVars, mgrVars, cliVars
<1>1. /\ gpc[d] = "dial" /\ gpc' = [gpc EXCEPT ![d] = "report"]
      /\ \A e \in Dialers \ {d} : gpc'[e] = gpc[e] /\ gres'[e] = gres[e]
      /\ UNCHANGED <<sshClients, offer, sshClient, round, mpc, abandoned>>
  BY DEF NewClient, TypeOK
<1>2. \A e \in Dialers : gpc[e] = "report" => gpc'[e] = "report" /\ gres'[e] = gres[e]
  BY <1>1
<1>3. CASE UNCHANGED cliVars
  BY <1>1, <1>2, <1>3, SameKept DEF OffersKept, Wanted
<1>4. CASE /\ made < MaxClients /\ made' = made + 1
           /\ clients' = [clients EXCEPT ![made + 1] = "open"]
           /\ gres' = [gres EXCEPT ![d] = made + 1]
  <2> SUFFICES ASSUME NEW k \in 1..made', clients'[k] # "closed" PROVE Kept(k)'
    BY DEF AllKept, Kept
  <2>1. CASE k = made + 1
    <3>1. gpc'[d] = "report" /\ gres'[d] = k
      BY <1>1, <1>4, <2>1 DEF TypeOK
    <3> QED BY <3>1 DEF Kept, InGoroutine
  <2>2. CASE k # made + 1
    <3>1. k \in 1..made /\ k \in Clients
      BY <1>4, <2>2, MadeClients
    <3>2. Kept(k)
      BY <1>4, <2>2, <3>1 DEF AllKept, Kept, TypeOK
    <3>3. InGoroutine(k) => InGoroutine(k)'
      BY <1>2 DEF InGoroutine
    <3> QED BY <1>1, <3>2, <3>3 DEF Kept, InResults, Offered, Wanted
  <2> QED BY <2>1, <2>2
<1> QED BY <1>3, <1>4 DEF NewClient

LEMMA ReportKept ==
  ASSUME TypeOK, RoundKnown, AllKept, NEW d \in Dialers, Report(d)
  PROVE  AllKept'
<1> USE DEF mgrVars, cliVars
<1>1. PICK q \in Rounds : q = ground[d]
  BY DEF Report, RoundKnown
<1>2. /\ gpc' = [gpc EXCEPT ![d] = "return"]
      /\ sshClients' = [sshClients EXCEPT ![q] = Append(sshClients[q], gres[d])]
      /\ UNCHANGED <<gres, offer, sshClient, clients, made, round, mpc, abandoned>>
  BY <1>1 DEF Report
<1>3. /\ Len(sshClients[q]) \in Nat /\ Len(sshClients'[q]) = Len(sshClients[q]) + 1
      /\ sshClients'[q][Len(sshClients[q]) + 1] = gres[d]
      /\ \A i \in 1..Len(sshClients[q]) : sshClients'[q][i] = sshClients[q][i]
  <2>1. sshClients[q] \in Seq(Clients \cup {Nil}) /\ gres[d] \in Clients \cup {Nil}
    BY DEF TypeOK
  <2>2. sshClients'[q] = Append(sshClients[q], gres[d])
    BY <1>2 DEF TypeOK
  <2> QED BY <2>1, <2>2
<1> SUFFICES ASSUME NEW k \in 1..made', clients'[k] # "closed" PROVE Kept(k)'
  BY DEF AllKept, Kept
<1>4. Kept(k)
  BY <1>2 DEF AllKept, Kept
<1>5. CASE InGoroutine(k)
  <2>1. PICK e \in Dialers : gpc[e] = "report" /\ gres[e] = k
    BY <1>5 DEF InGoroutine
  <2>2. CASE e = d
    <3>1. Len(sshClients'[q]) \in 1..Len(sshClients'[q]) /\ sshClients'[q][Len(sshClients'[q])] = k
      BY <1>3, <2>1, <2>2
    <3> QED BY <3>1 DEF Kept, InResults
  <2>3. CASE e # d
    BY <1>2, <2>1, <2>3 DEF Kept, InGoroutine, TypeOK
  <2> QED BY <2>2, <2>3
<1>6. CASE InResults(k)
  <2>1. PICK r \in Rounds : \E i \in 1..Len(sshClients[r]) : sshClients[r][i] = k
    BY <1>6 DEF InResults
  <2>2. PICK i \in 1..Len(sshClients[r]) : sshClients[r][i] = k
    BY <2>1
  <2>3. i \in 1..Len(sshClients'[r]) /\ sshClients'[r][i] = k
    <3>1. CASE r = q
      BY <1>3, <2>2, <3>1
    <3>2. CASE r # q
      BY <1>2, <2>2, <3>2 DEF TypeOK
    <3> QED BY <3>1, <3>2
  <2> QED BY <2>3 DEF Kept, InResults
<1>7. CASE sshClient = k \/ \E r \in Rounds : Offered(k, r) /\ (Wanted(r) \/ r \in abandoned)
  BY <1>2, <1>7 DEF Kept, Offered, Wanted
<1> QED BY <1>4, <1>5, <1>6, <1>7 DEF Kept

\* The collector offers the first client, which somebody wants or nobody will,
\* and closes the others.
LEMMA CollectKept ==
  ASSUME TypeOK, AllKept, Collecting, NEW q \in Rounds, Collect(q)
  PROVE  AllKept'
<1> USE DEF poolVars, mgrVars
<1>1. PICK h \in Clients \cup {Nil} : h = Head(sshClients[q]) /\ h = sshClients[q][1]
        /\ sshClients[q] \in Seq(Clients \cup {Nil}) /\ sshClients[q] # <<>>
  BY DEF Collect, TypeOK
<1>2. /\ h # Nil /\ ~haveGet[q] => Len(offer[q]) < 1
      /\ sshClients' = [sshClients EXCEPT ![q] = Tail(sshClients[q])]
      /\ offer' = IF h # Nil /\ ~haveGet[q] THEN [offer EXCEPT ![q] = Append(offer[q], h)] ELSE offer
      /\ clients' = IF haveGet[q] THEN Closed(clients, h) ELSE clients
      /\ UNCHANGED <<gpc, gres, sshClient, made, mpc, round, abandoned>>
  BY <1>1 DEF Collect
<1>3. cpc[q] = "run"
  BY DEF Collect
<1> SUFFICES ASSUME NEW k \in 1..made', clients'[k] # "closed" PROVE Kept(k)'
  BY DEF AllKept, Kept
<1>4. k \in 1..made /\ k \in Clients /\ k # Nil
  <2>1. k \in 1..made /\ k \in Clients
    BY <1>2, MadeClients
  <2> QED BY <2>1, ConstantsAssumption DEF Clients
<1>5. clients[k] # "closed"
  BY <1>2, <1>4 DEF Closed, TypeOK
<1>6. Kept(k)
  BY <1>4, <1>5 DEF AllKept, Kept
<1>7. CASE InGoroutine(k) \/ sshClient = k
  BY <1>2, <1>7 DEF Kept, InGoroutine
<1>8. CASE InResults(k)
  <2>1. PICK r \in Rounds : \E i \in 1..Len(sshClients[r]) : sshClients[r][i] = k
    BY <1>8 DEF InResults
  <2>2. PICK i \in 1..Len(sshClients[r]) : sshClients[r][i] = k
    BY <2>1
  <2>3. CASE r # q
    BY <1>2, <2>2, <2>3 DEF Kept, InResults, TypeOK
  <2>4. CASE r = q /\ i # 1
    <3>1. sshClients'[q] = Tail(sshClients[q])
      BY <1>2 DEF TypeOK
    <3>2. i - 1 \in 1..Len(Tail(sshClients[q])) /\ Tail(sshClients[q])[i - 1] = sshClients[q][i]
      BY <1>1, <2>2, <2>4
    <3> QED BY <2>2, <2>4, <3>1, <3>2 DEF Kept, InResults
  <2>5. CASE r = q /\ i = 1
    <3>1. h = k
      BY <1>1, <2>2, <2>5
    <3>2. ~haveGet[q]
      BY <1>2, <1>4, <3>1 DEF Closed, TypeOK
    <3>3. offer[q] = <<>>
      BY <1>2, <1>4, <3>1, <3>2 DEF TypeOK
    <3>4. offer'[q] = <<k>>
      BY <1>2, <1>4, <3>1, <3>2, <3>3 DEF TypeOK
    <3>5. Wanted(q)' \/ q \in abandoned'
      BY <1>2, <1>3, <3>2 DEF Collecting, Wanted
    <3> QED BY <3>4, <3>5 DEF Kept, Offered
  <2> QED BY <2>3, <2>4, <2>5
<1>9. CASE \E r \in Rounds : Offered(k, r) /\ (Wanted(r) \/ r \in abandoned)
  <2>1. PICK r \in Rounds : Offered(k, r) /\ (Wanted(r) \/ r \in abandoned)
    BY <1>9
  <2>2. Len(offer[r]) = 1
    BY <2>1 DEF Offered
  <2>3. offer'[r] = offer[r]
    BY <1>2, <2>2 DEF TypeOK
  <2>4. Offered(k, r)' /\ (Wanted(r)' \/ r \in abandoned')
    BY <1>2, <2>1, <2>3 DEF Offered, Wanted
  <2> QED BY <2>4 DEF Kept
<1> QED BY <1>6, <1>7, <1>8, <1>9 DEF Kept

LEMMA EndKept ==
  ASSUME TypeOK, AllKept, NEW q \in Rounds, CollectEnd(q)
  PROVE  AllKept'
<1> USE DEF poolVars, mgrVars, cliVars
<1>1. /\ UNCHANGED <<gpc, gres, sshClients, sshClient, clients, made, mpc, round, abandoned>>
      /\ \A r \in Rounds : Len(offer[r]) = 1 => offer'[r] = offer[r]
  BY DEF CollectEnd, TypeOK
<1> SUFFICES ASSUME NEW k \in 1..made', clients'[k] # "closed" PROVE Kept(k)'
  BY DEF AllKept, Kept
<1>2. Kept(k)
  BY <1>1 DEF AllKept, Kept
<1>3. CASE InGoroutine(k) \/ InResults(k) \/ sshClient = k
  BY <1>1, <1>3 DEF Kept, InGoroutine, InResults
<1>4. CASE \E r \in Rounds : Offered(k, r) /\ (Wanted(r) \/ r \in abandoned)
  <2>1. PICK r \in Rounds : Offered(k, r) /\ (Wanted(r) \/ r \in abandoned)
    BY <1>4
  <2>2. Len(offer[r]) = 1
    BY <2>1 DEF Offered
  <2> QED BY <1>1, <2>1, <2>2 DEF Kept, Offered, Wanted
<1> QED BY <1>2, <1>3, <1>4 DEF Kept

\* The manager takes what the round it waits for offers.  Its old client was
\* closed before the round began.
LEMMA TakeKept ==
  ASSUME TypeOK, RoundKnown, Reconnecting, AllKept, TakeClient
  PROVE  AllKept'
<1> USE DEF poolVars, cliVars
<1>1. PICK q \in Rounds : q = round /\ offer[q] # <<>>
  BY DEF TakeClient, RoundKnown
<1>2. /\ mpc = "select" /\ sshClient' = Head(offer[q])
      /\ offer' = [offer EXCEPT ![q] = Tail(offer[q])]
      /\ UNCHANGED <<gpc, gres, sshClients, clients, made, abandoned>>
  BY <1>1 DEF TakeClient
<1> SUFFICES ASSUME NEW k \in 1..made', clients'[k] # "closed" PROVE Kept(k)'
  BY DEF AllKept, Kept
<1>3. k \in Clients /\ Kept(k)
  BY <1>2, MadeClients DEF AllKept, Kept
<1>4. sshClient # k
  BY <1>2, <1>3 DEF Reconnecting
<1>5. CASE InGoroutine(k) \/ InResults(k)
  BY <1>2, <1>5 DEF Kept, InGoroutine, InResults
<1>6. CASE \E r \in Rounds : Offered(k, r) /\ (Wanted(r) \/ r \in abandoned)
  <2>1. PICK r \in Rounds : Offered(k, r) /\ (Wanted(r) \/ r \in abandoned)
    BY <1>6
  <2>2. CASE r = q
    <3>1. Head(offer[q]) = k
      BY <2>1, <2>2 DEF Offered
    <3> QED BY <1>2, <3>1 DEF Kept
  <2>3. CASE r # q
    <3>1. Offered(k, r)' /\ r \in abandoned'
      BY <1>1, <1>2, <2>1, <2>3 DEF Offered, Wanted, TypeOK
    <3> QED BY <3>1 DEF Kept
  <2> QED BY <2>2, <2>3
<1> QED BY <1>3, <1>4, <1>5, <1>6 DEF Kept

LEMMA KeptStep ==
  ASSUME TypeOK, RoundKnown, DialerConserved, Reconnecting, Collecting, AllKept,
         [Next]_vars
  PROVE  AllKept'
<1> USE DEF poolVars, roundVars, mgrVars, cliVars
<1>1. CASE ServerIsOK \/ AssignValid \/ StartCollector \/ Sleep
  <2>1. UNCHANGED <<gpc, gres, sshClients, offer, made, clients, sshClient, round, abandoned>>
    BY <1>1 DEF ServerIsOK, AssignValid, StartCollector, Sleep
  <2>2. OffersKept
    BY <1>1, <2>1 DEF ServerIsOK, AssignValid, StartCollector, Sleep, OffersKept, Wanted
  <2> QED BY <2>1, <2>2, SameKept
<1>2. CASE CloseOld
  <2>1. \A k \in Clients : clients[k] = "closed" => clients'[k] = "closed"
    BY <1>2 DEF CloseOld, Closed, TypeOK
  <2>2. OffersKept
    BY <1>2 DEF CloseOld, OffersKept, Wanted
  <2> QED BY <1>2, <2>1, <2>2, SameKept DEF CloseOld
<1>3. CASE PopSSHDialer
  <2>1. PICK h \in Dialers : h = Head(sshDialers) /\ gpc[h] = "pooled"
    BY <1>3, FirstPooled DEF PopSSHDialer
  <2>2. \A d \in Dialers : gpc[d] = "report" => gpc'[d] = "report"
    BY <1>3, <2>1 DEF PopSSHDialer, TypeOK
  <2>3. OffersKept
    BY <1>3 DEF PopSSHDialer, OffersKept, Wanted
  <2> QED BY <1>3, <2>2, <2>3, SameKept DEF PopSSHDialer
<1>4. CASE TakeClient
  BY <1>4, TakeKept
<1>5. CASE TimeOut \/ Terminate
  <2>1. /\ UNCHANGED <<gpc, gres, sshClients, offer, made, clients, round>>
        /\ mpc = "select" /\ sshClient' \in {sshClient, Nil}
        /\ abandoned' = abandoned \cup {round}
    BY <1>5 DEF TimeOut, Terminate
  <2>2. OffersKept
    BY <2>1 DEF OffersKept, Wanted
  <2>3. sshClient \in Clients => clients'[sshClient] = "closed"
    BY <2>1 DEF Reconnecting
  <2> QED BY <2>1, <2>2, <2>3, SameKept
<1>6. ASSUME NEW d \in Dialers, NewClient(d) PROVE AllKept'
  BY <1>6, NewKept
<1>7. ASSUME NEW d \in Dialers, Report(d) PROVE AllKept'
  BY <1>7, ReportKept
<1>8. ASSUME NEW d \in Dialers, ReturnDialer(d) PROVE AllKept'
  <2>1. \A e \in Dialers : gpc[e] = "report" => gpc'[e] = "report" /\ gres'[e] = gres[e]
    BY <1>8 DEF ReturnDialer, TypeOK
  <2>2. OffersKept
    BY <1>8 DEF ReturnDialer, OffersKept, Wanted
  <2> QED BY <1>8, <2>1, <2>2, SameKept DEF ReturnDialer
<1>9. ASSUME NEW r \in Rounds, Collect(r) PROVE AllKept'
  BY <1>9, CollectKept
<1>10. ASSUME NEW r \in Rounds, CollectEnd(r) PROVE AllKept'
  BY <1>10, EndKept
<1>11. ASSUME NEW u \in Users, FindClient(u) \/ BeginDial(u) \/ EndDial(u) PROVE AllKept'
  <2>1. OffersKept
    BY <1>11 DEF FindClient, BeginDial, EndDial, OffersKept, Wanted
  <2> QED BY <1>11, <2>1, SameKept DEF FindClient, BeginDial, EndDial
<1>12. ASSUME NEW k \in Clients, DropConnection(k) PROVE AllKept'
  <2>1. \A j \in Clients : clients[j] = "closed" => clients'[j] = "closed"
    BY <1>12 DEF DropConnection, TypeOK
  <2>2. OffersKept
    BY <1>12 DEF DropConnection, OffersKept, Wanted
  <2> QED BY <1>12, <2>1, <2>2, SameKept DEF DropConnection
<1>13. CASE Cancel \/ UNCHANGED vars
  <2>1. OffersKept
    BY <1>13 DEF Cancel, vars, OffersKept, Wanted
  <2> QED BY <1>13, <2>1, SameKept DEF Cancel, vars
<1> QED
  BY <1>1, <1>2, <1>3, <1>4, <1>5, <1>6, <1>7, <1>8, <1>9, <1>10, <1>11, <1>12, <1>13
     DEF Next, Manager, DialGoroutine, Collector

-----------------------------------------------------------------------------
\* StartServe returns only when the context is done.
DoneCancelled == mpc = "done" => cancelled

LEMMA DoneStep == DoneCancelled /\ [Next]_vars => DoneCancelled'
<1> SUFFICES ASSUME DoneCancelled, [Next]_vars PROVE DoneCancelled'
  OBVIOUS
<1> USE DEF DoneCancelled, mgrVars
<1>1. CASE Manager
  BY <1>1 DEF Manager, ServerIsOK, AssignValid, CloseOld, PopSSHDialer, StartCollector,
              TakeClient, TimeOut, Terminate, Sleep
<1>2. ASSUME NEW d \in Dialers, DialGoroutine(d) PROVE DoneCancelled'
  BY <1>2 DEF DialGoroutine, NewClient, Report, ReturnDialer
<1>3. ASSUME NEW r \in Rounds, Collector(r) PROVE DoneCancelled'
  BY <1>3 DEF Collector, Collect, CollectEnd
<1>4. ASSUME NEW u \in Users, FindClient(u) \/ BeginDial(u) \/ EndDial(u) PROVE DoneCancelled'
  BY <1>4 DEF FindClient, BeginDial, EndDial
<1>5. ASSUME NEW k \in Clients, DropConnection(k) PROVE DoneCancelled'
  BY <1>5 DEF DropConnection
<1>6. CASE Cancel \/ UNCHANGED vars
  BY <1>6 DEF Cancel, vars
<1> QED BY <1>1, <1>2, <1>3, <1>4, <1>5, <1>6 DEF Next

ClientInv ==
  /\ TypeOK /\ RoundKnown /\ DialerConserved /\ RoundsFresh
  /\ OnePlace /\ Reconnecting /\ Collecting /\ AllKept
  /\ DoneCancelled

LEMMA ClientInit == Init => ClientInv
<1> SUFFICES ASSUME Init PROVE ClientInv
  OBVIOUS
<1>1. TypeOK /\ RoundKnown /\ DialerConserved /\ RoundsFresh
  BY InitInv, CountInit
<1>2. OnePlace
  <2> SUFFICES ASSUME NEW k \in Clients PROVE Placed(k)
    BY DEF OnePlace
  <2>1. k # Nil
    BY ConstantsAssumption DEF Clients
  <2>2. ~InGoroutine(k) /\ \A d \in Dialers : ~Reporting(k, d)
    BY DEF Init, InGoroutine, Reporting
  <2>3. \A r \in Rounds : sshClients[r] = <<>> /\ offer[r] = <<>>
    BY DEF Init
  <2>4. \A r \in Rounds : \A i \in Nat : ~ResultAt(k, r, i)
    BY <2>3 DEF ResultAt
  <2>5. ~InResults(k)
    BY <1>1, <2>4, ResultPlaces
  <2>6. ~SomeOffer(k) /\ \A r \in Rounds : ~Offered(k, r)
    <3>1. <<>> # <<k>>
      OBVIOUS
    <3>2. \A r \in Rounds : ~Offered(k, r)
      BY <2>3, <3>1 DEF Offered
    <3> QED BY <3>2 DEF SomeOffer
  <2>7. sshClient # k /\ clients[k] # "closed"
    BY <2>1 DEF Init
  <2> QED BY <2>2, <2>4, <2>5, <2>6, <2>7 DEF Placed
<1>3. Reconnecting
  BY ConstantsAssumption DEF Init, Reconnecting, Clients
<1>4. Collecting
  BY DEF Init, Collecting
<1>5. AllKept /\ DoneCancelled
  BY DEF Init, AllKept, DoneCancelled
<1> QED BY <1>1, <1>2, <1>3, <1>4, <1>5 DEF ClientInv

LEMMA ClientStep == ClientInv /\ [Next]_vars => ClientInv'
BY TypesStep, ConserveStep, FreshStep, PlacesStep, ReconnectStep, CollectingStep, KeptStep,
   DoneStep
   DEF ClientInv

LEMMA ClientAlways == Spec => []ClientInv
BY ClientInit, ClientStep, PTL DEF Spec

\* A client that was closed is with no goroutine, in no channel of results and
\* in no offer, and it stays installed only while the manager reconnects, or
\* for good when the context ended it there; the flag never calls it valid.
THEOREM NoClosedClientUsedAlways == Spec => []NoClosedClientUsed
<1>1. ClientInv => NoClosedClientUsed
  <2> SUFFICES ASSUME ClientInv, NEW k \in 1..made, clients[k] = "closed"
               PROVE  /\ ~InGoroutine(k) /\ ~InResults(k) /\ \A r \in Rounds : ~Offered(k, r)
                      /\ sshClient = k => mpc \in {"pop", "select", "done"} /\ ~connIsValid
    BY DEF NoClosedClientUsed
  <2>1. k \in Clients
    BY MadeClients DEF ClientInv
  <2>2. Placed(k)
    BY <2>1 DEF ClientInv, OnePlace
  <2> QED BY <2>1, <2>2 DEF Placed, SomeOffer, ClientInv, Reconnecting
<1> QED BY <1>1, ClientAlways, PTL

\* However rounds overlap, time out or are cut off by the context, a client that
\* a dial made and nobody has closed is with a goroutine, a collector or the
\* manager, or it is one of the two kinds the code strands: the winner of a round
\* that was given up, and the client installed when StartServe returned.
THEOREM NoClientLostAlways == Spec => []NoClientLost
<1>1. ClientInv => NoClientLost
  <2> SUFFICES ASSUME ClientInv, NEW k \in 1..made, clients[k] # "closed"
               PROVE  Handled(k) \/ Stranded(k)
    BY DEF NoClientLost
  <2>1. Kept(k) /\ (mpc = "done" => cancelled)
    BY DEF ClientInv, AllKept, DoneCancelled
  <2> QED BY <2>1 DEF Kept, Handled, Stranded
<1> QED BY <1>1, ClientAlways, PTL

=============================================================================
