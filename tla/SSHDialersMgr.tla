---------------------------- MODULE SSHDialersMgr ----------------------------
(***************************************************************************)
(* sshutil/sshmgr.go: SSHDialersMgr keeps one ssh client connected.        *)
(* StartServe checks the client every two seconds; when it is not valid it *)
(* closes it and starts a round (connetToSSH): it takes every dialer out   *)
(* of the pool, dials with each in a goroutine, and takes the first client *)
(* that a collector goroutine passes on, unless twenty seconds go by or    *)
(* the context is cancelled.  Dialers go back to the pool on their own,    *)
(* perhaps while the same round is still taking dialers out, perhaps after *)
(* the round was given up.  Users dial through GetDialFunc, which reads    *)
(* sshClient twice and clears connIsValid without a lock.                  *)
(*                                                                         *)
(* A dialer's goroutine is named by the dialer.  Whether a dial succeeds,  *)
(* is refused by the back-off of newClient or fails is left open, and so   *)
(* are the answers of the keep-alive and of the web test.  The locals of a *)
(* goroutine or a call that has ended are reset.                           *)
(***************************************************************************)
EXTENDS Naturals, Sequences, FiniteSets

CONSTANTS
  Dialers,     \* the dialers that Init could build
  Cap,         \* len(config.SSHList): capacity of the pool and of sshClients
  Users,       \* goroutines that dial through GetDialFunc
  MaxRounds,   \* bound on the calls of connetToSSH
  MaxClients,  \* bound on the dials that succeed
  Nil

ASSUME ConstantsAssumption ==
  /\ IsFiniteSet(Dialers) /\ Dialers # {}
  /\ Cap \in Nat /\ Cardinality(Dialers) <= Cap
  /\ MaxRounds \in Nat /\ MaxClients \in Nat
  /\ Nil \notin Nat

VARIABLES
  sshDialers,   \* the pool, a channel
  gpc,          \* gpc[d]: control point of the goroutine that holds d
  ground,       \* ground[d]: the round in which d was taken
  gres,         \* gres[d]: the client that goroutine made, or Nil
  sshClients,   \* sshClients[r]: the channel of results of round r
  expected,     \* expected[r]: len(dialers) of round r
  got,          \* got[r]: results its collector has received
  haveGet,      \* haveGet[r]: its collector has passed a client on
  cpc,          \* cpc[r]: control point of its collector
  offer,        \* offer[r]: the channel sshClient (capacity 1) of round r
  round,        \* the current round, 0 before the first
  mpc,          \* control point of StartServe
  isOK,         \* what serverIsOK returned
  connIsValid, sshClient,   \* the fields of the manager
  clients,      \* clients[k]: state of the k-th client made
  made,         \* number of clients made
  upc, ucl,     \* control point and client of each user
  cancelled,    \* the context is done
  abandoned     \* rounds the manager gave up (history)

poolVars  == <<sshDialers, gpc, ground, gres>>
roundVars == <<sshClients, expected, got, haveGet, cpc, offer>>
mgrVars   == <<round, mpc, isOK, sshClient>>
cliVars   == <<clients, made>>
userVars  == <<upc, ucl>>
vars == <<poolVars, roundVars, mgrVars, connIsValid, cliVars, userVars,
          cancelled, abandoned>>

Rounds  == 1..MaxRounds
Clients == 1..MaxClients
N == Cardinality(Dialers)

TypeOK ==
  /\ sshDialers \in Seq(Dialers) /\ Len(sshDialers) <= Cap
  /\ gpc \in [Dialers -> {"pooled", "dial", "report", "return"}]
  /\ ground \in [Dialers -> 0..MaxRounds]
  /\ gres \in [Dialers -> Clients \cup {Nil}]
  /\ sshClients \in [Rounds -> Seq(Clients \cup {Nil})]
  /\ \A r \in Rounds : Len(sshClients[r]) <= Cap
  /\ expected \in [Rounds -> Nat] /\ got \in [Rounds -> Nat]
  /\ haveGet \in [Rounds -> BOOLEAN]
  /\ cpc \in [Rounds -> {"none", "run", "done"}]
  /\ offer \in [Rounds -> Seq(Clients \cup {Nil})]
  /\ \A r \in Rounds : Len(offer[r]) <= 1
  /\ round \in 0..MaxRounds
  /\ mpc \in {"check", "assign", "close", "pop", "select", "sleep", "done"}
  /\ isOK \in BOOLEAN /\ connIsValid \in BOOLEAN
  /\ sshClient \in Clients \cup {Nil}
  /\ clients \in [Clients -> {"none", "open", "dropped", "closed"}]
  /\ made \in 0..MaxClients
  /\ upc \in [Users -> {"idle", "found", "dialing", "panicked"}]
  /\ ucl \in [Users -> Clients \cup {Nil}]
  /\ cancelled \in BOOLEAN
  /\ abandoned \subseteq Rounds

\* Init fills the pool in the order of the configuration.
Init ==
  /\ sshDialers \in {s \in [1..N -> Dialers] : \A i, j \in 1..N : s[i] = s[j] => i = j}
  /\ gpc = [d \in Dialers |-> "pooled"]
  /\ ground = [d \in Dialers |-> 0]
  /\ gres = [d \in Dialers |-> Nil]
  /\ sshClients = [r \in Rounds |-> <<>>]
  /\ expected = [r \in Rounds |-> 0]
  /\ got = [r \in Rounds |-> 0]
  /\ haveGet = [r \in Rounds |-> FALSE]
  /\ cpc = [r \in Rounds |-> "none"]
  /\ offer = [r \in Rounds |-> <<>>]
  /\ round = 0 /\ mpc = "check" /\ isOK = FALSE
  /\ connIsValid = FALSE /\ sshClient = Nil
  /\ clients = [k \in Clients |-> "none"] /\ made = 0
  /\ upc = [u \in Users |-> "idle"] /\ ucl = [u \in Users |-> Nil]
  /\ cancelled = FALSE /\ abandoned = {}

-----------------------------------------------------------------------------
(* StartServe.                                                              *)

\* checkSSHState and testGetWebs: TRUE is possible only of a live client.
ProbeOK == sshClient # Nil /\ clients[sshClient] = "open"

\* serverIsOK: TRUE at once while connIsValid is set, else the probes decide.
ServerIsOK ==
  /\ mpc = "check"
  /\ \/ isOK' = TRUE  /\ (connIsValid \/ ProbeOK)
     \/ isOK' = FALSE /\ ~connIsValid
  /\ mpc' = "assign"
  /\ UNCHANGED <<poolVars, roundVars, round, sshClient, connIsValid, cliVars,
                 userVars, cancelled, abandoned>>

\* The result of the check overwrites what users stored in the meantime.
AssignValid ==
  /\ mpc = "assign"
  /\ connIsValid' = isOK
  /\ isOK' = FALSE
  /\ mpc' = IF isOK THEN "sleep" ELSE "close"
  /\ UNCHANGED <<poolVars, roundVars, round, sshClient, cliVars, userVars,
                 cancelled, abandoned>>

Closed(cl, k) == IF k = Nil THEN cl ELSE [cl EXCEPT ![k] = "closed"]

\* The old client is closed and a round begins.
CloseOld ==
  /\ mpc = "close" /\ round < MaxRounds
  /\ clients' = Closed(clients, sshClient)
  /\ round' = round + 1
  /\ mpc' = "pop"
  /\ UNCHANGED <<poolVars, roundVars, isOK, sshClient, connIsValid, made,
                 userVars, cancelled, abandoned>>

\* Mutant: the dialer is read and not taken out.
PeekSSHDialer ==
  /\ mpc = "pop" /\ sshDialers # <<>>
  /\ gpc' = [gpc EXCEPT ![Head(sshDialers)] = "dial"]
  /\ ground' = [ground EXCEPT ![Head(sshDialers)] = round]
  /\ expected' = [expected EXCEPT ![round] = @ + 1]
  /\ UNCHANGED <<sshDialers, gres, sshClients, got, haveGet, cpc, offer, mgrVars,
                 connIsValid, cliVars, userVars, cancelled, abandoned>>

\* connetToSSH takes a dialer and starts its goroutine.
PopSSHDialer ==
  /\ mpc = "pop" /\ sshDialers # <<>>
  /\ sshDialers' = Tail(sshDialers)
  /\ gpc' = [gpc EXCEPT ![Head(sshDialers)] = "dial"]
  /\ ground' = [ground EXCEPT ![Head(sshDialers)] = round]
  /\ expected' = [expected EXCEPT ![round] = @ + 1]
  /\ UNCHANGED <<gres, sshClients, got, haveGet, cpc, offer, mgrVars, connIsValid,
                 cliVars, userVars, cancelled, abandoned>>

\* The pool is empty: the collector of the round starts.
StartCollector ==
  /\ mpc = "pop" /\ sshDialers = <<>>
  /\ cpc' = [cpc EXCEPT ![round] = "run"]
  /\ mpc' = "select"
  /\ UNCHANGED <<poolVars, sshClients, expected, got, haveGet, offer, round, isOK,
                 sshClient, connIsValid, cliVars, userVars, cancelled, abandoned>>

\* The select of connetToSSH, and what StartServe does with its result.
TakeClient ==
  /\ mpc = "select" /\ offer[round] # <<>>
  /\ sshClient' = Head(offer[round])
  /\ offer' = [offer EXCEPT ![round] = Tail(@)]
  /\ mpc' = "sleep"
  /\ UNCHANGED <<poolVars, sshClients, expected, got, haveGet, cpc, round, isOK,
                 connIsValid, cliVars, userVars, cancelled, abandoned>>

\* Mutant: a round that timed out leaves the old client in place.
TimeOutKeeps ==
  /\ mpc = "select"
  /\ abandoned' = abandoned \cup {round}
  /\ mpc' = "sleep"
  /\ UNCHANGED <<poolVars, roundVars, round, isOK, sshClient, connIsValid, cliVars,
                 userVars, cancelled>>

TimeOut ==
  /\ mpc = "select"
  /\ sshClient' = Nil
  /\ abandoned' = abandoned \cup {round}
  /\ mpc' = "sleep"
  /\ UNCHANGED <<poolVars, roundVars, round, isOK, connIsValid, cliVars, userVars,
                 cancelled>>

Terminate ==
  /\ mpc = "select" /\ cancelled
  /\ abandoned' = abandoned \cup {round}
  /\ mpc' = "done"
  /\ UNCHANGED <<poolVars, roundVars, round, isOK, sshClient, connIsValid, cliVars,
                 userVars, cancelled>>

\* Mutant: the result of Sleep is ignored.
SleepOn ==
  /\ mpc = "sleep"
  /\ mpc' = "check"
  /\ UNCHANGED <<poolVars, roundVars, round, isOK, sshClient, connIsValid, cliVars,
                 userVars, cancelled, abandoned>>

\* common.Sleep returns FALSE once the context is done.
Sleep ==
  /\ mpc = "sleep"
  /\ mpc' = IF cancelled THEN "done" ELSE "check"
  /\ UNCHANGED <<poolVars, roundVars, round, isOK, sshClient, connIsValid, cliVars,
                 userVars, cancelled, abandoned>>

Manager ==
  \/ ServerIsOK \/ AssignValid \/ CloseOld \/ PopSSHDialer \/ StartCollector
  \/ TakeClient \/ TimeOut \/ Terminate \/ Sleep

-----------------------------------------------------------------------------
(* The goroutine of a dialer.                                               *)

NewClient(d) ==
  /\ gpc[d] = "dial"
  /\ \/ /\ made < MaxClients
        /\ made' = made + 1
        /\ clients' = [clients EXCEPT ![made + 1] = "open"]
        /\ gres' = [gres EXCEPT ![d] = made + 1]
     \/ /\ gres' = [gres EXCEPT ![d] = Nil]
        /\ UNCHANGED cliVars
  /\ gpc' = [gpc EXCEPT ![d] = "report"]
  /\ UNCHANGED <<sshDialers, ground, roundVars, mgrVars, connIsValid, userVars,
                 cancelled, abandoned>>

\* Mutant: the channel of results never fills.
ReportUnbounded(d) ==
  /\ gpc[d] = "report"
  /\ sshClients' = [sshClients EXCEPT ![ground[d]] = Append(@, gres[d])]
  /\ gpc' = [gpc EXCEPT ![d] = "return"]
  /\ UNCHANGED <<sshDialers, ground, gres, expected, got, haveGet, cpc, offer,
                 mgrVars, connIsValid, cliVars, userVars, cancelled, abandoned>>

\* Mutant: a dial that failed reports nothing.
ReportIfConnected(d) ==
  /\ gpc[d] = "report"
  /\ Len(sshClients[ground[d]]) < Cap
  /\ sshClients' = IF gres[d] = Nil THEN sshClients
                   ELSE [sshClients EXCEPT ![ground[d]] = Append(@, gres[d])]
  /\ gpc' = [gpc EXCEPT ![d] = "return"]
  /\ UNCHANGED <<sshDialers, ground, gres, expected, got, haveGet, cpc, offer,
                 mgrVars, connIsValid, cliVars, userVars, cancelled, abandoned>>

Report(d) ==
  /\ gpc[d] = "report"
  /\ Len(sshClients[ground[d]]) < Cap
  /\ sshClients' = [sshClients EXCEPT ![ground[d]] = Append(@, gres[d])]
  /\ gpc' = [gpc EXCEPT ![d] = "return"]
  /\ UNCHANGED <<sshDialers, ground, gres, expected, got, haveGet, cpc, offer,
                 mgrVars, connIsValid, cliVars, userVars, cancelled, abandoned>>

\* Mutant: a dialer that failed is not given back.
ReturnIfConnected(d) ==
  /\ gpc[d] = "return" /\ gres[d] # Nil
  /\ Len(sshDialers) < Cap
  /\ sshDialers' = Append(sshDialers, d)
  /\ gpc' = [gpc EXCEPT ![d] = "pooled"]
  /\ ground' = [ground EXCEPT ![d] = 0]
  /\ gres' = [gres EXCEPT ![d] = Nil]
  /\ UNCHANGED <<roundVars, mgrVars, connIsValid, cliVars, userVars,
                 cancelled, abandoned>>

ReturnDialer(d) ==
  /\ gpc[d] = "return"
  /\ Len(sshDialers) < Cap
  /\ sshDialers' = Append(sshDialers, d)
  /\ gpc' = [gpc EXCEPT ![d] = "pooled"]
  /\ ground' = [ground EXCEPT ![d] = 0]
  /\ gres' = [gres EXCEPT ![d] = Nil]
  /\ UNCHANGED <<roundVars, mgrVars, connIsValid, cliVars, userVars,
                 cancelled, abandoned>>

DialGoroutine(d) == NewClient(d) \/ Report(d) \/ ReturnDialer(d)

-----------------------------------------------------------------------------
(* The collector of a round.                                                *)

\* Mutant: the clients that come after the first are dropped, not closed.
CollectDrops(r) ==
  LET k == Head(sshClients[r]) IN
  /\ cpc[r] = "run" /\ got[r] < expected[r] /\ sshClients[r] # <<>>
  /\ k # Nil /\ ~haveGet[r] => Len(offer[r]) < 1
  /\ sshClients' = [sshClients EXCEPT ![r] = Tail(@)]
  /\ got' = [got EXCEPT ![r] = @ + 1]
  /\ haveGet' = [haveGet EXCEPT ![r] = @ \/ k # Nil]
  /\ offer' = IF k # Nil /\ ~haveGet[r] THEN [offer EXCEPT ![r] = Append(@, k)] ELSE offer
  /\ UNCHANGED <<poolVars, expected, cpc, mgrVars, connIsValid, clients, made,
                 userVars, cancelled, abandoned>>

\* The first client is passed on, the others are closed.
Collect(r) ==
  LET k == Head(sshClients[r]) IN
  /\ cpc[r] = "run" /\ got[r] < expected[r] /\ sshClients[r] # <<>>
  /\ k # Nil /\ ~haveGet[r] => Len(offer[r]) < 1
  /\ sshClients' = [sshClients EXCEPT ![r] = Tail(@)]
  /\ got' = [got EXCEPT ![r] = @ + 1]
  /\ haveGet' = [haveGet EXCEPT ![r] = @ \/ k # Nil]
  /\ offer' = IF k # Nil /\ ~haveGet[r] THEN [offer EXCEPT ![r] = Append(@, k)] ELSE offer
  /\ clients' = IF haveGet[r] THEN Closed(clients, k) ELSE clients
  /\ UNCHANGED <<poolVars, expected, cpc, mgrVars, connIsValid, made, userVars,
                 cancelled, abandoned>>

CollectEnd(r) ==
  /\ cpc[r] = "run" /\ got[r] = expected[r]
  /\ ~haveGet[r] => Len(offer[r]) < 1
  /\ offer' = IF haveGet[r] THEN offer ELSE [offer EXCEPT ![r] = Append(@, Nil)]
  /\ cpc' = [cpc EXCEPT ![r] = "done"]
  /\ UNCHANGED <<poolVars, sshClients, expected, got, haveGet, mgrVars, connIsValid,
                 cliVars, userVars, cancelled, abandoned>>

Collector(r) == Collect(r) \/ CollectEnd(r)

-----------------------------------------------------------------------------
(* A user of GetDialFunc, whose dial may outlive the client it uses.        *)

FindClient(u) ==
  /\ upc[u] = "idle" /\ sshClient # Nil
  /\ upc' = [upc EXCEPT ![u] = "found"]
  /\ UNCHANGED <<poolVars, roundVars, mgrVars, connIsValid, cliVars, ucl, cancelled,
                 abandoned>>

\* The second read of sshClient may find that a round has ended with nil.
BeginDial(u) ==
  /\ upc[u] = "found"
  /\ ucl' = [ucl EXCEPT ![u] = sshClient]
  /\ upc' = [upc EXCEPT ![u] = IF sshClient = Nil THEN "panicked" ELSE "dialing"]
  /\ UNCHANGED <<poolVars, roundVars, mgrVars, connIsValid, cliVars, cancelled,
                 abandoned>>

\* SSHClient.Dial tries five times; it can succeed only on a live client.
DialSucceeds(k) == clients[k] = "open"

EndDial(u) ==
  /\ upc[u] = "dialing"
  /\ \/ connIsValid' = FALSE
     \/ DialSucceeds(ucl[u]) /\ UNCHANGED connIsValid
  /\ upc' = [upc EXCEPT ![u] = "idle"]
  /\ ucl' = [ucl EXCEPT ![u] = Nil]
  /\ UNCHANGED <<poolVars, roundVars, mgrVars, cliVars, cancelled, abandoned>>

-----------------------------------------------------------------------------
(* The environment.                                                         *)

DropConnection(k) ==
  /\ clients[k] = "open"
  /\ clients' = [clients EXCEPT ![k] = "dropped"]
  /\ UNCHANGED <<poolVars, roundVars, mgrVars, connIsValid, made, userVars,
                 cancelled, abandoned>>

Cancel ==
  /\ ~cancelled
  /\ cancelled' = TRUE
  /\ UNCHANGED <<poolVars, roundVars, mgrVars, connIsValid, cliVars, userVars,
                 abandoned>>

Next ==
  \/ Manager
  \/ \E d \in Dialers : DialGoroutine(d)
  \/ \E r \in Rounds : Collector(r)
  \/ \E u \in Users : FindClient(u) \/ BeginDial(u) \/ EndDial(u)
  \/ \E k \in Clients : DropConnection(k)
  \/ Cancel

(***************************************************************************)
(* The scheduler runs every goroutine that can run.  Dials, keep-alives    *)
(* and web tests have time-outs, and the time-out of a round is a timer.   *)
(***************************************************************************)
Fairness ==
  /\ WF_vars(Manager)
  /\ \A d \in Dialers : WF_vars(DialGoroutine(d))
  /\ \A r \in Rounds : WF_vars(Collector(r))

Spec == Init /\ [][Next]_vars
FairSpec == Spec /\ Fairness

-----------------------------------------------------------------------------
(* Properties.                                                              *)

Pooled(d) == \E i \in 1..Len(sshDialers) : sshDialers[i] = d

\* A dialer is in the pool exactly once or held by its goroutine, also when
\* rounds overlap: so newClient never runs twice at once for one dialer and
\* the pool always has room for a dialer that comes back.
DialerConserved ==
  /\ \A i, j \in 1..Len(sshDialers) : sshDialers[i] = sshDialers[j] => i = j
  /\ \A d \in Dialers : Pooled(d) <=> gpc[d] = "pooled"

\* A round takes a dialer again that came back while it was still taking
\* dialers out, but it cannot go on for ever: once the channel of results is
\* full the goroutines keep their dialers.
RoundBounded == \A r \in Rounds : expected[r] <= Cap + N

\* Where a client that has not been closed can be.
InGoroutine(k) == \E d \in Dialers : gpc[d] = "report" /\ gres[d] = k
InResults(k)   == \E r \in Rounds : \E i \in 1..Len(sshClients[r]) : sshClients[r][i] = k
Offered(k, r)  == offer[r] = <<k>>
Wanted(r)      == r = round /\ mpc = "select"

\* A client that somebody still has the task to close or to use: a goroutine,
\* a collector, the manager that waits for it or serves with it.
Handled(k) ==
  \/ InGoroutine(k) \/ InResults(k) \/ (sshClient = k /\ mpc # "done")
  \/ \E r \in Rounds : Offered(k, r) /\ Wanted(r)

\* A client that nobody will close: the winner of a round that the manager gave
\* up, and the client that was installed when StartServe returned because the
\* context was done (sshmgr.go:221-223).
Stranded(k) ==
  \/ sshClient = k /\ mpc = "done" /\ cancelled
  \/ \E r \in abandoned : Offered(k, r)

\* A client that was made and is not closed is handled, or stranded in one of
\* the two ways that the code leaves open: no third one loses a client, however
\* rounds overlap, time out or are cut off.
NoClientLost ==
  \A k \in 1..made : clients[k] # "closed" => Handled(k) \/ Stranded(k)

\* A client that is still passed around was not closed, and the installed one
\* is closed only while the manager reconnects or after it has ended.
NoClosedClientUsed ==
  \A k \in 1..made : clients[k] = "closed" =>
    /\ ~InGoroutine(k) /\ ~InResults(k) /\ \A r \in Rounds : ~Offered(k, r)
    /\ sshClient = k => mpc \in {"pop", "select", "done"} /\ ~connIsValid

\* Every dialer comes back to the pool, whatever became of its round.
DialerComesBack ==
  \A d \in Dialers : gpc[d] = "dial" ~> gpc[d] = "pooled"

\* The collector of a round that was given up ends all the same.
CollectorEnds == \A r \in Rounds : cpc[r] = "run" ~> cpc[r] = "done"

\* StartServe ends after the context is cancelled (or stops at the bound).
StopsWhenCancelled ==
  cancelled ~> mpc = "done" \/ (mpc = "close" /\ round = MaxRounds)
=============================================================================
