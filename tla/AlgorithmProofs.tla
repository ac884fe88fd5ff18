-------------------------- MODULE AlgorithmProofs --------------------------
(***************************************************************************)
(* Proofs about the smaller machines: the rotation of the log tables, the  *)
(* back-off of a dialer, the announced size of a stream, the look-up of an *)
(* address, the redirects of the file server and the values of records.    *)
(* Each has an inductive invariant that extends its properties by what     *)
(* holds between the steps.                                                *)
(***************************************************************************)
EXTENDS LogTables, SSHDial, StreamPack, IPRegions, FileServer, RecordTypes,
        SequenceTheorems, TLAPS

-----------------------------------------------------------------------------
(* Log tables (dbutils/dbsession.go).                                       *)

\* A check that has left no table of the days it has passed.
Swept(c) ==
  ok[c] => \A d \in tables \ late, s \in 3..(DropDays + 2) :
             s < step[c] => d + RemainLogDays + 1 + s - 3 # now[c]

\* What goes from step to step: a check knows a day that has come.
Running(c) == now[c] <= today /\ (pending[c] => step[c] # 0) /\ Swept(c)

LogInv ==
  /\ LogTypeOK /\ RecentKept /\ OldGone
  /\ cleared <= today
  /\ \A c \in Checkers : Running(c)

\* No check runs, and there is no table.
LEMMA LogInitInv == LogInit => LogInv
BY LogTablesAssumption DEF LogInit, LogInv, LogTypeOK, RecentKept, OldGone, Running, Swept

\* EndStep keeps the types.
LEMMA EndStepType ==
  ASSUME LogTypeOK, NEW c \in Checkers, NEW done \in BOOLEAN, EndStep(c, done)
  PROVE  /\ cleared' \in Nat
         /\ step' \in [Checkers -> 0..(DropDays + 2)]
         /\ pending' \in [Checkers -> BOOLEAN] /\ ok' \in [Checkers -> BOOLEAN]
<1> USE LogTablesAssumption DEF LogTypeOK
<1>1. cleared' \in Nat
  BY DEF EndStep
<1>2. step' \in [Checkers -> 0..(DropDays + 2)]
  BY DEF EndStep
<1>3. pending' \in [Checkers -> BOOLEAN]
  BY DEF EndStep
<1>4. ok' \in [Checkers -> BOOLEAN]
  BY DEF EndStep
<1> QED BY <1>1, <1>2, <1>3, <1>4

\* At the end of a step that left no table to drop, whatever tables have gone
\* and whatever tables of days to keep have come, checks have still left none
\* of the days they passed, and the last of the steps clears up to its day.
LEMMA EndStepClears ==
  ASSUME LogInv, NEW c \in Checkers, step[c] # 0, NEW done \in BOOLEAN, EndStep(c, done),
         now' = now, today' = today, late \subseteq late', tables' \subseteq Nat,
         \A d \in tables' \ late' : d \in tables \ late \/ d + RemainLogDays >= today,
         done /\ ~Creates(c) => \A d \in tables' \ late' : ~IsDay(c, d)
  PROVE  OldGone' /\ cleared' <= today' /\ \A e \in Checkers : Running(e)'
<1> USE LogTablesAssumption
<1>1. /\ step \in [Checkers -> 0..(DropDays + 2)] /\ now \in [Checkers -> Nat]
      /\ ok \in [Checkers -> BOOLEAN] /\ today \in Nat /\ cleared \in Nat /\ cleared <= today
  BY DEF LogInv, LogTypeOK
<1>2. \A e \in Checkers : /\ now'[e] <= today' /\ Swept(e)
                          /\ pending'[e] => step'[e] # 0
  <2>1. pending \in [Checkers -> BOOLEAN]
    BY DEF LogInv, LogTypeOK
  <2> QED BY <1>1, <2>1 DEF LogInv, Running, EndStep
\* What the step has added to the days that its check has passed.
<1>3. ASSUME ok[c] /\ done, NEW d \in tables' \ late', NEW s \in 3..(DropDays + 2), s <= step[c]
      PROVE  d + RemainLogDays + 1 + s - 3 # now[c]
  <2>1. d \in Nat
    OBVIOUS
  <2>2. CASE d + RemainLogDays >= today
    BY <1>1, <1>2, <2>1, <2>2
  <2>3. CASE d \in tables \ late /\ s < step[c]
    BY <1>2, <1>3, <2>3 DEF Swept
  <2>4. CASE s = step[c]
    BY <1>1, <1>3, <2>1, <2>4 DEF Creates, IsDay
  <2>5. s < step[c] \/ s = step[c]
    BY <1>1, <1>3
  <2> QED BY <2>2, <2>3, <2>4, <2>5
<1>4. ASSUME NEW e \in Checkers PROVE Swept(e)'
  <2>1. CASE e = c
    <3> SUFFICES ASSUME ok'[c], NEW d \in tables' \ late', NEW s \in 3..(DropDays + 2), s < step'[c]
                 PROVE  d + RemainLogDays + 1 + s - 3 # now'[c]
      BY <2>1 DEF Swept
    <3>1. ok[c] /\ done
      BY <1>1 DEF EndStep
    <3>2. s <= step[c]
      BY <1>1 DEF EndStep
    <3> QED BY <1>3, <3>1, <3>2
  <2>2. CASE e # c
    <3>1. ok'[e] = ok[e] /\ step'[e] = step[e] /\ now'[e] = now[e]
      BY <1>1, <2>2 DEF EndStep
    <3> SUFFICES ASSUME ok[e], NEW d \in tables' \ late', NEW s \in 3..(DropDays + 2), s < step[e]
                 PROVE  d + RemainLogDays + 1 + s - 3 # now[e]
      BY <3>1 DEF Swept
    <3>2. CASE d \in tables \ late
      BY <1>2, <3>2 DEF Swept
    <3>3. CASE d + RemainLogDays >= today
      BY <1>1, <1>2, <3>3
    <3> QED BY <3>2, <3>3
  <2> QED BY <2>1, <2>2
<1>5. OldGone' /\ cleared' <= today'
  <2>1. \A d \in tables' \ late' : d \in Nat /\ d + RemainLogDays >= cleared
    BY <1>1 DEF LogInv, OldGone
  <2>2. CASE cleared' = cleared
    BY <1>1, <2>1, <2>2 DEF OldGone
  <2>3. CASE cleared' # cleared
    <3>1. /\ step[c] = DropDays + 2 /\ ok[c] /\ done
          /\ cleared' = now[c] /\ now[c] <= cleared + DropDays
      BY <2>3 DEF EndStep
    <3>2. ASSUME NEW d \in tables' \ late', d + RemainLogDays < now[c]
          PROVE  FALSE
      <4> DEFINE s == now[c] - d - RemainLogDays + 2
      <4>1. d \in Nat /\ now[c] \in Nat /\ s \in Int
        BY <1>1
      <4>2. s \in 3..(DropDays + 2)
        BY <1>1, <2>1, <3>1, <3>2, <4>1
      <4>3. d + RemainLogDays + 1 + s - 3 = now[c]
        BY <4>1
      <4>4. (ok[c] /\ done) /\ s <= step[c]
        BY <1>1, <3>1, <4>1, <4>2
      <4> HIDE DEF s
      <4>5. d + RemainLogDays + 1 + s - 3 # now[c]
        BY <1>3, <4>2, <4>4
      <4> QED BY <4>3, <4>5
    <3>3. \A d \in tables' \ late' : d + RemainLogDays >= now[c]
      BY <1>1, <2>1, <3>2
    <3> QED BY <1>2, <3>1, <3>3 DEF OldGone
  <2> QED BY <2>2, <2>3
<1> QED BY <1>2, <1>4, <1>5 DEF Running

\* A check drops no day to keep, as it knows only days that have come; and the
\* others have nothing that it drops left to count.
LEMMA LogNextInv == LogInv /\ [LogNext]_logVars => LogInv'
<1> SUFFICES ASSUME LogInv, [LogNext]_logVars PROVE LogInv'
  OBVIOUS
<1> USE LogTablesAssumption
<1>0. /\ LogTypeOK /\ RecentKept /\ OldGone /\ cleared <= today
      /\ \A c \in Checkers : Running(c)
  BY DEF LogInv
<1>1. ASSUME NEW c \in Checkers, BeginCheck(c) PROVE LogInv'
  <2>1. LogTypeOK'
    BY <1>0, <1>1 DEF LogTypeOK, BeginCheck
  <2>2. RecentKept' /\ OldGone' /\ cleared' <= today'
    BY <1>0, <1>1 DEF RecentKept, OldGone, BeginCheck
  <2>3. ASSUME NEW e \in Checkers PROVE Running(e)'
    <3>1. CASE e = c
      <4>1. now'[e] = today /\ today' = today /\ step'[e] = 1 /\ today \in Nat
        BY <1>0, <1>1, <3>1 DEF LogTypeOK, BeginCheck
      <4> QED BY <4>1 DEF Running, Swept
    <3>2. CASE e # c
      <4>1. /\ now'[e] = now[e] /\ today' = today /\ step'[e] = step[e]
            /\ ok'[e] = ok[e] /\ tables' = tables /\ late' = late /\ pending' = pending
        BY <1>0, <1>1, <3>2 DEF LogTypeOK, BeginCheck
      <4> QED BY <1>0, <4>1 DEF Running, Swept
    <3> QED BY <3>1, <3>2
  <2> QED BY <2>1, <2>2, <2>3 DEF LogInv
<1>2. ASSUME NEW c \in Checkers, NothingToDo(c) PROVE LogInv'
  <2>1. EndStep(c, TRUE) /\ step[c] # 0 /\ UNCHANGED <<today, tables, now, made, late>>
    BY <1>2 DEF NothingToDo
  <2>2. ~Creates(c) => \A d \in tables : ~IsDay(c, d)
    BY <1>2 DEF NothingToDo, Exists
  <2>3. LogTypeOK'
    BY <1>0, <2>1, EndStepType DEF LogTypeOK
  <2>4. RecentKept'
    BY <1>0, <2>1 DEF RecentKept
  <2>5. tables \subseteq Nat
    BY <1>0 DEF LogTypeOK
  <2>6. OldGone' /\ cleared' <= today' /\ \A e \in Checkers : Running(e)'
    BY <2>1, <2>2, <2>5, EndStepClears
  <2> QED BY <2>3, <2>4, <2>6 DEF LogInv
<1>3. ASSUME NEW c \in Checkers, Prepare(c) PROVE LogInv'
  <2>1. LogTypeOK'
    BY <1>0, <1>3 DEF LogTypeOK, Prepare
  <2> QED BY <1>0, <1>3, <2>1 DEF LogInv, Prepare, LogTypeOK, RecentKept, OldGone, Running, Swept
<1>4. ASSUME NEW c \in Checkers, QueryFails(c) PROVE LogInv'
  <2>1. LogTypeOK'
    BY <1>0, <1>4 DEF LogTypeOK, QueryFails
  <2>2. RecentKept' /\ OldGone' /\ cleared' <= today'
    BY <1>0, <1>4 DEF RecentKept, OldGone, QueryFails
  <2>3. ASSUME NEW e \in Checkers PROVE Running(e)'
    <3>1. /\ now'[e] = now[e] /\ today' = today /\ ok'[e] = ok[e] /\ tables' = tables /\ late' = late
          /\ \/ step'[e] = step[e] /\ pending'[e] = pending[e]
             \/ step'[e] = 0 /\ ~pending'[e]
      BY <1>0, <1>4 DEF LogTypeOK, QueryFails
    <3>2. CASE step'[e] = 0 /\ ~pending'[e]
      BY <1>0, <3>1, <3>2 DEF Running, Swept
    <3>3. CASE step'[e] = step[e] /\ pending'[e] = pending[e]
      BY <1>0, <3>1, <3>3 DEF Running, Swept
    <3> QED BY <3>1, <3>2, <3>3
  <2> QED BY <2>1, <2>2, <2>3 DEF LogInv
<1>5. ASSUME NEW c \in Checkers, CreateTable(c) PROVE LogInv'
  <2> DEFINE d == now[c] + step[c] - 1
  <2>1. /\ EndStep(c, TRUE) /\ Creates(c) /\ UNCHANGED <<today, now>>
        /\ tables' = tables \cup {d} /\ made' = made \cup {d}
        /\ late' = IF d + RemainLogDays < today THEN late \cup {d} ELSE late
    BY <1>5 DEF CreateTable
  <2>2. d \in Nat /\ step[c] # 0
    BY <1>0, <2>1 DEF LogTypeOK, Creates
  <2>3. today \in Nat /\ tables' \subseteq Nat /\ made' \subseteq Nat /\ late' \subseteq Nat
    BY <1>0, <2>1, <2>2 DEF LogTypeOK
  <2> HIDE DEF d
  <2>4. LogTypeOK'
    BY <1>0, <2>1, <2>3, EndStepType DEF LogTypeOK
  <2>5. RecentKept'
    BY <1>0, <2>1 DEF RecentKept
  <2>6. \A e \in tables' \ late' : e \in tables \ late \/ e + RemainLogDays >= today
    BY <2>1, <2>2, <2>3
  <2>7. OldGone' /\ cleared' <= today' /\ \A e \in Checkers : Running(e)'
    BY <2>1, <2>2, <2>3, <2>6, EndStepClears
  <2> QED BY <2>4, <2>5, <2>7 DEF LogInv
<1>6. ASSUME NEW c \in Checkers, DropTable(c) PROVE LogInv'
  <2>1. /\ EndStep(c, TRUE) /\ ~Creates(c) /\ UNCHANGED <<today, now, made, late>>
        /\ tables' = {d \in tables : ~IsDay(c, d)}
    BY <1>6 DEF DropTable
  <2>2. step[c] # 0 /\ tables' \subseteq Nat
    BY <1>0, <1>6, <2>1 DEF LogTypeOK, Running, DropTable
  <2>3. LogTypeOK'
    BY <1>0, <2>1, <2>2, EndStepType DEF LogTypeOK
  <2>4. ASSUME NEW d \in Nat, IsDay(c, d) PROVE d + RemainLogDays < today
    BY <1>0, <2>1, <2>2, <2>4 DEF LogTypeOK, Running, IsDay, Creates
  <2>5. RecentKept'
    BY <1>0, <2>1, <2>4 DEF LogTypeOK, RecentKept
  <2>6. OldGone' /\ cleared' <= today' /\ \A e \in Checkers : Running(e)'
    BY <2>1, <2>2, EndStepClears
  <2> QED BY <2>3, <2>5, <2>6 DEF LogInv
<1>7. ASSUME NEW c \in Checkers, ExecFails(c) PROVE LogInv'
  <2> DEFINE done == Creates(c) \/ ~Exists(c)
  <2>1. EndStep(c, done) /\ UNCHANGED <<today, tables, now, made, late>>
    BY <1>7 DEF ExecFails
  <2>2. done \in BOOLEAN /\ step[c] # 0 /\ tables' \subseteq Nat
    BY <1>0, <1>7, <2>1 DEF LogTypeOK, Running, ExecFails
  <2>3. done /\ ~Creates(c) => \A d \in tables : ~IsDay(c, d)
    BY DEF Exists
  <2> HIDE DEF done
  <2>4. LogTypeOK'
    BY <1>0, <2>1, <2>2, EndStepType DEF LogTypeOK
  <2>5. RecentKept'
    BY <1>0, <2>1 DEF RecentKept
  <2>6. OldGone' /\ cleared' <= today' /\ \A e \in Checkers : Running(e)'
    BY <2>1, <2>2, <2>3, EndStepClears
  <2> QED BY <2>4, <2>5, <2>6 DEF LogInv
<1>8. CASE NextDay
  <2>1. today' = today + 1 /\ UNCHANGED <<tables, now, step, pending, ok, made, late, cleared>>
    BY <1>8 DEF NextDay
  <2>2. LogTypeOK' /\ today \in Nat
    BY <1>0, <2>1 DEF LogTypeOK
  <2>3. RecentKept'
    BY <1>0, <2>1, <2>2 DEF LogTypeOK, RecentKept
  <2>4. cleared' <= today' /\ OldGone'
    BY <1>0, <2>1, <2>2 DEF LogTypeOK, OldGone
  <2>5. \A e \in Checkers : Running(e)'
    BY <1>0, <2>1, <2>2 DEF LogTypeOK, Running, Swept
  <2> QED BY <2>2, <2>3, <2>4, <2>5 DEF LogInv
<1>9. CASE UNCHANGED logVars
  BY <1>0, <1>9 DEF logVars, LogInv, LogTypeOK, RecentKept, OldGone, Running, Swept
<1> QED BY <1>1, <1>2, <1>3, <1>4, <1>5, <1>6, <1>7, <1>8, <1>9 DEF LogNext

\* CheckLogTable by any number of services on one database, whatever statements
\* fail and however long they take, never drops the table of a day to keep, and
\* leaves none from before the days that were to be kept when the last complete
\* check began.
THEOREM LogRotationAlways == LogSpec => []LogRotation
<1>1. LogInv => LogRotation
  BY DEF LogInv, LogRotation
<1> QED BY <1>1, LogInitInv, LogNextInv, PTL DEF LogSpec

-----------------------------------------------------------------------------
(* The back-off of a dialer (sshutil/sshmgr.go, sshconfig.go).              *)

\* The wait is bounded by what the outage had lasted at the last attempt; an
\* attempt is made only once the wait is over, so there is room to double it.
WaitBounded ==
  IF since = 0 THEN wait = 0
  ELSE /\ since <= last
       /\ FirstWait <= wait /\ wait <= (last - since) + FirstWait
       /\ try # -1 => 2 * wait <= (last - since) + FirstWait

\* An attempt that got through to a trusted host has ended its dial, which began
\* at some time.
ReachedEnds == IF try = -1 THEN connected = reached ELSE ~connected /\ ~reached /\ last # 0

DialInv == DialTypeOK /\ WaitBounded /\ ReachedEnds

\* HostKeyCallback accepts the keys of the hosts that the configuration trusts.
LEMMA KeyAccepted ==
  ASSUME DialTypeOK, NEW key \in Keys
  PROVE  HostKeyCallback(key) <=> Trusted(key)
<1>1. config.hostKey \in Keys \cup {NoKey} /\ config.verify \in BOOLEAN /\ key # NoKey
  BY SSHDialAssumption DEF DialTypeOK, SSHConfig
<1> QED BY <1>1 DEF HostKeyCallback, Trusted

\* There is no outage and no wait at first.
LEMMA DialInitInv == DialInit => DialInv
<1> SUFFICES ASSUME DialInit PROVE DialInv
  OBVIOUS
<1>1. clock \in Nat \ {0}
  BY SSHDialAssumption DEF DialInit
<1> QED BY <1>1 DEF DialInit, DialInv, DialTypeOK, WaitBounded, ReachedEnds

\* The wait doubles only once it is over, so the outage has lasted as long.
LEMMA DialNextInv == DialInv /\ [DialNext]_dialVars => DialInv'
<1> SUFFICES ASSUME DialInv, [DialNext]_dialVars PROVE DialInv'
  OBVIOUS
<1> USE SSHDialAssumption
<1>0. DialTypeOK /\ WaitBounded /\ ReachedEnds
  BY DEF DialInv
<1>1. CASE NewClient /\ Refuses
  BY <1>0, <1>1 DEF NewClient, DialInv, DialTypeOK, WaitBounded, ReachedEnds
<1>2. CASE NewClient /\ ~Refuses
  <2>1. /\ last' = clock /\ try = -1 /\ try' = 0 /\ connected' = FALSE /\ reached' = FALSE
        /\ UNCHANGED <<clock, config, wait, since>>
    BY <1>2 DEF NewClient
  <2>2. DialTypeOK' /\ ReachedEnds'
    BY <1>0, <2>1 DEF DialTypeOK, ReachedEnds
  <2>3. WaitBounded'
    <3>1. CASE since = 0
      BY <1>0, <2>1, <3>1 DEF WaitBounded
    <3>2. CASE since # 0
      <4>1. /\ clock \in Nat /\ last \in Nat /\ wait \in Nat /\ since \in Nat
            /\ since <= last /\ FirstWait <= wait /\ wait <= (last - since) + FirstWait
        BY <1>0, <3>2 DEF WaitBounded, DialTypeOK
      <4>2. clock - last >= wait
        BY <1>2, <3>2, <4>1 DEF Refuses
      <4>3. /\ since <= clock /\ wait <= (clock - since) + FirstWait
            /\ 2 * wait <= (clock - since) + FirstWait
        BY <4>1, <4>2
      <4> QED BY <2>1, <3>2, <4>1, <4>3 DEF WaitBounded
    <3> QED BY <3>1, <3>2
  <2> QED BY <2>2, <2>3 DEF DialInv
<1>3. ASSUME NEW key \in Keys, NEW completes \in BOOLEAN, Attempt(key, completes)
      PROVE  DialInv'
  <2>1. /\ try \in 0..(3 * Proxies - 1) /\ UNCHANGED <<clock, config, last>>
    BY <1>3 DEF Attempt
  <2>2. CASE HostKeyCallback(key) /\ completes
    <3>1. try' = -1 /\ wait' = 0 /\ connected' = TRUE /\ since' = 0
      BY <1>3, <2>2 DEF Attempt
    <3>2. reached' = TRUE
      BY <1>0, <1>3, <2>2, KeyAccepted DEF Attempt
    <3> QED BY <1>0, <2>1, <3>1, <3>2 DEF DialInv, DialTypeOK, WaitBounded, ReachedEnds
  <2>3. CASE ~(HostKeyCallback(key) /\ completes)
    <3>1. try' = try + 1 /\ UNCHANGED <<wait, connected, since>>
      BY <1>3, <2>3 DEF Attempt
    <3>2. try # -1 /\ try' # -1 /\ try' \in Nat
      BY <2>1, <3>1
    <3>3. ~reached'
      <4>1. ~reached
        BY <1>0, <3>2 DEF ReachedEnds
      <4>2. reached' = (reached \/ (Trusted(key) /\ completes))
        BY <1>3 DEF Attempt
      <4> QED BY <1>0, <2>3, <4>1, <4>2, KeyAccepted
    <3>4. reached' \in BOOLEAN
      BY <1>3 DEF Attempt
    <3> QED BY <1>0, <2>1, <3>1, <3>2, <3>3, <3>4 DEF DialInv, DialTypeOK, WaitBounded, ReachedEnds
  <2> QED BY <2>2, <2>3
<1>4. CASE NoAnswer
  <2>1. try' = try + 1 /\ try \in 0..(3 * Proxies - 1)
        /\ UNCHANGED <<clock, config, last, wait, connected, reached, since>>
    BY <1>4 DEF NoAnswer
  <2>2. try # -1 /\ try' # -1 /\ try' \in Nat
    BY <2>1
  <2> QED BY <1>0, <2>1, <2>2 DEF DialInv, DialTypeOK, WaitBounded, ReachedEnds
<1>5. CASE GiveUp
  <2>1. /\ try # -1 /\ try' = -1 /\ UNCHANGED <<clock, config, last, connected, reached>>
        /\ wait' = (IF wait <= 0 THEN FirstWait ELSE 2 * wait)
        /\ since' = (IF since = 0 THEN last ELSE since)
    BY <1>5 DEF GiveUp
  <2>2. DialTypeOK'
    BY <1>0, <2>1 DEF DialTypeOK
  <2>3. ReachedEnds'
    BY <1>0, <2>1 DEF ReachedEnds, DialTypeOK
  <2>4. WaitBounded'
    <3>1. last \in Nat /\ wait \in Nat /\ since \in Nat
      BY <1>0 DEF DialTypeOK
    <3>2. CASE since = 0
      <4>1. wait' = FirstWait /\ since' = last
        BY <1>0, <2>1, <3>2 DEF WaitBounded
      <4>2. last # 0
        BY <1>0, <2>1 DEF ReachedEnds
      <4> QED BY <2>1, <3>1, <4>1, <4>2 DEF WaitBounded
    <3>3. CASE since # 0
      <4>1. /\ since <= last /\ FirstWait <= wait
            /\ 2 * wait <= (last - since) + FirstWait
        BY <1>0, <2>1, <3>3 DEF WaitBounded
      <4>2. wait' = 2 * wait /\ since' = since
        BY <2>1, <3>1, <3>3, <4>1
      <4> QED BY <2>1, <3>1, <3>3, <4>1, <4>2 DEF WaitBounded
    <3> QED BY <3>2, <3>3
  <2> QED BY <2>2, <2>3, <2>4 DEF DialInv
<1>6. CASE SetClock
  BY <1>0, <1>6 DEF SetClock, DialInv, DialTypeOK, WaitBounded, ReachedEnds
<1>7. CASE UNCHANGED dialVars
  BY <1>0, <1>7 DEF dialVars, DialInv, DialTypeOK, WaitBounded, ReachedEnds
<1> QED BY <1>1, <1>2, <1>3, <1>4, <1>5, <1>6, <1>7 DEF DialNext

\* newClient refuses to dial only during an outage and for no longer than the
\* outage had lasted by the last attempt, plus the first wait, unless the clock
\* was set back; and the three rounds of DialSSH return a client exactly when
\* one of their attempts came to a host that the configuration trusts and
\* completed the handshake; also where a check is asked for without a key, which
\* trusts no host at all.
THEOREM DialerAvailableAlways == DialSpec => []DialerAvailable
<1>1. DialInv => DialerAvailable
  <2> SUFFICES ASSUME DialInv PROVE DialerAvailable
    OBVIOUS
  <2>1. /\ clock \in Nat /\ last \in Nat /\ wait \in Nat /\ since \in Nat
        /\ WaitBounded /\ ReachedEnds
    BY DEF DialInv, DialTypeOK
  <2>2. ASSUME Refuses, ~(clock < last)
        PROVE  since # 0 /\ clock - last < (last - since) + FirstWait
    <3>1. clock - last < wait /\ wait # 0
      BY <2>1, <2>2 DEF Refuses
    <3>2. since # 0 /\ wait <= (last - since) + FirstWait
      BY <2>1, <3>1 DEF WaitBounded
    <3> QED BY <2>1, <3>1, <3>2, SSHDialAssumption
  <2>3. BackOffBounded
    BY <2>2 DEF BackOffBounded
  <2>4. DialOutcome
    BY <2>1 DEF ReachedEnds, DialOutcome
  <2> QED BY <2>3, <2>4 DEF DialerAvailable
<1> QED BY <1>1, DialInitInv, DialNextInv, PTL DEF DialSpec

-----------------------------------------------------------------------------
(* Packets of a stream (netserve/context.go, cipher2/pad.go).               *)

\* Quotient and remainder are the ones there are.
LEMMA Division ==
  ASSUME NEW b \in Nat \ {0}, NEW q \in Nat, NEW r \in 0..(b - 1)
  PROVE  (q * b + r) \div b = q /\ (q * b + r) % b = r
OBVIOUS

\* ... and there is one of each.
LEMMA Divide ==
  ASSUME NEW b \in Nat \ {0}, NEW n \in Nat
  PROVE  \E q \in Nat, r \in 0..(b - 1) : n = q * b + r
<1>1. n \div b \in Nat
  OBVIOUS
<1>2. n % b \in 0..(b - 1)
  OBVIOUS
<1>3. n = b * (n \div b) + (n % b)
  BY <1>1, <1>2, SMT
<1>4. n = (n \div b) * b + (n % b)
  BY <1>1, <1>2, <1>3
<1> QED BY <1>1, <1>2, <1>4

\* The size that BeginWriteStream announces for a packet is the size that the
\* packet has once Pkcs7Pad has padded it, for data and blocks of any length:
\* data that fills its last block gets a block more.
LEMMA PacketSizeAnnounced ==
  ASSUME NEW datasize \in Nat, NEW blockSize \in Nat \ {0}
  PROVE  /\ PackSize(datasize, blockSize) = PaddedSize(datasize, blockSize)
         /\ PackSize(datasize, blockSize) \in Nat /\ PackSize(datasize, blockSize) > datasize
<1>1. PICK q \in Nat, r \in 0..(blockSize - 1) : datasize = q * blockSize + r
  BY Divide
<1> DEFINE Pads == {padlen \in 1..blockSize : (datasize + padlen) % blockSize = 0}
\* The least padding is what is missing in the last block, a whole one if
\* nothing is.
<1>2. /\ blockSize - r \in Pads
      /\ \A k \in Pads : blockSize - r <= k
  <2>1. (q + 1) * blockSize = q * blockSize + blockSize /\ q + 1 \in Nat
    OBVIOUS
  <2>2. datasize + (blockSize - r) = (q + 1) * blockSize + 0
    BY <1>1, <2>1
  <2>3. ((q + 1) * blockSize + 0) % blockSize = 0
    BY <2>1, Division
  <2>4. ASSUME NEW k \in 1..blockSize, k < blockSize - r
        PROVE  (datasize + k) % blockSize # 0
    <3>1. r + k \in 0..(blockSize - 1) /\ r + k # 0
      BY <2>4
    <3>2. datasize + k = q * blockSize + (r + k)
      BY <1>1, <2>4
    <3>3. (q * blockSize + (r + k)) % blockSize = r + k
      BY <3>1, Division
    <3> QED BY <3>1, <3>2, <3>3
  <2> QED BY <2>2, <2>3, <2>4
<1>3. PaddedSize(datasize, blockSize) = datasize + (blockSize - r)
  <2>1. Min(Pads) = blockSize - r
    BY <1>2 DEF Min
  <2> QED BY <2>1 DEF PaddedSize
<1>4. CASE r = 0
  <2>1. datasize + blockSize - 1 = q * blockSize + (blockSize - 1)
    BY <1>1, <1>4
  <2>2. (q * blockSize + (blockSize - 1)) \div blockSize = q
    BY Division
  <2>3. RoundUp(datasize, blockSize) = datasize
    BY <1>1, <1>4, <2>1, <2>2 DEF RoundUp
  <2> QED BY <1>3, <1>4, <2>3 DEF PackSize
<1>5. CASE r # 0
  <2>1. (q + 1) * blockSize = q * blockSize + blockSize /\ q + 1 \in Nat /\ q * blockSize \in Nat
    OBVIOUS
  <2>2. datasize + blockSize - 1 = (q + 1) * blockSize + (r - 1) /\ r - 1 \in 0..(blockSize - 1)
    BY <1>1, <1>5, <2>1
  <2>3. ((q + 1) * blockSize + (r - 1)) \div blockSize = q + 1
    BY <2>1, <2>2, Division
  <2>4. RoundUp(datasize, blockSize) = q * blockSize + blockSize
    BY <2>1, <2>2, <2>3 DEF RoundUp
  <2>5. /\ q * blockSize + blockSize = datasize + (blockSize - r)
        /\ datasize + (blockSize - r) # datasize
    BY <1>1, <2>1
  <2> QED BY <1>3, <2>4, <2>5 DEF PackSize
<1> QED BY <1>4, <1>5


\* total is the size of the packets that hold the first k of size bytes of
\* data: full ones, and at the end one with what is left.
Packed(size, pack, k, total) ==
  \E q \in Nat :
    \/ k < size /\ k = q * pack /\ total = q * PackSize(pack, AesBlock)
    \/ /\ k = size
       /\ \E r \in 1..pack : /\ size = q * pack + r
                             /\ total = q * PackSize(pack, AesBlock) + PackSize(r, AesBlock)

\* No data, no packet.
LEMMA PackedStart ==
  ASSUME NEW size \in Nat \ {0}, NEW pack \in Nat \ {0}
  PROVE  Packed(size, pack, 0, 0)
<1>1. PackSize(pack, AesBlock) \in Nat
  BY PacketSizeAnnounced, StreamAssumption
<1>2. \A f \in Nat : 0 * f = 0
  OBVIOUS
<1>3. 0 < size /\ 0 = 0 * pack /\ 0 = 0 * PackSize(pack, AesBlock)
  BY <1>1, <1>2
<1> QED BY <1>3 DEF Packed

\* One more packet, whole or the last.
LEMMA PackedNext ==
  ASSUME NEW size \in Nat, NEW pack \in Nat \ {0}, NEW k \in Nat, NEW total \in Nat, k < size,
         Packed(size, pack, k, total), NEW d, d = IF size - k > pack THEN pack ELSE size - k
  PROVE  /\ d \in Nat \ {0} /\ k + d <= size
         /\ total + PackSize(d, AesBlock) \in Nat
         /\ Packed(size, pack, k + d, total + PackSize(d, AesBlock))
<1>1. PICK q \in Nat : k = q * pack /\ total = q * PackSize(pack, AesBlock)
  BY DEF Packed
<1>2. d \in Nat \ {0} /\ k + d <= size /\ d <= pack
  OBVIOUS
<1>3. PackSize(d, AesBlock) \in Nat /\ PackSize(pack, AesBlock) \in Nat
  BY <1>2, PacketSizeAnnounced, StreamAssumption
<1>4. CASE size - k > pack
  <2>1. (q + 1) * pack = q * pack + pack /\ q + 1 \in Nat
    OBVIOUS
  <2>2. \A f \in Nat : (q + 1) * f = q * f + f
    OBVIOUS
  <2>3. d = pack /\ k + d = (q + 1) * pack /\ k + d < size
    BY <1>1, <1>4, <2>1
  <2>4. total + PackSize(d, AesBlock) = (q + 1) * PackSize(pack, AesBlock)
    BY <1>1, <1>3, <2>2, <2>3
  <2> QED BY <1>2, <1>3, <2>1, <2>3, <2>4 DEF Packed
<1>5. CASE ~(size - k > pack)
  <2>1. d \in 1..pack /\ k + d = size
    BY <1>2, <1>5
  <2>2. size = q * pack + d /\ total + PackSize(d, AesBlock) = q * PackSize(pack, AesBlock) + PackSize(d, AesBlock)
    BY <1>1, <2>1
  <2> QED BY <1>2, <1>3, <2>1, <2>2 DEF Packed
<1> QED BY <1>4, <1>5

\* The packets of the whole data have one size, and those of a part a smaller
\* one.
LEMMA PackedWhole ==
  ASSUME NEW size \in Nat, NEW pack \in Nat \ {0}, NEW total \in Nat, NEW whole \in Nat, NEW k \in Nat,
         Packed(size, pack, k, total), Packed(size, pack, size, whole), k <= size
  PROVE  /\ k = size => total = whole
         /\ k < size => total < whole
<1> DEFINE f == PackSize(pack, AesBlock)
<1>1. PICK q \in Nat : \E r \in 1..pack : size = q * pack + r /\ whole = q * f + PackSize(r, AesBlock)
  BY DEF Packed
<1>2. PICK r \in 1..pack : size = q * pack + r /\ whole = q * f + PackSize(r, AesBlock)
  BY <1>1
<1>3. f \in Nat /\ PackSize(r, AesBlock) \in Nat /\ PackSize(r, AesBlock) > 0
  BY PacketSizeAnnounced, StreamAssumption
<1>4. ASSUME k = size PROVE total = whole
  <2>1. PICK p \in Nat : \E s \in 1..pack : size = p * pack + s /\ total = p * f + PackSize(s, AesBlock)
    BY <1>4 DEF Packed
  <2>2. PICK s \in 1..pack : size = p * pack + s /\ total = p * f + PackSize(s, AesBlock)
    BY <2>1
  <2>3. r - 1 \in 0..(pack - 1) /\ s - 1 \in 0..(pack - 1)
    OBVIOUS
  <2>4. q * pack \in Nat /\ p * pack \in Nat
    OBVIOUS
  <2>5. q * pack + (r - 1) = p * pack + (s - 1)
    BY <1>2, <2>2, <2>4
  <2>6. /\ (q * pack + (r - 1)) \div pack = q /\ (q * pack + (r - 1)) % pack = r - 1
        /\ (p * pack + (s - 1)) \div pack = p /\ (p * pack + (s - 1)) % pack = s - 1
    BY <2>3, Division
  <2>7. q = p /\ r - 1 = s - 1
    BY <2>5, <2>6
  <2>8. r = s
    BY <2>7
  <2> QED BY <1>2, <2>2, <2>7, <2>8
<1>5. ASSUME k < size PROVE total < whole
  <2>1. PICK p \in Nat : k = p * pack /\ total = p * f
    BY <1>5 DEF Packed
  <2>2. \A a, b, c \in Nat : a <= b => a * c <= b * c
    <3> SUFFICES ASSUME NEW a \in Nat, NEW b \in Nat, NEW c \in Nat, a <= b PROVE a * c <= b * c
      OBVIOUS
    <3>1. b - a \in Nat /\ b = a + (b - a)
      OBVIOUS
    <3>2. (a + (b - a)) * c = a * c + (b - a) * c /\ (b - a) * c \in Nat
      BY <3>1
    <3>3. a * c \in Nat /\ b * c = a * c + (b - a) * c
      BY <3>1, <3>2
    <3> QED BY <3>2, <3>3
  <2>3. p <= q
    <3> SUFFICES ASSUME q + 1 <= p PROVE FALSE
      OBVIOUS
    <3>1. (q + 1) * pack <= p * pack /\ (q + 1) * pack = q * pack + pack
      BY <2>2
    <3> QED BY <1>2, <1>5, <2>1, <3>1
  <2>4. p * f <= q * f /\ q * f \in Nat /\ p * f \in Nat
    BY <1>3, <2>2, <2>3
  <2> HIDE DEF f
  <2> QED BY <1>2, <1>3, <2>1, <2>4
<1> QED BY <1>4, <1>5

\* The loop that adds up the packets, and the writes after it, have come to
\* the size of the packets so far.
StreamInv ==
  /\ StreamTypeOK
  /\ streamSize = 0 => calc = 0
  /\ streamSize # 0 => packsize # 0 /\ Packed(streamSize, packsize, summed, calc)
  /\ sent # 0 => /\ summed = streamSize
                 /\ announced = (calc + packhdrsize + acksize) % SizeWord
                 /\ \E total \in Nat : /\ wrote = packhdrsize + acksize + total
                                       /\ Packed(streamSize, packsize, sent, total)

\* The piece that is written next is the one that CalcStreamSize counted, and
\* has the size that it counted.
LEMMA PieceSize ==
  ASSUME StreamTypeOK, packsize # 0, sent < streamSize
  PROVE  /\ Piece = IF streamSize - sent > packsize THEN packsize ELSE streamSize - sent
         /\ Piece \in Nat \ {0}
         /\ PaddedSize(Piece, AesBlock) = PackSize(Piece, AesBlock)
<1>1. /\ packsize \in Nat \ {0} /\ streamSize - sent \in Nat \ {0}
  BY DEF StreamTypeOK
<1>2. Piece = IF streamSize - sent > packsize THEN packsize ELSE streamSize - sent
  <2>1. \A a, b \in Nat : Min({a, b}) = IF b > a THEN a ELSE b
    BY DEF Min
  <2> QED BY <1>1, <2>1 DEF Piece
<1>3. Piece \in Nat \ {0}
  BY <1>1, <1>2
<1> QED BY <1>2, <1>3, PacketSizeAnnounced, StreamAssumption

\* The size in the first packet of a stream, which CalcStreamSize adds up
\* before anything is padded, is the number of bytes that WriteAckData and
\* EncodeWrite have written at the end of the data and at no time before, for
\* data and packets of any length, as far as the word of 32 bits holds it.
THEOREM StreamSizeAnnouncedAlways == StreamSpec => []StreamSizeAnnounced
<1> USE StreamAssumption
<1>1. StreamInit => StreamInv
  BY DEF StreamInit, StreamInv, StreamTypeOK
<1>2. StreamInv /\ [StreamNext]_streamVars => StreamInv'
  <2> SUFFICES ASSUME StreamInv, [StreamNext]_streamVars PROVE StreamInv'
    OBVIOUS
  <2>0. /\ streamSize \in Nat /\ packsize \in Nat /\ summed \in Nat /\ calc \in Nat /\ sent \in Nat
        /\ wrote \in Nat /\ announced \in Nat /\ summed <= streamSize /\ sent <= streamSize
        /\ StreamTypeOK
    BY DEF StreamInv, StreamTypeOK
  <2>1. ASSUME NEW size \in 1..MaxStream, NEW pack \in 1..MaxStream, BeginWriteStream(size, pack)
        PROVE  StreamInv'
    <3>1. /\ streamSize = 0 /\ streamSize' = size /\ packsize' = pack
          /\ UNCHANGED <<summed, calc, sent, wrote, announced>> 
          /\ summed = 0 /\ sent = 0 /\ calc = 0
      BY <2>0, <2>1 DEF BeginWriteStream, StreamInv
    <3>2. Packed(size, pack, 0, 0)
      BY PackedStart
    <3> QED BY <2>0, <3>1, <3>2 DEF StreamInv, StreamTypeOK
  <2>2. CASE CalcStreamSize
    <3>1. /\ summed < streamSize /\ summed' = summed + PackDataSize(summed)
          /\ calc' = calc + PackSize(PackDataSize(summed), AesBlock)
          /\ UNCHANGED <<streamSize, packsize, sent, wrote, announced>>
      BY <2>2 DEF CalcStreamSize
    <3>2. packsize \in Nat \ {0} /\ Packed(streamSize, packsize, summed, calc) /\ sent = 0
      BY <2>0, <3>1 DEF StreamInv
    <3>3. /\ PackDataSize(summed) \in Nat /\ summed' <= streamSize /\ calc' \in Nat
          /\ Packed(streamSize, packsize, summed', calc')
      BY <2>0, <3>1, <3>2, PackedNext DEF PackDataSize
    <3> QED BY <2>0, <3>1, <3>2, <3>3 DEF StreamInv, StreamTypeOK
  <2>3. CASE WriteAckData
    <3>1. /\ streamSize # 0 /\ summed = streamSize /\ sent = 0 /\ sent' = Piece
          /\ announced' = (calc + packhdrsize + acksize) % SizeWord
          /\ wrote' = packhdrsize + acksize + PaddedSize(Piece, AesBlock)
          /\ UNCHANGED <<streamSize, packsize, summed, calc>>
      BY <2>3 DEF WriteAckData
    <3>2. packsize \in Nat \ {0} /\ sent < streamSize /\ Packed(streamSize, packsize, summed, calc)
      BY <2>0, <3>1 DEF StreamInv
    <3>3. /\ Piece = IF streamSize - sent > packsize THEN packsize ELSE streamSize - sent
          /\ Piece \in Nat \ {0} /\ PaddedSize(Piece, AesBlock) = PackSize(Piece, AesBlock)
      BY <2>0, <3>2, PieceSize
    <3>4. Packed(streamSize, packsize, sent, 0)
      BY <2>0, <3>1, <3>2, PackedStart
    <3>5. /\ sent + Piece <= streamSize /\ 0 + PackSize(Piece, AesBlock) \in Nat
          /\ Packed(streamSize, packsize, sent + Piece, 0 + PackSize(Piece, AesBlock))
      BY <2>0, <3>2, <3>3, <3>4, PackedNext
    <3>6. /\ PackSize(Piece, AesBlock) \in Nat /\ 0 + PackSize(Piece, AesBlock) = PackSize(Piece, AesBlock)
          /\ sent' = sent + Piece /\ sent' \in Nat
      BY <2>0, <3>1, <3>3, PacketSizeAnnounced
    <3>7. packhdrsize + acksize \in Nat /\ announced' \in Nat /\ wrote' \in Nat
      BY <2>0, <3>1, <3>3, <3>6 DEF packhdrsize, acksize
    <3>8. StreamTypeOK'
      BY <2>0, <3>1, <3>5, <3>6, <3>7 DEF StreamTypeOK
    <3>9. wrote' = packhdrsize + acksize + PackSize(Piece, AesBlock)
            /\ Packed(streamSize', packsize', sent', PackSize(Piece, AesBlock))
      BY <3>1, <3>3, <3>5, <3>6
    <3> QED BY <3>1, <3>2, <3>6, <3>8, <3>9 DEF StreamInv
  <2>4. CASE EncodeWriteNext
    <3>1. /\ sent # 0 /\ sent < streamSize /\ sent' = sent + Piece
          /\ wrote' = wrote + PaddedSize(Piece, AesBlock)
          /\ UNCHANGED <<streamSize, packsize, summed, calc, announced>>
      BY <2>4 DEF EncodeWriteNext
    <3>2. packsize \in Nat \ {0} /\ Packed(streamSize, packsize, summed, calc) /\ summed = streamSize
          /\ announced = (calc + packhdrsize + acksize) % SizeWord
      BY <2>0, <3>1 DEF StreamInv
    <3>3. /\ Piece = IF streamSize - sent > packsize THEN packsize ELSE streamSize - sent
          /\ Piece \in Nat \ {0} /\ PaddedSize(Piece, AesBlock) = PackSize(Piece, AesBlock)
      BY <2>0, <3>1, <3>2, PieceSize
    <3>4. PICK total \in Nat : /\ wrote = packhdrsize + acksize + total
                               /\ Packed(streamSize, packsize, sent, total)
      BY <3>1 DEF StreamInv
    <3>5. /\ sent + Piece <= streamSize /\ total + PackSize(Piece, AesBlock) \in Nat
          /\ Packed(streamSize, packsize, sent + Piece, total + PackSize(Piece, AesBlock))
      BY <2>0, <3>1, <3>2, <3>3, <3>4, PackedNext
    <3>6. PackSize(Piece, AesBlock) \in Nat
      BY <3>3, PacketSizeAnnounced
    <3>7. /\ wrote' = packhdrsize + acksize + (total + PackSize(Piece, AesBlock)) /\ wrote' \in Nat
          /\ sent' \in Nat
      BY <2>0, <3>1, <3>3, <3>4, <3>6 DEF packhdrsize, acksize
    <3>8. StreamTypeOK'
      BY <2>0, <3>1, <3>5, <3>7 DEF StreamTypeOK
    <3> QED BY <3>1, <3>2, <3>5, <3>7, <3>8 DEF StreamInv
  <2>5. CASE UNCHANGED streamVars
    BY <2>5 DEF streamVars, StreamInv, StreamTypeOK
  <2> QED BY <2>1, <2>2, <2>3, <2>4, <2>5 DEF StreamNext
<1>3. StreamInv => StreamSizeAnnounced
  <2> SUFFICES ASSUME StreamInv, sent # 0
               PROVE  /\ sent = streamSize => announced = wrote % SizeWord
                      /\ calc + packhdrsize + acksize < SizeWord
                           => (wrote = announced <=> sent = streamSize)
    BY DEF StreamSizeAnnounced
  <2>1. /\ streamSize \in Nat /\ packsize \in Nat \ {0} /\ calc \in Nat /\ sent \in Nat
        /\ sent <= streamSize /\ Packed(streamSize, packsize, streamSize, calc)
        /\ announced = (calc + packhdrsize + acksize) % SizeWord
    BY DEF StreamInv, StreamTypeOK
  <2>2. PICK total \in Nat : /\ wrote = packhdrsize + acksize + total
                             /\ Packed(streamSize, packsize, sent, total)
    BY DEF StreamInv
  <2>3. (sent = streamSize => total = calc) /\ (sent < streamSize => total < calc)
    BY <2>1, <2>2, PackedWhole
  <2>4. packhdrsize + acksize \in Nat /\ calc + packhdrsize + acksize = packhdrsize + acksize + calc
    BY <2>1 DEF packhdrsize, acksize
  <2>5. \A x \in Nat : x < SizeWord => x % SizeWord = x
    OBVIOUS
  <2> QED BY <2>1, <2>2, <2>3, <2>4, <2>5
<1> QED BY <1>1, <1>2, <1>3, PTL DEF StreamSpec

-----------------------------------------------------------------------------
(* The look-up of an address (netutils/ipregion.go).                        *)

\* The table of countries holds the last of the lines loaded for every code.
CountriesLoaded ==
  \A c \in Codes :
    /\ \A i \in 1..lines : Lower[Countries[i].code] = c => i <= infosAA[c]
    /\ infosAA[c] # 0 => infosAA[c] \in 1..lines /\ Lower[Countries[infosAA[c]].code] = c

\* The ranges up to lo end before the address, those after hi do not.
Halved ==
  /\ lo <= hi /\ found = 0 /\ country = 0
  /\ \A i \in DOMAIN infos : (i <= lo => ~RangeReaches(infos[i])) /\ (i > hi => RangeReaches(infos[i]))

IPInv ==
  /\ IPTypeOK /\ LookupFinds /\ CountryFound
  /\ infos # <<>> => CountriesLoaded
  /\ phase # "idle" => lines = Len(Countries)
  /\ phase = "search" => Halved

\* An element of a sequence.
LEMMA ElementIn ==
  ASSUME NEW S, NEW s \in Seq(S), NEW i \in DOMAIN s
  PROVE  s[i] \in S
OBVIOUS

\* A range reaches the address if it does not end before it, and then so do
\* the ranges after it.
LEMMA RangesInOrder ==
  ASSUME IPTypeOK
  PROVE  /\ \A i \in DOMAIN infos : /\ infos[i].from \in Nat /\ infos[i].to \in Nat /\ infos[i].code \in Codes
                                    /\ RangeReaches(infos[i]) <=> infos[i].to >= intip
         /\ \A i, j \in DOMAIN infos : i < j => infos[i].to < infos[j].from /\ infos[j].from <= infos[j].to
         /\ \A i, j \in DOMAIN infos : i < j /\ RangeReaches(infos[i]) => RangeReaches(infos[j])
<1>1. /\ infos \in Seq([from : Nat, to : Nat, code : Codes])
      /\ \A i \in DOMAIN infos : infos[i].from <= infos[i].to
      /\ \A i, j \in DOMAIN infos : i < j => infos[i].to < infos[j].from
  <2>1. CASE infos \in Tables
    BY <2>1, IPRegionsAssumption
  <2>2. CASE infos = <<>>
    BY <2>2
  <2> QED BY <2>1, <2>2 DEF IPTypeOK
<1>2. \A i \in DOMAIN infos : infos[i].from \in Nat /\ infos[i].to \in Nat /\ infos[i].code \in Codes
  <2>1. \A i \in DOMAIN infos : infos[i] \in [from : Nat, to : Nat, code : Codes]
    BY <1>1, ElementIn, Zenon
  <2> QED BY <2>1
<1>3. intip \in Nat
  BY DEF IPTypeOK
<1>4. \A i \in DOMAIN infos : RangeReaches(infos[i]) <=> infos[i].to >= intip
  BY <1>1, <1>2, <1>3 DEF RangeReaches
<1>5. ASSUME NEW i \in DOMAIN infos, NEW j \in DOMAIN infos, i < j, infos[i].to >= intip
      PROVE  infos[j].to >= intip
  <2>1. infos[i].to < infos[j].from /\ infos[j].from <= infos[j].to
    BY <1>1, <1>5
  <2> QED BY <1>2, <1>3, <1>5, <2>1
<1> QED BY <1>1, <1>2, <1>4, <1>5

\* The tables are empty at first.
LEMMA IPInitInv == IPInit => IPInv
BY DEF IPInit, IPInv, IPTypeOK, LookupFinds, CountryFound

\* Every turn of the search halves what is left of it.
LEMMA IPNextInv == IPInv /\ [IPNext]_ipVars => IPInv'
<1> SUFFICES ASSUME IPInv, [IPNext]_ipVars PROVE IPInv'
  OBVIOUS
<1>0. /\ IPTypeOK /\ LookupFinds /\ CountryFound /\ Len(Countries) \in Nat /\ Len(infos) \in Nat
      /\ infos # <<>> => CountriesLoaded
      /\ phase # "idle" => lines = Len(Countries)
      /\ phase = "search" => Halved
  <2>1. Countries \in Seq([code : Codes]) /\ \A t \in Tables : t \in Seq([from : Nat, to : Nat, code : Codes])
    BY IPRegionsAssumption
  <2>2. Len(Countries) \in Nat
    BY <2>1
  <2>3. Len(infos) \in Nat
    BY <2>1 DEF IPInv, IPTypeOK
  <2> QED BY <2>2, <2>3 DEF IPInv
<1>1. ASSUME NEW t \in Tables, LoadRanges(t) PROVE IPInv'
  <2>1. /\ infos' = t /\ lines' = 0 /\ infosAA' = [c \in Codes |-> 0] /\ phase' = "idle"
        /\ lo' = 0 /\ hi' = 0 /\ found' = 0 /\ country' = 0 /\ intip' = intip
    BY <1>1 DEF LoadRanges
  <2>2. Len(t) \in Nat
    BY IPRegionsAssumption
  <2>3. IPTypeOK'
    BY <1>0, <2>1, <2>2 DEF IPTypeOK
  <2>4. CountriesLoaded'
    BY <2>1 DEF CountriesLoaded
  <2> QED BY <2>1, <2>3, <2>4 DEF IPInv, LookupFinds, CountryFound
<1>2. CASE LoadCountry
  <2> DEFINE key == Lower[Countries[lines + 1].code]
  <2>1. /\ lines < Len(Countries) /\ lines' = lines + 1 /\ infosAA' = [infosAA EXCEPT ![key] = lines + 1]
        /\ UNCHANGED <<infos, phase, intip, lo, hi, found, country>>
    BY <1>2 DEF LoadCountry
  <2>2. /\ lines \in Nat /\ infosAA \in [Codes -> 0..Len(Countries)] /\ lines' \in 1..Len(Countries)
        /\ phase = "idle"
    BY <1>0, <2>1 DEF IPTypeOK
  <2>3. key \in Codes
    <3>1. Countries \in Seq([code : Codes]) /\ lines + 1 \in 1..Len(Countries) /\ Lower \in [Codes -> Codes]
      BY <2>1, <2>2, IPRegionsAssumption
    <3>2. lines + 1 \in DOMAIN Countries
      BY <3>1
    <3>3. Countries[lines + 1] \in [code : Codes]
      BY <3>1, <3>2, ElementIn, Zenon
    <3> QED BY <3>1, <3>3
  <2>4. IPTypeOK'
    BY <1>0, <2>1, <2>2, <2>3 DEF IPTypeOK
  <2>5. ASSUME CountriesLoaded PROVE CountriesLoaded'
    <3> SUFFICES ASSUME NEW c \in Codes
                 PROVE  /\ \A i \in 1..(lines + 1) : Lower[Countries[i].code] = c => i <= infosAA'[c]
                        /\ infosAA'[c] # 0 => /\ infosAA'[c] \in 1..(lines + 1)
                                              /\ Lower[Countries[infosAA'[c]].code] = c
      BY <2>1 DEF CountriesLoaded
    <3>1. CASE c = key
      <4>1. infosAA'[c] = lines + 1
        BY <2>1, <2>2, <3>1
      <4> QED BY <2>2, <3>1, <4>1
    <3>2. CASE c # key
      <4>1. infosAA'[c] = infosAA[c]
        BY <2>1, <2>2, <3>2
      <4>2. /\ \A i \in 1..lines : Lower[Countries[i].code] = c => i <= infosAA[c]
            /\ infosAA[c] # 0 => infosAA[c] \in 1..lines /\ Lower[Countries[infosAA[c]].code] = c
        BY <2>5 DEF CountriesLoaded
      <4>3. \A i \in 1..(lines + 1) : i \in 1..lines \/ i = lines + 1
        BY <2>2
      <4>4. 1..lines \subseteq 1..(lines + 1)
        BY <2>2
      <4> QED BY <3>2, <4>1, <4>2, <4>3, <4>4
    <3> QED BY <3>1, <3>2
  <2> QED BY <1>0, <2>1, <2>2, <2>4, <2>5 DEF IPInv, LookupFinds, CountryFound
<1>3. ASSUME NEW ip \in Addresses, GetIPCountryName(ip) PROVE IPInv'
  <2>1. /\ phase' = "search" /\ intip' = Ip2int(ip) /\ lines = Len(Countries)
        /\ lo' = 0 /\ hi' = Len(infos) /\ found' = 0 /\ country' = 0
        /\ UNCHANGED <<infos, lines, infosAA>>
    BY <1>3 DEF GetIPCountryName
  <2>2. IPTypeOK'
    BY <1>0, <2>1, IPRegionsAssumption DEF IPTypeOK
  <2>3. \A i \in DOMAIN infos : ~(i <= 0) /\ ~(i > Len(infos))
    <3>1. DOMAIN infos = 1..Len(infos)
      BY IPRegionsAssumption, <1>0 DEF IPTypeOK
    <3> QED BY <1>0, <3>1
  <2>4. Halved'
    BY <1>0, <2>1, <2>3 DEF Halved
  <2>5. CountriesLoaded => CountriesLoaded'
    BY <2>1 DEF CountriesLoaded
  <2> QED BY <1>0, <2>1, <2>2, <2>4, <2>5 DEF IPInv, LookupFinds, CountryFound
<1>4. CASE SearchStep
  <2> DEFINE h == (lo + hi) \div 2
  <2>1. /\ phase = "search" /\ lo < hi /\ UNCHANGED <<infos, lines, infosAA, phase, intip, found, country>>
        /\ \/ RangeReaches(infos[h + 1]) /\ hi' = h /\ lo' = lo
           \/ ~RangeReaches(infos[h + 1]) /\ lo' = h + 1 /\ hi' = hi
    BY <1>4 DEF SearchStep
  <2>2. Halved /\ lo \in 0..Len(infos) /\ hi \in 0..Len(infos) /\ DOMAIN infos = 1..Len(infos)
    BY <1>0, <2>1, IPRegionsAssumption DEF IPTypeOK
  <2>3. h \in Nat /\ lo <= h /\ h < hi /\ h + 1 \in DOMAIN infos
    BY <1>0, <2>1, <2>2
  <2> HIDE DEF h
  <2>4. IPTypeOK' /\ lo' <= hi'
    BY <1>0, <2>1, <2>2, <2>3 DEF IPTypeOK
  <2>5. ASSUME NEW i \in DOMAIN infos, i <= lo' PROVE ~RangeReaches(infos[i])
    <3>1. CASE lo' = lo
      BY <2>2, <2>5, <3>1 DEF Halved
    <3>2. CASE lo' = h + 1 /\ ~RangeReaches(infos[h + 1])
      <4>1. i < h + 1 \/ i = h + 1
        BY <2>2, <2>3, <2>5, <3>2
      <4> QED BY <1>0, <2>3, <3>2, <4>1, RangesInOrder
    <3> QED BY <2>1, <3>1, <3>2
  <2>6. ASSUME NEW i \in DOMAIN infos, i > hi' PROVE RangeReaches(infos[i])
    <3>1. CASE hi' = hi
      BY <2>2, <2>6, <3>1 DEF Halved
    <3>2. CASE hi' = h /\ RangeReaches(infos[h + 1])
      <4>1. h + 1 < i \/ i = h + 1
        BY <2>2, <2>3, <2>6, <3>2
      <4> QED BY <1>0, <2>3, <3>2, <4>1, RangesInOrder
    <3> QED BY <2>1, <3>1, <3>2
  <2>7. Halved'
    BY <2>1, <2>2, <2>4, <2>5, <2>6 DEF Halved, RangeReaches
  <2>8. CountriesLoaded => CountriesLoaded'
    BY <2>1 DEF CountriesLoaded
  <2> QED BY <1>0, <2>1, <2>4, <2>7, <2>8 DEF IPInv, LookupFinds, CountryFound
<1>5. CASE SearchEnd
  <2> DEFINE k == lo + 1
             none == lo = Len(infos) \/ infos[k].from > intip \/ infos[k].to < intip
  <2>1. /\ phase = "search" /\ lo >= hi /\ phase' = "done"
        /\ UNCHANGED <<infos, lines, infosAA, intip, lo, hi>>
        /\ IF none THEN UNCHANGED <<found, country>>
           ELSE found' = k /\ country' = infosAA[Lower[infos[k].code]]
    BY <1>5 DEF SearchEnd
  <2>2. /\ lo \in 0..Len(infos) /\ lo = hi /\ DOMAIN infos = 1..Len(infos) /\ intip \in Nat
        /\ found = 0 /\ country = 0 /\ lines = Len(Countries)
        /\ \A i \in DOMAIN infos : (i <= lo => ~RangeReaches(infos[i])) /\ (i > lo => RangeReaches(infos[i]))
    BY <1>0, <2>1, IPRegionsAssumption DEF IPTypeOK, Halved
  <2>3. \A i \in DOMAIN infos : /\ infos[i].from \in Nat /\ infos[i].to \in Nat /\ infos[i].code \in Codes
                                /\ i <= lo <=> infos[i].to < intip
    BY <1>0, <2>2, RangesInOrder
  \* No range after the one found holds the address.
  <2>4. ASSUME NEW i \in DOMAIN infos, infos[i].from <= intip, intip <= infos[i].to PROVE i = k
    <3>1. i > lo
      BY <2>2, <2>3, <2>4
    <3>2. CASE i > k
      <4>1. k \in DOMAIN infos /\ k > lo /\ k < i
        BY <2>2, <3>2
      <4>2. infos[k].to < infos[i].from /\ ~(infos[k].to < intip)
        BY <1>0, <2>2, <2>3, <4>1, RangesInOrder
      <4> QED BY <2>2, <2>3, <2>4, <4>1, <4>2
    <3> QED BY <2>2, <3>1, <3>2
  <2>5. CASE none
    <3>1. found' = 0 /\ country' = 0
      BY <2>1, <2>2, <2>5
    <3>2. IPTypeOK'
      BY <1>0, <2>1, <3>1 DEF IPTypeOK
    <3>3. \A i \in DOMAIN infos : ~(infos[i].from <= intip /\ intip <= infos[i].to) /\ i # 0
      <4>1. ASSUME NEW i \in DOMAIN infos, infos[i].from <= intip, intip <= infos[i].to PROVE FALSE
        <5>1. i = k
          BY <2>4, <4>1
        <5>2. k \in DOMAIN infos /\ infos[k].from <= intip /\ intip <= infos[k].to
          BY <4>1, <5>1
        <5>3. infos[k].from \in Nat /\ infos[k].to \in Nat /\ intip \in Nat
          BY <2>2, <2>3, <5>2
        <5>4. ~(infos[k].from > intip) /\ ~(infos[k].to < intip)
          BY <5>2, <5>3
        <5>5. lo # Len(infos)
          <6>1. k \in 1..Len(infos) /\ lo \in Nat
            BY <2>2, <5>2
          <6>2. Len(infos) \in Nat
            BY <1>0
          <6> QED BY <6>1, <6>2
        <5> QED BY <2>5, <5>4, <5>5
      <4> QED BY <2>2, <4>1
    <3>4. LookupFinds' /\ CountryFound'
      BY <2>1, <3>1, <3>3 DEF LookupFinds, CountryFound
    <3> QED BY <1>0, <2>1, <2>2, <3>2, <3>4 DEF IPInv, CountriesLoaded
  <2>6. CASE ~none
    <3>1. found' = k /\ country' = infosAA[Lower[infos[k].code]]
      BY <2>1, <2>6
    <3>2. k \in DOMAIN infos /\ infos[k].from <= intip /\ intip <= infos[k].to /\ infos # <<>>
      <4>1. lo # Len(infos) /\ ~(infos[k].from > intip) /\ ~(infos[k].to < intip)
        BY <2>6
      <4>2. k \in DOMAIN infos
        <5>1. lo \in Nat /\ lo <= Len(infos) /\ Len(infos) \in Nat
          BY <1>0, <2>2
        <5>2. k \in 1..Len(infos)
          BY <4>1, <5>1
        <5> QED BY <2>2, <5>2
      <4>3. infos[k].from \in Nat /\ infos[k].to \in Nat
        BY <2>3, <4>2
      <4>4. infos[k].from <= intip /\ intip <= infos[k].to
        <5>1. intip \in Nat
          BY <2>2
        <5> QED BY <4>1, <4>3, <5>1
      <4>5. infos # <<>>
        BY <4>2
      <4> QED BY <4>2, <4>4, <4>5
    <3>3. Lower[infos[k].code] \in Codes
      BY <2>3, <3>2, IPRegionsAssumption
    <3>4. country' \in 0..Len(Countries)
      BY <1>0, <3>1, <3>3 DEF IPTypeOK
    <3> HIDE DEF k, none
    <3>5. IPTypeOK'
      BY <1>0, <2>1, <2>2, <3>1, <3>2, <3>4 DEF IPTypeOK
    <3>6. LookupFinds'
      BY <2>1, <2>4, <3>1, <3>2 DEF LookupFinds
    <3>7. CountryFound'
      <4> DEFINE c == Lower[infos[k].code]
                 listed == {i \in DOMAIN Countries : Lower[Countries[i].code] = c}
      <4>1. /\ \A i \in 1..lines : Lower[Countries[i].code] = c => i <= infosAA[c]
            /\ infosAA[c] # 0 => infosAA[c] \in 1..lines /\ Lower[Countries[infosAA[c]].code] = c
        BY <1>0, <3>2, <3>3 DEF CountriesLoaded
      <4>2. DOMAIN Countries = 1..lines
        BY <2>2, IPRegionsAssumption
      <4>3. \A i \in listed : i <= country' /\ country' # 0
        BY <3>1, <3>4, <4>1, <4>2
      <4>4. country' # 0 => country' \in listed
        BY <3>1, <4>1, <4>2
      <4>5. IF listed = {} THEN country' = 0 ELSE country' \in listed /\ \A i \in listed : i <= country'
        BY <4>3, <4>4
      <4> QED BY <2>1, <3>1, <4>5 DEF CountryFound
    <3> QED BY <1>0, <2>1, <2>2, <3>5, <3>6, <3>7 DEF IPInv, CountriesLoaded
  <2> QED BY <2>5, <2>6
<1>6. CASE UNCHANGED ipVars
  BY <1>0, <1>6 DEF ipVars, IPInv, IPTypeOK, LookupFinds, CountryFound, CountriesLoaded, Halved, RangeReaches
<1> QED BY <1>1, <1>2, <1>3, <1>4, <1>5, <1>6 DEF IPNext

\* GetIPCountryName, with any tables in order that InitFromFile may load: the
\* binary search finds the range that holds the address if there is one, and
\* the country is the last one loaded with the codes of the range.
THEOREM AddressFoundAlways == IPSpec => []AddressFound
<1>1. IPInv => AddressFound
  BY DEF IPInv, AddressFound
<1> QED BY <1>1, IPInitInv, IPNextInv, PTL DEF IPSpec

-----------------------------------------------------------------------------
(* Redirects (netserve/fileserver.go).                                      *)

\* A path that is not the root is a name in a directory.
LEMMA ParentAndBase ==
  ASSUME NEW S, NEW p \in Seq(S), p # <<>>
  PROVE  /\ Parent(p) \in Seq(S) /\ Base(p) \in S
         /\ Append(Parent(p), Base(p)) = p
<1>1. Parent(p) = SubSeq(p, 1, Len(p) - 1) /\ Base(p) = p[Len(p)]
  BY DEF Parent, Base, Front, Last
<1>2. Len(p) \in Nat \ {0} /\ DOMAIN p = 1..Len(p) /\ p[Len(p)] \in S
  OBVIOUS
<1>3. SubSeq(p, 1, Len(p) - 1) \in Seq(S)
  BY <1>2
<1>4. SubSeq(p, 1, Len(p)) = Append(SubSeq(p, 1, Len(p) - 1), p[Len(p)])
  BY <1>2, SubSeqRecursiveSecond
<1>5. SubSeq(p, 1, Len(p)) = p
  BY SubSeqFull
<1> QED BY <1>1, <1>2, <1>3, <1>4, <1>5

\* Where a client is on its way: at the first URL, at what this names with or
\* without a slash, or, if that is an index.html, at its directory.
OnTheWay ==
  LET target == Target(asked)
  IN  \/ hops = 0 /\ url = asked
      \/ hops = 1 /\ url.path = target /\ url.slash
      \/ hops \in 1..2 /\ url.path = target /\ ~url.slash /\ Kind(target) = "file"
      \/ /\ hops \in 2..3 /\ url.slash /\ Kind(target) = "file" /\ target # <<>>
         /\ Base(target) = Index /\ url.path = Parent(target)

FileInv ==
  /\ FileTypeOK /\ OnTheWay
  /\ answer # NoReply => answer = Expected(Target(asked))

\* The URL asked for first is well formed.
LEMMA AskedURL ==
  ASSUME asked \in URLs
  PROVE  asked.path \in Seq(Names) /\ asked.slash \in BOOLEAN /\ (asked.path = <<>> => asked.slash)
<1>1. CASE asked \in [path : Paths \ {<<>>}, slash : BOOLEAN]
  <2>1. asked.path \in Paths /\ asked.path # <<>> /\ asked.slash \in BOOLEAN
    BY <1>1
  <2>2. Paths \subseteq Seq(Names)
    BY FileServerAssumption
  <2>3. asked.path \in Seq(Names)
    BY <2>1, <2>2, Zenon
  <2> QED BY <2>1, <2>3
<1>2. CASE asked = [path |-> <<>>, slash |-> TRUE]
  BY <1>2
<1> QED BY <1>1, <1>2 DEF URLs

\* No redirect has been followed.
LEMMA FileInitInv == FileInit => FileInv
<1> SUFFICES ASSUME FileInit PROVE FileInv
  OBVIOUS
<1>1. asked \in URLs /\ url = asked /\ hops = 0 /\ answer = NoReply /\ fs \in FileSystems
  BY DEF FileInit
<1>2. asked.path \in Seq(Names) /\ asked.slash \in BOOLEAN /\ (asked.path = <<>> => asked.slash)
  BY <1>1, AskedURL
<1> QED BY <1>1, <1>2 DEF FileInv, FileTypeOK, OnTheWay

\* What is asked for names a path, and what is in the tree lies in directories.
LEMMA TargetPath ==
  ASSUME FileTypeOK
  PROVE  /\ Target(asked) \in Seq(Names)
         /\ asked.path \in Seq(Names) /\ (AsksIndex(asked) => asked.path # <<>>)
         /\ (AsksIndex(url) => url.path # <<>> /\ Parent(url.path) \in Seq(Names))
         /\ Kind(<<>>) = "dir"
         /\ \A p \in Seq(Names) : p # <<>> /\ Kind(p) = "file" => Kind(Parent(p)) = "dir"
<1>1. asked.path \in Seq(Names) /\ asked.slash \in BOOLEAN /\ (asked.path = <<>> => asked.slash)
  BY AskedURL DEF FileTypeOK
<1>2. AsksIndex(asked) => asked.path # <<>>
  BY <1>1 DEF AsksIndex
<1>3. AsksIndex(url) => url.path # <<>> /\ Parent(url.path) \in Seq(Names)
  BY ParentAndBase DEF AsksIndex, FileTypeOK
<1>4. Target(asked) \in Seq(Names)
  BY <1>1, <1>2, ParentAndBase DEF Target
<1>5. /\ Kind(<<>>) = "dir"
      /\ \A p \in Seq(Names) : p # <<>> /\ Kind(p) = "file" => Kind(Parent(p)) = "dir"
  BY FileServerAssumption DEF FileTypeOK, Kind
<1> QED BY <1>1, <1>2, <1>3, <1>4, <1>5

\* A redirect leads on: from index.html to its directory, or to or from a
\* slash, and each of them only once.
LEMMA FileNextInv == FileInv /\ [FileNext]_fileVars => FileInv'
<1> SUFFICES ASSUME FileInv, [FileNext]_fileVars PROVE FileInv'
  OBVIOUS
<1> DEFINE target == Target(asked)
<1>0. /\ FileTypeOK /\ OnTheWay /\ (answer # NoReply => answer = Expected(target))
      /\ hops \in Nat /\ url.path \in Seq(Names) /\ url.slash \in BOOLEAN
  BY DEF FileInv, FileTypeOK
<1>1. /\ target \in Seq(Names) /\ Kind(<<>>) = "dir"
      /\ AsksIndex(asked) => asked.path # <<>>
      /\ AsksIndex(url) => url.path # <<>> /\ Parent(url.path) \in Seq(Names)
      /\ \A p \in Seq(Names) : p # <<>> /\ Kind(p) = "file" => Kind(Parent(p)) = "dir"
  BY <1>0, TargetPath
<1> HIDE DEF target
\* A redirect keeps the target, and a reply leaves the way as it is.
<1>2. ASSUME NEW path \in Seq(Names), NEW slash \in BOOLEAN, Redirect(path, slash), answer = NoReply,
             path = <<>> => slash,
             \/ hops' = 1 /\ path = target /\ slash
             \/ hops' \in 1..2 /\ path = target /\ ~slash /\ Kind(target) = "file"
             \/ /\ hops' \in 2..3 /\ slash /\ Kind(target) = "file" /\ target # <<>>
                /\ Base(target) = Index /\ path = Parent(target)
      PROVE  FileInv'
  <2>1. /\ url' = [path |-> path, slash |-> slash] /\ hops' = hops + 1 /\ UNCHANGED <<fs, asked, answer>>
    BY <1>2 DEF Redirect
  <2>2. url'.path = path /\ url'.slash = slash
    BY <2>1
  <2>3. FileTypeOK'
    BY <1>0, <1>2, <2>1, <2>2 DEF FileTypeOK, URLs
  <2>4. Target(asked)' = target /\ Kind(Target(asked))' = Kind(target)
    BY <2>1 DEF target, Target, AsksIndex, Kind
  <2>5. OnTheWay'
    BY <1>2, <2>2, <2>4 DEF OnTheWay
  <2> QED BY <1>2, <2>1, <2>3, <2>5 DEF FileInv
<1>3. ASSUME NEW code, NEW path, Reply(code, path), Answer(code, path) = Expected(target)
      PROVE  FileInv'
  <2>1. answer' = Expected(target) /\ UNCHANGED <<fs, asked, url, hops>>
    BY <1>3 DEF Reply
  <2>2. Expected(Target(asked))' = Expected(target)
    BY <2>1 DEF target, Target, AsksIndex, Expected, Kind
  <2> QED BY <1>0, <2>1, <2>2 DEF FileInv, FileTypeOK, OnTheWay, Target, AsksIndex, Kind
\* The four places of OnTheWay, for a URL that is opened.
<1>4. ASSUME ~AsksIndex(url)
      PROVE  \/ hops \in 0..1 /\ url.path = target
             \/ hops \in 1..2 /\ url.path = target /\ ~url.slash /\ Kind(target) = "file"
             \/ /\ url.slash /\ Kind(target) = "file" /\ target # <<>>
                /\ Base(target) = Index /\ url.path = Parent(target)
  <2>1. CASE hops = 0 /\ url = asked
    BY <1>4, <2>1 DEF target, Target
  <2> QED BY <1>0, <2>1 DEF OnTheWay, target
<1>5. CASE ToParent
  <2>1. answer = NoReply /\ AsksIndex(url) /\ Redirect(Parent(url.path), TRUE) /\ hops' = hops + 1
    BY <1>5 DEF ToParent, Redirect
  <2>2. CASE hops = 0 /\ url = asked
    <3>1. target = Parent(url.path) /\ hops' = 1
      BY <2>1, <2>2 DEF target, Target
    <3> QED BY <1>1, <1>2, <2>1, <3>1
  <2>3. CASE hops \in 1..2 /\ url.path = target /\ ~url.slash /\ Kind(target) = "file"
    <3>1. Base(target) = Index /\ target # <<>> /\ hops' \in 2..3
      BY <1>1, <2>1, <2>3 DEF AsksIndex
    <3> QED BY <1>1, <1>2, <2>1, <2>3, <3>1
  <2> QED BY <1>0, <2>1, <2>2, <2>3 DEF OnTheWay, AsksIndex, target
<1>6. CASE FileErr
  <2>1. PICK kind \in {"none", "denied", "broken"} : Opens(kind) /\ Reply(ErrorCode(kind), <<>>)
    BY <1>6 DEF FileErr
  <2>2. answer = NoReply /\ ~AsksIndex(url) /\ Kind(url.path) = kind
    BY <2>1 DEF Opens
  <2>3. url.path = target
    BY <1>1, <1>4, <2>2
  <2>4. Expected(target) = Answer(ErrorCode(kind), <<>>)
    BY <2>2, <2>3 DEF Expected
  <2> QED BY <1>3, <2>1, <2>4
<1>7. CASE ToDir
  <2>1. answer = NoReply /\ ~AsksIndex(url) /\ Kind(url.path) = "dir" /\ ~url.slash
        /\ Redirect(url.path, TRUE) /\ hops' = hops + 1
    BY <1>7 DEF ToDir, Opens, Redirect
  <2>2. url.path = target /\ hops \in 0..1
    BY <1>4, <2>1
  <2>3. hops = 0 /\ hops' = 1
    BY <1>0, <2>1, <2>2 DEF OnTheWay, target
  <2> QED BY <1>0, <1>2, <2>1, <2>2, <2>3
<1>8. CASE ToFile
  <2>1. answer = NoReply /\ ~AsksIndex(url) /\ Kind(url.path) = "file" /\ url.slash
        /\ Redirect(url.path, FALSE) /\ hops' = hops + 1
    BY <1>8 DEF ToFile, Opens, Redirect
  <2>2. url.path = target /\ hops \in 0..1 /\ url.path # <<>>
    BY <1>1, <1>4, <2>1
  <2>3. hops' \in 1..2
    BY <2>1, <2>2
  <2> QED BY <1>0, <1>2, <2>1, <2>2, <2>3
<1>9. CASE ServeFile
  <2>1. answer = NoReply /\ ~AsksIndex(url) /\ Kind(url.path) = "file" /\ ~url.slash
        /\ Reply("content", url.path)
    BY <1>9 DEF ServeFile, Opens
  <2>2. url.path = target
    BY <1>4, <2>1
  <2>3. Expected(target) = Answer("content", url.path)
    BY <2>1, <2>2 DEF Expected
  <2> QED BY <1>3, <2>1, <2>3
<1>10. CASE ServeIndex
  <2> DEFINE index == Append(url.path, Index)
  <2>1. /\ answer = NoReply /\ ~AsksIndex(url) /\ Kind(url.path) = "dir" /\ url.slash
        /\ IF Kind(index) = "file" THEN Reply("content", index) ELSE Reply("notfound", <<>>)
    BY <1>10 DEF ServeIndex, Opens
  <2>2. CASE url.path = target
    <3>1. CASE Kind(index) = "file"
      <4>1. Expected(target) = Answer("content", index)
        BY <2>1, <2>2, <3>1 DEF Expected
      <4> QED BY <1>3, <2>1, <3>1, <4>1
    <3>2. CASE Kind(index) # "file"
      <4>1. Expected(target) = Answer("notfound", <<>>)
        BY <2>1, <2>2, <3>2 DEF Expected, ErrorCode
      <4> QED BY <1>3, <2>1, <3>2, <4>1
    <3> QED BY <3>1, <3>2
  <2>3. CASE Kind(target) = "file" /\ target # <<>> /\ Base(target) = Index /\ url.path = Parent(target)
    <3>1. index = target
      BY <1>1, <2>3, ParentAndBase
    <3>2. Expected(target) = Answer("content", index)
      BY <2>3, <3>1 DEF Expected
    <3> QED BY <1>3, <2>1, <2>3, <3>1, <3>2
  <2> QED BY <1>4, <2>1, <2>2, <2>3
<1>11. CASE UNCHANGED fileVars
  BY <1>0, <1>11 DEF fileVars, FileInv, FileTypeOK, OnTheWay, Target, AsksIndex, Kind, Expected, target
<1> QED BY <1>5, <1>6, <1>7, <1>8, <1>9, <1>10, <1>11 DEF FileNext

\* A client of the file server that follows its redirects, in any tree of
\* files: they end after three at most, in the file that the first URL names
\* or the index.html of that directory, or in an error for what is not there.
THEOREM RedirectsSettleAlways == FileSpec => []RedirectsSettle
<1>1. FileInv => RedirectsSettle
  <2>1. OnTheWay => hops <= 3
    BY DEF OnTheWay
  <2> QED BY <2>1 DEF FileInv, RedirectsSettle
<1> QED BY <1>1, FileInitInv, FileNextInv, PTL DEF FileSpec

-----------------------------------------------------------------------------
(* Values of records (dbutils/dbtype.go).                                   *)

\* A time by its fields.
TimeOf(d, s, m, z) == [day |-> d, sec |-> s, nano |-> m, zone |-> z]

\* The text of a time is read as that time in the local zone, without its
\* nanoseconds; a date, from the text of a time or of a date, as the midnight
\* of that day.
LEMMA TextRead ==
  ASSUME NEW way \in Ways, NEW d, NEW s, NEW m, NEW z
  PROVE  LET t == TimeOf(d, s, m, z)
         IN  /\ UnmarshalDBTime(way, TimeToStr(t)) = <<TimeOf(d, s, 0, Local)>>
             /\ UnmarshalDBDate(way, TimeToStr(t)) = <<TimeOf(d, 0, 0, Local)>>
             /\ UnmarshalDBDate(way, DateToStr(t)) = <<TimeOf(d, 0, 0, Local)>>
<1> DEFINE t == TimeOf(d, s, m, z)
<1>1. UnmarshalDBTime(way, TimeToStr(t)) = <<TimeOf(d, s, 0, Local)>>
  BY DEF TimeOf, UnmarshalDBTime, StrToTime, ParseDateOrTime, ParseInLocation, TimeToStr
<1>2. UnmarshalDBTime(way, DateToStr(t)) = <<TimeOf(d, 0, 0, Local)>>
  BY DEF TimeOf, UnmarshalDBTime, StrToTime, ParseDateOrTime, ParseInLocation, DateToStr
<1>3. \A u : EachOf(DateFromTime, <<u>>) = <<DateFromTime(u)>>
  <2> SUFFICES ASSUME NEW u PROVE EachOf(DateFromTime, <<u>>) = <<DateFromTime(u)>>
    OBVIOUS
  <2>1. EachOf(DateFromTime, <<u>>) = [i \in 1..1 |-> DateFromTime(<<u>>[i])]
    BY DEF EachOf
  <2> QED BY <2>1
<1>4. \A x : DateFromTime(TimeOf(d, x, 0, Local)) = TimeOf(d, 0, 0, Local)
  <2> SUFFICES ASSUME NEW x PROVE DateFromTime(TimeOf(d, x, 0, Local)) = TimeOf(d, 0, 0, Local)
    OBVIOUS
  <2>1. \A u : DateFromTime(u) = [[u EXCEPT !.sec = 0] EXCEPT !.nano = 0]
    BY DEF DateFromTime
  <2>2. [TimeOf(d, x, 0, Local) EXCEPT !.sec = 0] = TimeOf(d, 0, 0, Local)
    BY DEF TimeOf
  <2>3. [TimeOf(d, 0, 0, Local) EXCEPT !.nano = 0] = TimeOf(d, 0, 0, Local)
    BY DEF TimeOf
  <2> QED BY <2>1, <2>2, <2>3, Zenon
<1> QED BY <1>1, <1>2, <1>3, <1>4 DEF UnmarshalDBDate

\* A flag survives in the bytes of its column unless there are none, where it is
\* read as false.
LEMMA FlagRead ==
  ASSUME NEW bytes \in Slices, NEW v \in BOOLEAN
  PROVE  /\ BoolValue(BoolUnmarshal(bytes, v)) <=> v /\ bytes # <<>>
         /\ IntBoolValue(IntBoolOf(v)) = v
<1>0. bytes \in Seq(0..255)
  BY RecordAssumption
<1>1. IntBoolValue(IntBoolOf(v)) = v
  BY DEF IntBoolOf, IntBoolValue
<1>2. CASE bytes = <<>>
  BY <1>1, <1>2 DEF BoolValue, BoolUnmarshal
<1>3. CASE bytes # <<>>
  <2>1. Tail(bytes) \in Seq(0..255) /\ IntBoolOf(v) \in 0..255
    BY <1>0, <1>3 DEF IntBoolOf
  <2>2. <<IntBoolOf(v)>> \o Tail(bytes) # <<>> /\ (<<IntBoolOf(v)>> \o Tail(bytes))[1] = IntBoolOf(v)
    BY <2>1
  <2> QED BY <1>1, <1>3, <2>2 DEF BoolValue, BoolUnmarshal, IntBoolOf
<1> QED BY <1>2, <1>3

\* The text that a record with these fields is written as.
Written(d, s, f, b) == [stamp |-> [day |-> <<d>>, clock |-> <<s>>],
                        date |-> [day |-> <<d>>, clock |-> <<>>], flag |-> b, intFlag |-> f]

\* RecordRoundTrips, with the fields of the times written out.
RecordIs(d, s, m, z, f) ==
  /\ born = [time |-> TimeOf(d, s, m, z), flag |-> f]
  /\ stamp \in {TimeOf(d, s, m, z), TimeOf(d, s, 0, Local)}
  /\ date \in {TimeOf(d, 0, 0, z), TimeOf(d, 0, 0, Local)}
  /\ kept \in BOOLEAN /\ textKept \in BOOLEAN
  /\ BoolValue(flag) = (f /\ kept) /\ IntBoolValue(intFlag) = f
  /\ text \in {NoText, Written(d, s, f, f /\ textKept)}

RecordInv ==
  /\ failed = FALSE
  /\ \E d \in Days, s \in Seconds, m \in Nanos, z \in Zones, f \in BOOLEAN : RecordIs(d, s, m, z, f)

\* As NewDBDate and its like make a record.
LEMMA RecordInitInv == RecordInit => RecordInv
<1> SUFFICES ASSUME RecordInit PROVE RecordInv
  OBVIOUS
<1>1. /\ born \in [time : Times, flag : BOOLEAN] /\ stamp = born.time /\ date = NewDBDate(born.time)
      /\ flag \in {<<IntBoolOf(born.flag)>>, <<>>} /\ (born.flag => flag # <<>>)
      /\ intFlag = IntBoolOf(born.flag)
      /\ text = NoText /\ failed = FALSE /\ kept = TRUE /\ textKept = TRUE
  BY DEF RecordInit
<1> DEFINE d == born.time.day
           s == born.time.sec
           m == born.time.nano
           z == born.time.zone
           f == born.flag
<1>2. born.time \in Times /\ f \in BOOLEAN /\ born = [time |-> born.time, flag |-> f]
  BY <1>1
<1>3. /\ d \in Days /\ s \in Seconds /\ m \in Nanos /\ z \in Zones /\ born.time = TimeOf(d, s, m, z)
  BY <1>2 DEF Times, TimeOf
<1>4. NewDBDate(born.time) = TimeOf(d, 0, 0, z)
  <2>1. NewDBDate(born.time) = [[born.time EXCEPT !.sec = 0] EXCEPT !.nano = 0]
    BY DEF NewDBDate, DateFromTime
  <2>2. [TimeOf(d, s, m, z) EXCEPT !.sec = 0] = TimeOf(d, 0, m, z)
    BY DEF TimeOf
  <2>3. [TimeOf(d, 0, m, z) EXCEPT !.nano = 0] = TimeOf(d, 0, 0, z)
    BY DEF TimeOf
  <2> QED BY <1>3, <2>1, <2>2, <2>3, Zenon
<1>5. BoolValue(flag) = (f /\ kept) /\ IntBoolValue(intFlag) = f
  BY <1>1, <1>2 DEF BoolValue, IntBoolValue, IntBoolOf
<1> HIDE DEF d, s, m, z, f
<1>6. /\ stamp = TimeOf(d, s, m, z) /\ date = TimeOf(d, 0, 0, z)
      /\ born = [time |-> TimeOf(d, s, m, z), flag |-> f]
  BY <1>1, <1>2, <1>3, <1>4, Zenon
<1>7. RecordIs(d, s, m, z, f)
  BY <1>1, <1>5, <1>6, Zenon DEF RecordIs
<1> QED BY <1>1, <1>2, <1>3, <1>7 DEF RecordInv

\* Writing and reading again change neither the text nor what it stands for.
LEMMA RecordNextInv == RecordInv /\ [RecordNext]_recordVars => RecordInv'
<1> SUFFICES ASSUME RecordInv, [RecordNext]_recordVars PROVE RecordInv'
  OBVIOUS
<1>1. PICK d \in Days, s \in Seconds, m \in Nanos, z \in Zones, f \in BOOLEAN :
        RecordIs(d, s, m, z, f)
  BY DEF RecordInv
<1> SUFFICES failed' = FALSE /\ RecordIs(d, s, m, z, f)'
  BY DEF RecordInv
<1>2. /\ failed = FALSE
      /\ born = [time |-> TimeOf(d, s, m, z), flag |-> f]
      /\ stamp \in {TimeOf(d, s, m, z), TimeOf(d, s, 0, Local)}
      /\ date \in {TimeOf(d, 0, 0, z), TimeOf(d, 0, 0, Local)}
      /\ kept \in BOOLEAN /\ textKept \in BOOLEAN
      /\ BoolValue(flag) = (f /\ kept) /\ IntBoolValue(intFlag) = f
      /\ text \in {NoText, Written(d, s, f, f /\ textKept)}
  BY <1>1, Zenon DEF RecordInv, RecordIs
<1> DEFINE fits == failed' = FALSE /\ RecordIs(d, s, m, z, f)'
<1>3. \A x, y, u : /\ TimeToStr(TimeOf(d, x, y, u)) = [day |-> <<d>>, clock |-> <<x>>]
                   /\ DateToStr(TimeOf(d, x, y, u)) = [day |-> <<d>>, clock |-> <<>>]
  BY DEF TimeToStr, DateToStr, TimeOf
<1>4. CASE WriteRecord
  <2>1. /\ text' = [stamp |-> TimeToStr(stamp), date |-> DateToStr(date),
                    flag |-> BoolValue(flag), intFlag |-> IntBoolValue(intFlag)]
        /\ textKept' = kept /\ UNCHANGED <<stamp, date, flag, intFlag, failed, born, kept>>
    BY <1>4 DEF WriteRecord, MarshalDBTime, MarshalDBDate
  <2>2. TimeToStr(stamp) = [day |-> <<d>>, clock |-> <<s>>] /\ DateToStr(date) = [day |-> <<d>>, clock |-> <<>>]
    BY <1>2, <1>3, Zenon
  <2>3. text' = Written(d, s, f, f /\ textKept')
    BY <1>2, <2>1, <2>2 DEF Written
  <2>4. BoolValue(flag)' = (f /\ kept') /\ IntBoolValue(intFlag)' = f
    BY <1>2, <2>1 DEF BoolValue, IntBoolValue
  <2> QED BY <1>2, <2>1, <2>3, <2>4, Zenon DEF RecordIs
<1>5. ASSUME NEW way \in Ways, NEW from \in {"stamp", "date"}, ReadTimes(way, from) PROVE fits
  <2>1. text = Written(d, s, f, f /\ textKept) /\ UNCHANGED <<flag, intFlag, text, born, kept, textKept>>
    BY <1>2, <1>5, Zenon DEF ReadTimes
  <2>2. UnmarshalDBTime(way, text.stamp) = <<TimeOf(d, s, 0, Local)>>
    <3>1. text.stamp = TimeToStr(TimeOf(d, s, m, z))
      BY <1>3, <2>1 DEF Written
    <3> QED BY <3>1, TextRead
  <2>3. UnmarshalDBDate(way, text[from]) = <<TimeOf(d, 0, 0, Local)>>
    <3>1. CASE from = "stamp"
      <4>1. text[from] = TimeToStr(TimeOf(d, s, m, z))
        BY <1>3, <2>1, <3>1 DEF Written
      <4> QED BY <4>1, TextRead
    <3>2. CASE from = "date"
      <4>1. text[from] = DateToStr(TimeOf(d, s, m, z))
        BY <1>3, <2>1, <3>2 DEF Written
      <4> QED BY <4>1, TextRead
    <3> QED BY <3>1, <3>2
  <2>4. stamp' = TimeOf(d, s, 0, Local) /\ date' = TimeOf(d, 0, 0, Local) /\ failed' = failed
    <3>1. \A u : <<u>> # <<>> /\ <<u>>[1] = u
      OBVIOUS
    <3>2. LET times == UnmarshalDBTime(way, text.stamp)
              dates == UnmarshalDBDate(way, text[from])
          IN  IF times = <<>> \/ dates = <<>>
              THEN failed' = TRUE /\ UNCHANGED <<stamp, date>>
              ELSE stamp' = times[1] /\ date' = dates[1] /\ UNCHANGED failed
      BY <1>5 DEF ReadTimes
    <3> QED BY <2>2, <2>3, <3>1, <3>2
  <2>5. BoolValue(flag)' = (f /\ kept') /\ IntBoolValue(intFlag)' = f
    BY <1>2, <2>1 DEF BoolValue, IntBoolValue
  <2> QED BY <1>2, <2>1, <2>4, <2>5, Zenon DEF RecordIs
<1>6. ASSUME NEW bytes \in Slices, ReadFlags(bytes) PROVE fits
  <2>1. /\ text = Written(d, s, f, f /\ textKept) /\ UNCHANGED <<stamp, date, text, failed, born, textKept>>
        /\ kept' = (textKept /\ bytes # <<>>)
        /\ flag' = BoolUnmarshal(bytes, text.flag) /\ intFlag' = IntBoolOf(text.intFlag)
    BY <1>2, <1>6, Zenon DEF ReadFlags
  <2>2. text.flag = (f /\ textKept) /\ text.intFlag = f
    BY <2>1 DEF Written
  <2>3. BoolValue(flag)' = (f /\ kept') /\ IntBoolValue(intFlag)' = f
    <3>1. /\ BoolValue(flag)' = BoolValue(BoolUnmarshal(bytes, f /\ textKept))
          /\ IntBoolValue(intFlag)' = IntBoolValue(IntBoolOf(f))
      BY <2>1, <2>2 DEF BoolValue, IntBoolValue
    <3>2. (f /\ textKept) \in BOOLEAN /\ BoolValue(flag)' \in BOOLEAN
      BY DEF BoolValue
    <3> QED BY <2>1, <3>1, <3>2, FlagRead
  <2> QED BY <1>2, <2>1, <2>3, Zenon DEF RecordIs
<1>7. CASE UNCHANGED recordVars
  <2>1. BoolValue(flag)' = (f /\ kept') /\ IntBoolValue(intFlag)' = f
    BY <1>2, <1>7 DEF recordVars, BoolValue, IntBoolValue
  <2>2. UNCHANGED <<stamp, date, text, failed, born, kept, textKept>>
    BY <1>7 DEF recordVars
  <2> QED BY <1>2, <2>1, <2>2, Zenon DEF RecordIs
<1> QED BY <1>4, <1>5, <1>6, <1>7 DEF RecordNext

\* A record that is written as JSON or XML and read from it, or scanned from
\* the database, any number of times and in any order, can always be read and
\* keeps its date, the second its clock shows (not its zone) and its DBIntBool; a
\* DBBool keeps its value exactly until it is read into an empty one.
THEOREM RecordRoundTripsAlways == RecordSpec => []RecordRoundTrips
<1>1. RecordInv => RecordRoundTrips
  <2> SUFFICES ASSUME RecordInv PROVE RecordRoundTrips
    OBVIOUS
  <2>1. PICK d \in Days, s \in Seconds, m \in Nanos, z \in Zones, f \in BOOLEAN :
          RecordIs(d, s, m, z, f)
    BY DEF RecordInv
  <2>0. /\ born = [time |-> TimeOf(d, s, m, z), flag |-> f]
        /\ stamp \in {TimeOf(d, s, m, z), TimeOf(d, s, 0, Local)}
        /\ date \in {TimeOf(d, 0, 0, z), TimeOf(d, 0, 0, Local)}
        /\ kept \in BOOLEAN /\ textKept \in BOOLEAN
        /\ BoolValue(flag) = (f /\ kept) /\ IntBoolValue(intFlag) = f
        /\ text \in {NoText, Written(d, s, f, f /\ textKept)}
    BY <2>1, Zenon DEF RecordIs
  <2>2. born.time = TimeOf(d, s, m, z) /\ born.flag = f /\ born.time.zone = z
    BY <2>0 DEF TimeOf
  <2>3. [born.time EXCEPT !.nano = 0, !.zone = Local] = TimeOf(d, s, 0, Local)
    <3>1. [TimeOf(d, s, m, z) EXCEPT !.nano = 0] = TimeOf(d, s, 0, z)
      BY DEF TimeOf
    <3>2. [TimeOf(d, s, 0, z) EXCEPT !.zone = Local] = TimeOf(d, s, 0, Local)
      BY DEF TimeOf
    <3>3. [born.time EXCEPT !.nano = 0, !.zone = Local] = [[born.time EXCEPT !.nano = 0] EXCEPT !.zone = Local]
      OBVIOUS
    <3> QED BY <2>2, <3>1, <3>2, <3>3, Zenon
  <2>4. \A x : [born.time EXCEPT !.sec = 0, !.nano = 0, !.zone = x] = TimeOf(d, 0, 0, x)
    <3> SUFFICES ASSUME NEW x
                 PROVE  [born.time EXCEPT !.sec = 0, !.nano = 0, !.zone = x] = TimeOf(d, 0, 0, x)
      OBVIOUS
    <3>1. [TimeOf(d, s, m, z) EXCEPT !.sec = 0] = TimeOf(d, 0, m, z)
      BY DEF TimeOf
    <3>2. [TimeOf(d, 0, m, z) EXCEPT !.nano = 0] = TimeOf(d, 0, 0, z)
      BY DEF TimeOf
    <3>3. [TimeOf(d, 0, 0, z) EXCEPT !.zone = x] = TimeOf(d, 0, 0, x)
      BY DEF TimeOf
    <3>4. [born.time EXCEPT !.sec = 0, !.nano = 0, !.zone = x]
            = [[[born.time EXCEPT !.sec = 0] EXCEPT !.nano = 0] EXCEPT !.zone = x]
      OBVIOUS
    <3> QED BY <2>2, <3>1, <3>2, <3>3, <3>4, Zenon
  <2>5. stamp \in {born.time, [born.time EXCEPT !.nano = 0, !.zone = Local]}
    BY <2>0, <2>2, <2>3, Zenon
  <2>6. date \in {[born.time EXCEPT !.sec = 0, !.nano = 0, !.zone = x] : x \in {born.time.zone, Local}}
    BY <2>0, <2>2, <2>4, Zenon
  <2>7. text # NoText => /\ text.stamp = TimeToStr(born.time) /\ text.date = DateToStr(born.time)
                         /\ text.flag = (born.flag /\ textKept) /\ text.intFlag = born.flag
    BY <2>0, <2>2 DEF TimeToStr, DateToStr, TimeOf, Written
  <2>8. failed = FALSE
    BY DEF RecordInv
  <2>9. TimesRoundTrip
    BY <2>5, <2>6, <2>7, <2>8, Zenon DEF TimesRoundTrip
  <2>10. FlagsRoundTrip
    BY <2>0, <2>2, <2>7, Zenon DEF FlagsRoundTrip
  <2> QED BY <2>9, <2>10 DEF RecordRoundTrips
<1> QED BY <1>1, RecordInitInv, RecordNextInv, PTL DEF RecordSpec
=============================================================================
