------------------------------ MODULE CuidGen ------------------------------
(***************************************************************************)
(* dbutils/dbtype.go: InitCuidDev stores the device id and starts a        *)
(* goroutine that builds ids (second, counter, device) and offers them one *)
(* at a time on the unbuffered channel gCUIDBuilder; NewCUID receives one. *)
(*                                                                         *)
(* InitCuidDev tests and sets gCUIDDevID without a lock, so the test and   *)
(* the assignment are two steps, and a generator is named by the           *)
(* InitCuidDev call that started it.  One turn of the generator's loop up  *)
(* to the channel send touches nothing shared but the clock and the device *)
(* id, and is one step.  The widths of the fields are parameters: the code *)
(* has TimeMax = 2^33 - 1, CounterSize = 2^16, DevSize = 2^14.             *)
(***************************************************************************)
EXTENDS Integers, Sequences

CONSTANTS
  Initers,      \* calls of InitCuidDev (one for each Database.Open)
  Users,        \* goroutines that call NewCUID
  DevIDs,       \* device ids found in connection strings, signed numbers
  TimeMax,      \* timeMax
  CounterSize,  \* values of the counter field
  DevSize,      \* values of the device field
  StartTimes,   \* seconds since 2018 at which the process may start
  MaxTime,      \* bound on the clock
  MaxIssued     \* bound on the ids handed out

ASSUME ConstantsAssumption ==
  /\ DevIDs \subseteq Int
  /\ TimeMax \in Nat
  /\ CounterSize \in Nat /\ CounterSize >= 2
  /\ DevSize \in Nat \ {0}
  /\ StartTimes \subseteq Nat \ {0}
  /\ MaxTime \in Nat /\ MaxIssued \in Nat

counterMax == CounterSize - 1
devIDMax   == DevSize - 1

VARIABLES
  gCUIDDevID,   \* the global device id, 0 until InitCuidDev sets it
  ipc,          \* ipc[i]: control point of InitCuidDev call i
  gpc,          \* gpc[i]: control point of the generator started by call i
  lastTime, counter, lastCounter,   \* the locals of each generator
  pending,      \* pending[i]: what generator i offers on gCUIDBuilder
  upc,          \* upc[u]: control point of user u
  clock,        \* whole seconds since the beginning of 2018
  issued,       \* what NewCUID has returned, in order (history)
  cause         \* how the generator left its design envelope (history)

genVars  == <<lastTime, counter, lastCounter, pending>>
initVars == <<gCUIDDevID, ipc>>
userVars == <<upc, issued>>
vars == <<initVars, gpc, genVars, userVars, clock, cause>>

Causes == {"clockBack", "exhausted", "overrun", "twin", "negative"}

-----------------------------------------------------------------------------
(* The encoding.  Shifting the fields and or-ing them spills the excess of  *)
(* a field into the low bits of the field above it, and the sign bits of a  *)
(* negative one into all the fields above it (-1 has all bits set).         *)

Or[x \in Nat, y \in Int] ==
  IF y = -1 THEN -1
  ELSE IF x = 0 \/ y = 0 THEN x + y
  ELSE (IF x % 2 = 1 \/ y % 2 = 1 THEN 1 ELSE 0) + 2 * Or[x \div 2, y \div 2]

BitOr(x, y) == IF y = 0 THEN x ELSE Or[x, y]

\* (now << 30) | (counter << 14) | devid, as the fields a reader finds in it
CUID(now, ctr, dev) ==
  LET c == BitOr(ctr, dev \div DevSize)
  IN  [time |-> BitOr(now, c \div CounterSize),
       counter |-> c % CounterSize,
       dev |-> dev % DevSize]

\* An offer: the id, and the second and counter it was built from (history).
Offer(now, ctr) ==
  [id |-> CUID(now, ctr, gCUIDDevID), sec |-> now, ctr |-> ctr]

NoOffer == [id |-> [time |-> 0, counter |-> 0, dev |-> 0], sec |-> 0, ctr |-> 0]

-----------------------------------------------------------------------------
Init ==
  /\ gCUIDDevID = 0
  /\ ipc = [i \in Initers |-> "idle"]
  /\ gpc = [i \in Initers |-> "none"]
  /\ lastTime = [i \in Initers |-> 0]
  /\ counter = [i \in Initers |-> 0]
  /\ lastCounter = [i \in Initers |-> 0]
  /\ pending = [i \in Initers |-> NoOffer]
  /\ upc = [u \in Users |-> "idle"]
  /\ clock \in StartTimes
  /\ issued = <<>>
  /\ cause = {}

TypeOK ==
  /\ gCUIDDevID \in DevIDs \cup {0}
  /\ ipc \in [Initers -> {"idle", "passed", "done"}]
  /\ gpc \in [Initers -> {"none", "start", "loop", "send", "dead"}]
  /\ lastTime \in [Initers -> Nat]
  /\ counter \in [Initers -> Nat]
  /\ lastCounter \in [Initers -> Nat]
  /\ upc \in [Users -> {"idle", "waiting", "panicked"}]
  /\ clock \in Int
  /\ cause \subseteq Causes

-----------------------------------------------------------------------------
(* InitCuidDev.                                                             *)

TestDevID(i) ==
  /\ ipc[i] = "idle"
  /\ ipc' = [ipc EXCEPT ![i] = IF gCUIDDevID # 0 THEN "done" ELSE "passed"]
  /\ UNCHANGED <<gCUIDDevID, gpc, genVars, userVars, clock, cause>>

SetDevID(i) ==
  /\ ipc[i] = "passed"
  /\ \E devid \in DevIDs : gCUIDDevID' = devid
  /\ ipc' = [ipc EXCEPT ![i] = "done"]
  /\ gpc' = [gpc EXCEPT ![i] = "start"]
  /\ cause' = cause \cup
       (IF \E j \in Initers : gpc[j] # "none" THEN {"twin"} ELSE {}) \cup
       (IF gCUIDDevID' < 0 THEN {"negative"} ELSE {})
  /\ UNCHANGED <<genVars, userVars, clock>>

-----------------------------------------------------------------------------
(* The generator.                                                           *)

\* Only a device id that is too large is refused, not a negative one.
CheckDevID(i) ==
  /\ gpc[i] = "start"
  /\ gpc' = [gpc EXCEPT ![i] = IF gCUIDDevID > devIDMax THEN "dead" ELSE "loop"]
  /\ UNCHANGED <<initVars, genVars, userVars, clock, cause>>

ValidTime(t) == t >= 0 /\ t < TimeMax

\* The panic is recovered by the deferred call: the goroutine just ends.
InvalidTime(i) ==
  /\ gpc[i] = "loop"
  /\ ~ValidTime(clock)
  /\ gpc' = [gpc EXCEPT ![i] = "dead"]
  /\ UNCHANGED <<initVars, genVars, userVars, clock, cause>>

\* Mutant: the counter at which the second began is not remembered.
NewSecondForgets(i) ==
  /\ gpc[i] = "loop"
  /\ ValidTime(clock)
  /\ lastTime[i] # clock
  /\ counter' = [counter EXCEPT ![i] = counter[i] + 1]
  /\ lastTime' = [lastTime EXCEPT ![i] = clock]
  /\ pending' = [pending EXCEPT ![i] = Offer(clock, counter[i] + 1)]
  /\ gpc' = [gpc EXCEPT ![i] = "send"]
  /\ cause' = cause \cup (IF counter[i] + 1 >= counterMax THEN {"overrun"} ELSE {})
  /\ UNCHANGED <<initVars, lastCounter, userVars, clock>>

\* The counter is not wrapped in this branch, so it can reach counterMax here.
NewSecond(i) ==
  /\ gpc[i] = "loop"
  /\ ValidTime(clock)
  /\ lastTime[i] # clock
  /\ counter' = [counter EXCEPT ![i] = counter[i] + 1]
  /\ lastCounter' = [lastCounter EXCEPT ![i] = counter[i] + 1]
  /\ lastTime' = [lastTime EXCEPT ![i] = clock]
  /\ pending' = [pending EXCEPT ![i] = Offer(clock, counter[i] + 1)]
  /\ gpc' = [gpc EXCEPT ![i] = "send"]
  /\ cause' = cause \cup (IF counter[i] + 1 >= counterMax THEN {"overrun"} ELSE {})
  /\ UNCHANGED <<initVars, userVars, clock>>

WrappedCounter(i) == IF counter[i] + 1 >= counterMax THEN 1 ELSE counter[i] + 1

\* Mutant: a counter the second has already used is offered again.
SameSecondReuses(i) ==
  /\ gpc[i] = "loop"
  /\ ValidTime(clock)
  /\ lastTime[i] = clock
  /\ counter' = [counter EXCEPT ![i] = WrappedCounter(i)]
  /\ pending' = [pending EXCEPT ![i] = Offer(clock, WrappedCounter(i))]
  /\ gpc' = [gpc EXCEPT ![i] = "send"]
  /\ UNCHANGED <<initVars, lastTime, lastCounter, userVars, clock, cause>>

SameSecond(i) ==
  /\ gpc[i] = "loop"
  /\ ValidTime(clock)
  /\ lastTime[i] = clock
  /\ WrappedCounter(i) # lastCounter[i]
  /\ counter' = [counter EXCEPT ![i] = WrappedCounter(i)]
  /\ pending' = [pending EXCEPT ![i] = Offer(clock, WrappedCounter(i))]
  /\ gpc' = [gpc EXCEPT ![i] = "send"]
  /\ UNCHANGED <<initVars, lastTime, lastCounter, userVars, clock, cause>>

\* Mutant: the turn that finds the second used up leaves the counter alone.
SkipInPlace(i) ==
  /\ gpc[i] = "loop"
  /\ ValidTime(clock)
  /\ lastTime[i] = clock
  /\ WrappedCounter(i) = lastCounter[i]
  /\ cause' = cause \cup {"exhausted"}
  /\ UNCHANGED <<initVars, gpc, genVars, userVars, clock>>

\* Every counter of this second is used: sleep and continue.
SkipTurn(i) ==
  /\ gpc[i] = "loop"
  /\ ValidTime(clock)
  /\ lastTime[i] = clock
  /\ WrappedCounter(i) = lastCounter[i]
  /\ counter' = [counter EXCEPT ![i] = WrappedCounter(i)]
  /\ cause' = cause \cup {"exhausted"}
  /\ UNCHANGED <<initVars, gpc, lastTime, lastCounter, pending, userVars, clock>>

LoopTurn(i) == InvalidTime(i) \/ NewSecond(i) \/ SameSecond(i) \/ SkipTurn(i)

-----------------------------------------------------------------------------
(* NewCUID.                                                                 *)

NewCUID(u) ==
  /\ Len(issued) < MaxIssued
  /\ upc[u] \in {"idle", "panicked"}
  /\ upc' = [upc EXCEPT ![u] = IF gCUIDDevID = 0 THEN "panicked" ELSE "waiting"]
  /\ UNCHANGED <<initVars, gpc, genVars, issued, clock, cause>>

\* The unbuffered channel: a send and a receive meet.
Handoff(i, u) ==
  /\ gpc[i] = "send"
  /\ upc[u] = "waiting"
  /\ issued' = Append(issued, pending[i])
  /\ upc' = [upc EXCEPT ![u] = "idle"]
  /\ gpc' = [gpc EXCEPT ![i] = "loop"]
  /\ UNCHANGED <<initVars, genVars, clock, cause>>

-----------------------------------------------------------------------------
(* The wall clock, which an administrator or NTP may set back.              *)

Tick ==
  /\ clock < MaxTime
  /\ clock' = clock + 1
  /\ UNCHANGED <<initVars, gpc, genVars, userVars, cause>>

ClockBack ==
  /\ clock >= 0
  /\ clock' = clock - 1
  /\ cause' = cause \cup {"clockBack"}
  /\ UNCHANGED <<initVars, gpc, genVars, userVars>>

-----------------------------------------------------------------------------
Next ==
  \/ \E i \in Initers : TestDevID(i) \/ SetDevID(i) \/ CheckDevID(i) \/ LoopTurn(i)
  \/ \E u \in Users : NewCUID(u)
  \/ \E i \in Initers, u \in Users : Handoff(i, u)
  \/ Tick \/ ClockBack

(***************************************************************************)
(* The scheduler runs a generator that can run.  Receivers blocked on a    *)
(* channel are served first come first served, so a receiver that finds a  *)
(* sender again and again is served: strong fairness.  Nothing is assumed  *)
(* of the clock.                                                           *)
(***************************************************************************)
Fairness ==
  /\ \A i \in Initers : WF_vars(CheckDevID(i)) /\ WF_vars(LoopTurn(i))
  /\ \A u \in Users : SF_vars(\E i \in Initers : Handoff(i, u))

Spec == Init /\ [][Next]_vars
FairSpec == Spec /\ Fairness

-----------------------------------------------------------------------------
(* Properties.                                                              *)

\* While the clock never went back, one generator runs, its device id is not
\* negative, no second needed more ids than it has counters and no second
\* began at the end of the counter, NewCUID never returns the same id twice.
UniqueIds ==
  cause = {} => \A j, k \in 1..Len(issued) : issued[j].id = issued[k].id => j = k

\* The counters that the current second of generator i has used: from the one
\* it began with, around the end of the counter, to the current one.
Used(i, c) ==
  IF lastCounter[i] <= counter[i]
  THEN lastCounter[i] <= c /\ c <= counter[i]
  ELSE lastCounter[i] <= c \/ c <= counter[i]

Started(i) == gpc[i] # "none"

OneGenerator ==
  /\ \A i, j \in Initers : Started(i) /\ Started(j) => i = j
  /\ issued # <<>> => \E i \in Initers : Started(i)

InRange(i) ==
  /\ lastTime[i] <= clock
  /\ counter[i] < counterMax /\ lastCounter[i] < counterMax
  /\ lastTime[i] > 0 => counter[i] > 0 /\ lastCounter[i] > 0
  /\ gpc[i] \in {"loop", "send"} => gCUIDDevID <= devIDMax

FreshOffer(i) ==
  /\ pending[i].id.time = lastTime[i] /\ pending[i].sec = lastTime[i]
  /\ pending[i].id.counter = counter[i] /\ pending[i].ctr = counter[i]
  /\ Used(i, counter[i])
  /\ \A j \in 1..Len(issued) :
       issued[j].sec = lastTime[i] => issued[j].ctr # counter[i]

IdsBehind(i) ==
  \A j \in 1..Len(issued) :
    /\ issued[j].sec <= lastTime[i]
    /\ issued[j].sec = lastTime[i] => Used(i, issued[j].ctr)

Faithful ==
  \A j \in 1..Len(issued) :
    /\ issued[j].id.time = issued[j].sec
    /\ issued[j].id.counter = issued[j].ctr

Distinct ==
  \A j, k \in 1..Len(issued) :
    issued[j].sec = issued[k].sec /\ issued[j].ctr = issued[k].ctr => j = k

Envelope ==
  /\ clock > 0 /\ gCUIDDevID >= 0
  /\ OneGenerator
  /\ \A i \in Initers :
       /\ InRange(i)
       /\ gpc[i] = "send" => FreshOffer(i)
       /\ Started(i) => IdsBehind(i)
  /\ Faithful
  /\ Distinct

\* In the design envelope (the causes of UniqueIds) one generator runs, its second does not pass the
\* clock, every id encodes the second and the counter it was built from, the
\* ids of the current second have counters already used in it, and the offer
\* that waits on the channel has one that no id has yet.
CountersInUse == cause = {} => Envelope

\* A caller of NewCUID gets an id unless every generator has ended.
UserServed ==
  \A u \in Users : upc[u] = "waiting" ~>
     \/ upc[u] = "idle"
     \/ \A i \in Initers : gpc[i] \in {"none", "dead"}

\* The layout that the comment above the encoding promises, 33 bits of time
\* above 16 bits of counter: the time field of an id is the second in which
\* it was built.
IdLayout == \A j \in 1..Len(issued) : issued[j].id.time = issued[j].sec
=============================================================================
