------------------------------ MODULE DBConfig ------------------------------
(***************************************************************************)
(* dbutils/database.go and dbconfig.go: a Database whose connection is     *)
(* opened and opened again by its user, and the configuration table that   *)
(* TimerAction (common/utils.go) loads into a map again and again.  Other  *)
(* goroutines may call UpdateDBF too.  Open leaves Connection nil while it *)
(* tries: a load that comes then panics, and TimerAction recovers.         *)
(*                                                                         *)
(* Load builds a new map row by row and then stores it in one assignment.  *)
(* rows.Next also ends when the iteration breaks off, which Load does not  *)
(* ask about.  Two of a kind of failure are not told apart: a statement    *)
(* that the server refuses and a connection that is closed.                *)
(***************************************************************************)
EXTENDS Naturals, Functions

CONSTANTS
  Keys, Values,  \* keyCol and valueCol
  Off,           \* no row for a key, or one whose enableCol is 0
  Timer,         \* the goroutine of StartUpdateDBF
  Callers,       \* other goroutines that call UpdateDBF
  MaxOpens,      \* bound: calls of Open
  MaxChanges,    \* bound: changes of the table
  MaxFaults      \* bound: failures of the network or the server

ASSUME OffAssumption == Off \notin Values
ASSUME TimerAssumption == Timer \notin Callers
ASSUME BoundsAssumption == MaxOpens \in Nat /\ MaxChanges \in Nat /\ MaxFaults \in Nat

Loaders == Callers \cup {Timer}
Tables == [Keys -> Values \cup {Off}]
Maps == UNION {[K -> Values] : K \in SUBSET Keys}

VARIABLES
  table,       \* the table in the database
  conn,        \* Connection: 0 is nil, n the one that the nth Open made
  opens,       \* calls of Open
  mpc,         \* control point of Open
  cc,          \* the map that the readers use
  lpc,         \* lpc[p]: control point of a load
  sess,        \* sess[p]: the connection of its session
  rows,        \* rows[p]: rows it has not read
  newCC,       \* newCC[p]: the map it builds
  ctxDone,
  changes, faults,
  versions,    \* what the table has held (history)
  cut          \* an iteration has broken off (history)

dbVars == <<conn, opens, mpc>>
loadVars == <<cc, lpc, sess, rows, newCC, cut>>
envVars == <<table, changes, versions, ctxDone>>
vars == <<dbVars, loadVars, envVars, faults>>

\* The rows of a table that the statement of Load selects.
Selected(t) == Restrict(t, {k \in Keys : t[k] # Off})

TypeOK ==
  /\ table \in Tables /\ versions \subseteq Tables
  /\ conn \in 0..MaxOpens /\ opens \in 0..MaxOpens
  /\ mpc \in {"idle", "dial", "wait"}
  /\ cc \in Maps
  /\ lpc \in [Loaders -> {"idle", "query", "rows", "store", "wait", "ended"}]
  /\ sess \in [Loaders -> 0..MaxOpens]
  /\ rows \in [Loaders -> Maps] /\ newCC \in [Loaders -> Maps]
  /\ changes \in 0..MaxChanges /\ faults \in 0..MaxFaults
  /\ ctxDone \in BOOLEAN /\ cut \in BOOLEAN

Nothing == Restrict([k \in Keys |-> Off], {})

Init ==
  /\ table \in Tables
  /\ versions = {table}
  /\ conn = 0 /\ opens = 0 /\ mpc = "idle"
  /\ cc = Nothing
  /\ lpc = [p \in Loaders |-> "idle"]
  /\ sess = [p \in Loaders |-> 0]
  /\ rows = [p \in Loaders |-> Nothing]
  /\ newCC = [p \in Loaders |-> Nothing]
  /\ changes = 0 /\ faults = 0
  /\ ctxDone = FALSE /\ cut = FALSE

Fault == faults < MaxFaults /\ faults' = faults + 1

-----------------------------------------------------------------------------
(* Open.                                                                    *)

\* Close comes first; a connection string with less than two parts then
\* panics in the caller and leaves the database closed.
Open ==
  /\ mpc = "idle" /\ opens < MaxOpens
  /\ opens' = opens + 1
  /\ conn' = 0
  /\ mpc' \in {"dial", "idle"}
  /\ UNCHANGED <<loadVars, envVars, faults>>

Dial ==
  /\ mpc = "dial"
  /\ \/ conn' = opens /\ mpc' = "idle" /\ UNCHANGED faults
     \/ Fault /\ conn' = 0 /\ mpc' = "wait"
  /\ UNCHANGED <<opens, loadVars, envVars>>

Redial ==
  /\ mpc = "wait"
  /\ mpc' = "dial" \/ (ctxDone /\ mpc' = "idle")
  /\ UNCHANGED <<conn, opens, loadVars, envVars, faults>>

-----------------------------------------------------------------------------
(* UpdateDBF: NewSession and Load.                                          *)

Goto(p, pc) == lpc' = [lpc EXCEPT ![p] = pc]

\* Mutant: the panic of a load on a nil Connection ends TimerAction.
EndLoadForGood(p) ==
  Goto(p, CASE p # Timer -> "idle" [] p = Timer /\ sess[p] = 0 -> "ended"
            [] OTHER -> "wait")

\* The load of the timer is followed by a wait, also when it panicked; what
\* another caller does about an error or a panic is its own affair.
EndLoad(p) == Goto(p, IF p = Timer THEN "wait" ELSE "idle")

NewSession(p) ==
  /\ lpc[p] = "idle"
  /\ sess' = [sess EXCEPT ![p] = conn]
  /\ Goto(p, "query")
  /\ UNCHANGED <<dbVars, cc, rows, newCC, cut, envVars, faults>>

\* The statement sees one state of the table.  It fails on a connection that
\* is closed or replaced, and panics on nil.
Query(p) ==
  /\ lpc[p] = "query"
  /\ \/ /\ sess[p] # 0 /\ sess[p] = conn
        /\ rows' = [rows EXCEPT ![p] = Selected(table)]
        /\ newCC' = [newCC EXCEPT ![p] = Nothing]
        /\ Goto(p, "rows")
        /\ UNCHANGED faults
     \/ /\ \/ (sess[p] = 0 \/ sess[p] # conn) /\ UNCHANGED faults
           \/ Fault
        /\ EndLoad(p)
        /\ UNCHANGED <<rows, newCC>>
  /\ UNCHANGED <<dbVars, cc, sess, cut, envVars>>

\* Mutant: the rows go into the map of the readers one by one.
NextRowInPlace(p) ==
  /\ lpc[p] = "rows"
  /\ \E k \in DOMAIN rows[p] :
       /\ newCC' = [newCC EXCEPT ![p] =
            [j \in DOMAIN @ \cup {k} |-> IF j = k THEN rows[p][k] ELSE @[j]]]
       /\ cc' = newCC'[p]
       /\ rows' = [rows EXCEPT ![p] = Restrict(@, DOMAIN @ \ {k})]
  /\ UNCHANGED <<dbVars, lpc, sess, cut, envVars, faults>>

\* A row that Scan cannot read ends the load with an error.
NextRow(p) ==
  /\ lpc[p] = "rows"
  /\ \/ /\ \E k \in DOMAIN rows[p] :
             /\ newCC' = [newCC EXCEPT ![p] =
                  [j \in DOMAIN @ \cup {k} |-> IF j = k THEN rows[p][k] ELSE @[j]]]
             /\ rows' = [rows EXCEPT ![p] = Restrict(@, DOMAIN @ \ {k})]
        /\ UNCHANGED <<lpc, faults>>
     \/ DOMAIN rows[p] # {} /\ Fault /\ EndLoad(p) /\ UNCHANGED <<rows, newCC>>
  /\ UNCHANGED <<dbVars, cc, sess, cut, envVars>>

\* rows.Next is false after the last row, and when the iteration breaks off.
LastRow(p) ==
  /\ lpc[p] = "rows"
  /\ \/ DOMAIN rows[p] = {} /\ UNCHANGED <<faults, cut>>
     \/ DOMAIN rows[p] # {} /\ Fault /\ cut' = TRUE
  /\ Goto(p, "store")
  /\ UNCHANGED <<dbVars, cc, sess, rows, newCC, envVars>>

Store(p) ==
  /\ lpc[p] = "store"
  /\ cc' = newCC[p]
  /\ EndLoad(p)
  /\ UNCHANGED <<dbVars, sess, rows, newCC, cut, envVars, faults>>

\* TimerAction waits for the interval or for the context.
TimerAction ==
  /\ lpc[Timer] = "wait"
  /\ \/ Goto(Timer, "idle")
     \/ ctxDone /\ Goto(Timer, "ended")
  /\ UNCHANGED <<dbVars, cc, sess, rows, newCC, cut, envVars, faults>>

-----------------------------------------------------------------------------
ChangeTable ==
  /\ changes < MaxChanges
  /\ changes' = changes + 1
  /\ table' \in Tables \ {table}
  /\ versions' = versions \cup {table'}
  /\ UNCHANGED <<dbVars, loadVars, ctxDone, faults>>

Cancel ==
  /\ ~ctxDone
  /\ ctxDone' = TRUE
  /\ UNCHANGED <<dbVars, loadVars, table, changes, versions, faults>>

LoadStep(p) == Query(p) \/ NextRow(p) \/ LastRow(p) \/ Store(p)

Next ==
  \/ Open \/ Dial \/ Redial \/ TimerAction \/ ChangeTable \/ Cancel
  \/ \E p \in Loaders : NewSession(p) \/ LoadStep(p)

Spec == Init /\ [][Next]_vars

(***************************************************************************)
(* A load and an Open that have begun go on, and the timer fires.  Nobody  *)
(* has to open the database, change the table or call UpdateDBF.           *)
(***************************************************************************)
Fairness ==
  /\ WF_vars(Dial \/ Redial) /\ WF_vars(TimerAction) /\ WF_vars(NewSession(Timer))
  /\ \A p \in Loaders : WF_vars(LoadStep(p))

FairSpec == Spec /\ Fairness

-----------------------------------------------------------------------------
(* Properties.                                                              *)

\* The readers never see half a reload: the map is empty, as NewDBConfig made
\* it, or what the table held at one moment, unless an iteration broke off
\* without an error that Load would see.
ConfigWhole ==
  ~cut => cc \in {Nothing} \cup {Selected(t) : t \in versions}

\* Whatever failed before, a nil connection under a load and a shortened map
\* included, the timer brings the map up to date with the table and keeps it
\* so once the table rests, unless the database was left closed or the
\* context is done.
ConfigCatchesUp ==
  <>[](\/ cc = Selected(table)
       \/ ctxDone
       \/ conn = 0 /\ mpc = "idle")
=============================================================================
