--------------------------- MODULE DBConfigProofs ---------------------------
(***************************************************************************)
(* For every table, any number of loads at once and any failures, the      *)
(* readers of the configuration see the table as it was at one moment,     *)
(* unless an iteration broke off unseen.                                   *)
(*                                                                         *)
(* ConfigWhole speaks of the map that is installed; LoadsWhole adds the    *)
(* maps that are under way: while a load reads, the rows it has read and   *)
(* those it has still to read make up one version of the table, and the    *)
(* map that it is about to store is a version.                             *)
(***************************************************************************)
EXTENDS DBConfig, TLAPS

\* Load p reads version t: every selected row of it is in the new map or
\* still to be read.
Reads(p, t) ==
  /\ DOMAIN newCC[p] \cup DOMAIN rows[p] = DOMAIN Selected(t)
  /\ \A k \in DOMAIN newCC[p] : newCC[p][k] = t[k]
  /\ \A k \in DOMAIN rows[p] : rows[p][k] = t[k]

LoadWhole(p) ==
  /\ lpc[p] = "rows" => \E t \in versions : Reads(p, t)
  /\ lpc[p] = "store" /\ ~cut => \E t \in versions : newCC[p] = Selected(t)

LoadsWhole == \A p \in Loaders : LoadWhole(p)

IInv == TypeOK /\ LoadsWhole /\ table \in versions /\ ConfigWhole

-----------------------------------------------------------------------------
\* What the statement of Load selects is a map from keys to values.
LEMMA SelectedRows ==
  ASSUME NEW t \in Tables
  PROVE  /\ Selected(t) \in Maps
         /\ DOMAIN Selected(t) = {k \in Keys : t[k] # Off}
         /\ \A k \in DOMAIN Selected(t) : Selected(t)[k] = t[k]
         /\ Selected(t) = [k \in DOMAIN Selected(t) |-> t[k]]
<1>1. Selected(t) = [k \in {j \in Keys : t[j] # Off} |-> t[k]]
  BY DEF Selected, Restrict
<1>2. {k \in Keys : t[k] # Off} \in SUBSET Keys
  OBVIOUS
<1>3. \A k \in {j \in Keys : t[j] # Off} : t[k] \in Values
  BY DEF Tables
<1>4. Selected(t) \in [{k \in Keys : t[k] # Off} -> Values]
  BY <1>1, <1>3
<1> QED
  BY <1>1, <1>2, <1>4 DEF Maps

\* A map is known by its domain, a set of keys, and its values.
LEMMA MapShape ==
  ASSUME NEW m
  PROVE  m \in Maps <=> /\ DOMAIN m \subseteq Keys
                        /\ m = [k \in DOMAIN m |-> m[k]]
                        /\ \A k \in DOMAIN m : m[k] \in Values
<1>1. ASSUME m \in Maps PROVE /\ DOMAIN m \subseteq Keys
                              /\ m = [k \in DOMAIN m |-> m[k]]
                              /\ \A k \in DOMAIN m : m[k] \in Values
  <2>1. PICK K \in SUBSET Keys : m \in [K -> Values]
    BY <1>1 DEF Maps
  <2> QED BY <2>1
<1>2. ASSUME DOMAIN m \subseteq Keys, m = [k \in DOMAIN m |-> m[k]],
             \A k \in DOMAIN m : m[k] \in Values
      PROVE  m \in Maps
  <2>1. m \in [DOMAIN m -> Values]
    BY <1>2
  <2> QED BY <1>2, <2>1 DEF Maps
<1> QED BY <1>1, <1>2

\* The map that NewDBConfig makes.
LEMMA NothingShape == Nothing \in Maps /\ DOMAIN Nothing = {}
<1>1. Nothing = [k \in {} |-> [j \in Keys |-> Off][k]]
  BY DEF Nothing, Restrict
<1>2. DOMAIN Nothing = {} /\ Nothing = [k \in DOMAIN Nothing |-> Nothing[k]]
  BY <1>1
<1> QED BY <1>2, MapShape

-----------------------------------------------------------------------------
\* A step that leaves load q where it is, or ends it, and forgets no version.
LEMMA OtherLoad ==
  ASSUME NEW q \in Loaders, LoadWhole(q),
         \/ lpc'[q] \notin {"rows", "store"}
         \/ lpc'[q] = lpc[q] /\ rows'[q] = rows[q] /\ newCC'[q] = newCC[q],
         cut => cut', versions \subseteq versions'
  PROVE  LoadWhole(q)'
<1>1. CASE lpc'[q] \notin {"rows", "store"}
  BY <1>1 DEF LoadWhole
<1>2. CASE lpc'[q] = lpc[q] /\ rows'[q] = rows[q] /\ newCC'[q] = newCC[q]
  <2>1. ASSUME NEW t \in versions, Reads(q, t) PROVE Reads(q, t)'
    BY <1>2, <2>1 DEF Reads
  <2>2. lpc'[q] = "rows" => \E t \in versions' : Reads(q, t)'
    BY <1>2, <2>1 DEF LoadWhole
  <2>3. lpc'[q] = "store" /\ ~cut' => \E t \in versions' : newCC'[q] = Selected(t)
    BY <1>2 DEF LoadWhole
  <2> QED BY <2>2, <2>3 DEF LoadWhole
<1> QED BY <1>1, <1>2

\* The installed map stays a version as long as nothing is installed.
LEMMA SameConfig ==
  ASSUME ConfigWhole, cc' = cc, cut => cut', versions \subseteq versions'
  PROVE  ConfigWhole'
BY DEF ConfigWhole

\* A step of the database, of the table or of the context leaves the loads
\* alone and forgets no version.
LEMMA OutsideLoads ==
  ASSUME IInv, UNCHANGED <<cc, lpc, rows, newCC, cut>>, versions \subseteq versions'
  PROVE  LoadsWhole' /\ ConfigWhole'
<1>1. ASSUME NEW q \in Loaders PROVE LoadWhole(q)'
  BY OtherLoad DEF IInv, LoadsWhole
<1> QED BY <1>1, SameConfig DEF IInv, LoadsWhole

\* A step that only ends a load.
LEMMA EndsLoad ==
  ASSUME IInv, NEW p \in Loaders, NEW pt \in {"idle", "wait", "query", "ended"},
         Goto(p, pt), UNCHANGED <<rows, newCC, cut, versions>>
  PROVE  LoadsWhole' /\ (cc' = cc => ConfigWhole')
<1>1. ASSUME NEW q \in Loaders PROVE LoadWhole(q)'
  <2>1. lpc'[q] \notin {"rows", "store"} \/ lpc'[q] = lpc[q]
    BY DEF Goto, IInv, TypeOK
  <2>2. LoadWhole(q)
    BY DEF IInv, LoadsWhole
  <2> QED BY <2>1, <2>2, OtherLoad
<1> QED BY <1>1, SameConfig DEF IInv, LoadsWhole

\* The statement sees the current version.
LEMMA QueryWhole ==
  ASSUME IInv, NEW p \in Loaders, Query(p)
  PROVE  TypeOK' /\ LoadsWhole' /\ ConfigWhole'
<1> USE DEF dbVars, envVars
<1>1. CASE /\ sess[p] # 0 /\ sess[p] = conn
           /\ rows' = [rows EXCEPT ![p] = Selected(table)]
           /\ newCC' = [newCC EXCEPT ![p] = Nothing]
           /\ Goto(p, "rows")
           /\ UNCHANGED faults
  <2>1. UNCHANGED <<table, versions, changes, conn, opens, mpc, cc, sess, cut, ctxDone>>
    BY DEF Query
  <2>2. rows'[p] = Selected(table) /\ newCC'[p] = Nothing /\ lpc'[p] = "rows"
    BY <1>1 DEF IInv, TypeOK, Goto
  <2>3. \A q \in Loaders \ {p} : rows'[q] = rows[q] /\ newCC'[q] = newCC[q] /\ lpc'[q] = lpc[q]
    BY <1>1 DEF IInv, TypeOK, Goto
  <2>4. table \in Tables /\ table \in versions
    BY DEF IInv, TypeOK
  <2>5. TypeOK'
    <3>1. Selected(table) \in Maps /\ Nothing \in Maps
      BY <2>4, SelectedRows, NothingShape
    <3>2. rows' \in [Loaders -> Maps] /\ newCC' \in [Loaders -> Maps]
      BY <1>1, <3>1 DEF IInv, TypeOK
    <3> QED BY <1>1, <2>1, <3>2 DEF IInv, TypeOK, Goto
  <2>6. Reads(p, table)'
    BY <2>1, <2>2, <2>4, SelectedRows, NothingShape DEF Reads
  <2>7. LoadWhole(p)'
    BY <2>1, <2>2, <2>4, <2>6 DEF LoadWhole
  <2>8. LoadsWhole'
    BY <2>1, <2>3, <2>7, OtherLoad DEF IInv, LoadsWhole
  <2> QED BY <2>1, <2>5, <2>8, SameConfig DEF IInv
<1>2. CASE /\ \/ (sess[p] = 0 \/ sess[p] # conn) /\ UNCHANGED faults
              \/ Fault
           /\ EndLoad(p) /\ UNCHANGED <<rows, newCC>>
  <2>1. PICK pt \in {"idle", "wait"} : Goto(p, pt)
    BY <1>2 DEF EndLoad
  <2>2. TypeOK'
    BY <1>2, <2>1, BoundsAssumption DEF Query, IInv, TypeOK, Goto, Fault
  <2> QED BY <1>2, <2>1, <2>2, EndsLoad DEF Query
<1> QED BY <1>1, <1>2 DEF Query

\* A row moves from the rows to be read to the new map.
LEMMA NextRowWhole ==
  ASSUME IInv, NEW p \in Loaders, NextRow(p)
  PROVE  TypeOK' /\ LoadsWhole' /\ ConfigWhole'
<1> USE DEF dbVars, envVars
<1>1. ASSUME NEW k \in DOMAIN rows[p],
             newCC' = [newCC EXCEPT ![p] =
               [j \in DOMAIN @ \cup {k} |-> IF j = k THEN rows[p][k] ELSE @[j]]],
             rows' = [rows EXCEPT ![p] = Restrict(@, DOMAIN @ \ {k})],
             UNCHANGED <<lpc, faults>>
      PROVE  TypeOK' /\ LoadsWhole' /\ ConfigWhole'
  <2> DEFINE m == newCC[p]
             r == rows[p]
  <2>1. UNCHANGED <<table, versions, changes, conn, opens, mpc, cc, sess, cut, ctxDone, lpc, faults>>
    BY <1>1 DEF NextRow
  <2>2. m \in Maps /\ r \in Maps
    BY DEF IInv, TypeOK
  <2>3. /\ newCC'[p] = [j \in DOMAIN m \cup {k} |-> IF j = k THEN r[k] ELSE m[j]]
        /\ rows'[p] = [j \in DOMAIN r \ {k} |-> r[j]]
    BY <1>1 DEF IInv, TypeOK, Restrict
  <2>4. \A q \in Loaders \ {p} : rows'[q] = rows[q] /\ newCC'[q] = newCC[q]
    BY <1>1 DEF IInv, TypeOK
  <2>5. newCC'[p] \in Maps /\ rows'[p] \in Maps
    <3>1. /\ DOMAIN m \subseteq Keys /\ DOMAIN r \subseteq Keys
          /\ \A j \in DOMAIN m : m[j] \in Values
          /\ \A j \in DOMAIN r : r[j] \in Values
      BY <2>2, MapShape
    <3>2. /\ DOMAIN newCC'[p] = DOMAIN m \cup {k} /\ DOMAIN rows'[p] = DOMAIN r \ {k}
          /\ newCC'[p] = [j \in DOMAIN newCC'[p] |-> newCC'[p][j]]
          /\ rows'[p] = [j \in DOMAIN rows'[p] |-> rows'[p][j]]
      BY <2>3
    <3>3. /\ \A j \in DOMAIN newCC'[p] : newCC'[p][j] \in Values
          /\ \A j \in DOMAIN rows'[p] : rows'[p][j] \in Values
      BY <1>1, <2>3, <3>1
    <3>4. DOMAIN newCC'[p] \subseteq Keys /\ DOMAIN rows'[p] \subseteq Keys
      BY <1>1, <3>1, <3>2
    <3> QED BY <3>2, <3>3, <3>4, MapShape
  <2>6. TypeOK'
    <3>1. rows' \in [Loaders -> Maps] /\ newCC' \in [Loaders -> Maps]
      BY <1>1, <2>4, <2>5 DEF IInv, TypeOK
    <3> QED BY <2>1, <3>1 DEF IInv, TypeOK
  <2>7. ASSUME NEW t \in versions, Reads(p, t) PROVE Reads(p, t)'
    <3>1. /\ DOMAIN newCC'[p] = DOMAIN m \cup {k} /\ DOMAIN rows'[p] = DOMAIN r \ {k}
          /\ \A j \in DOMAIN newCC'[p] : newCC'[p][j] = IF j = k THEN r[k] ELSE m[j]
          /\ \A j \in DOMAIN rows'[p] : rows'[p][j] = r[j]
      BY <2>3
    <3>2. DOMAIN newCC'[p] \cup DOMAIN rows'[p] = DOMAIN m \cup DOMAIN r
      BY <1>1, <3>1
    <3>3. \A j \in DOMAIN newCC'[p] : newCC'[p][j] = t[j]
      BY <1>1, <2>7, <3>1 DEF Reads
    <3>4. \A j \in DOMAIN rows'[p] : rows'[p][j] = t[j]
      BY <2>7, <3>1 DEF Reads
    <3> QED BY <2>7, <3>2, <3>3, <3>4 DEF Reads
  <2>8. LoadWhole(p)'
    <3>1. lpc[p] = "rows" /\ LoadWhole(p)
      BY DEF NextRow, IInv, LoadsWhole
    <3> QED BY <2>1, <2>7, <3>1 DEF LoadWhole
  <2>9. LoadsWhole'
    BY <2>1, <2>4, <2>8, OtherLoad DEF IInv, LoadsWhole
  <2> QED BY <2>1, <2>6, <2>9, SameConfig DEF IInv
<1>2. CASE DOMAIN rows[p] # {} /\ Fault /\ EndLoad(p) /\ UNCHANGED <<rows, newCC>>
  <2>1. PICK pt \in {"idle", "wait"} : Goto(p, pt)
    BY <1>2 DEF EndLoad
  <2>2. TypeOK'
    BY <1>2, <2>1, BoundsAssumption DEF NextRow, IInv, TypeOK, Goto, Fault
  <2> QED BY <1>2, <2>1, <2>2, EndsLoad DEF NextRow
<1> QED BY <1>1, <1>2 DEF NextRow

\* After the last row the new map is the version that was read; otherwise the
\* iteration broke off.
LEMMA LastRowWhole ==
  ASSUME IInv, NEW p \in Loaders, LastRow(p)
  PROVE  TypeOK' /\ LoadsWhole' /\ ConfigWhole'
<1> USE DEF dbVars, envVars
<1>1. UNCHANGED <<table, versions, changes, conn, opens, mpc, cc, sess, rows, newCC, ctxDone>>
  BY DEF LastRow
<1>2. lpc[p] = "rows" /\ lpc' = [lpc EXCEPT ![p] = "store"]
  BY DEF LastRow, Goto
<1>3. faults' \in 0..MaxFaults /\ cut' \in BOOLEAN /\ (cut => cut')
        /\ (~cut' => DOMAIN rows[p] = {})
  <2>1. CASE DOMAIN rows[p] = {} /\ UNCHANGED <<faults, cut>>
    BY <2>1 DEF IInv, TypeOK
  <2>2. CASE DOMAIN rows[p] # {} /\ Fault /\ cut' = TRUE
    <3>1. faults' \in 0..MaxFaults
      BY <2>2, BoundsAssumption DEF Fault, IInv, TypeOK
    <3>2. cut' = TRUE
      BY <2>2
    <3>3. cut' \in BOOLEAN
      BY <3>2
    <3>4. cut => cut'
      BY <3>2
    <3>5. ~cut' => DOMAIN rows[p] = {}
      BY <3>2
    <3> QED BY <3>1, <3>3, <3>4, <3>5, Zenon
  <2> QED BY <2>1, <2>2 DEF LastRow
<1>4. TypeOK'
  BY <1>1, <1>2, <1>3 DEF IInv, TypeOK
<1>5. ~cut' => \E t \in versions : newCC[p] = Selected(t)
  <2> SUFFICES ASSUME ~cut' PROVE \E t \in versions : newCC[p] = Selected(t)
    OBVIOUS
  <2>1. PICK t \in versions : Reads(p, t)
    BY <1>2, <1>3 DEF IInv, LoadsWhole, LoadWhole
  <2>2. t \in Tables /\ newCC[p] \in Maps
    BY DEF IInv, TypeOK
  <2>3. DOMAIN newCC[p] = DOMAIN Selected(t)
    BY <1>3, <2>1 DEF Reads
  <2>4. newCC[p] = [k \in DOMAIN newCC[p] |-> newCC[p][k]]
    BY <2>2, MapShape
  <2>5. Selected(t) = [k \in DOMAIN Selected(t) |-> t[k]]
    BY <2>2, SelectedRows
  <2>6. newCC[p] = Selected(t)
    BY <2>1, <2>3, <2>4, <2>5 DEF Reads
  <2> QED BY <2>6
<1>6. LoadsWhole'
  <2>1. lpc'[p] = "store" /\ \A q \in Loaders \ {p} : lpc'[q] = lpc[q]
    BY <1>2 DEF IInv, TypeOK
  <2>2. LoadWhole(p)'
    BY <1>1, <1>5, <2>1 DEF LoadWhole
  <2> QED BY <1>1, <1>3, <2>1, <2>2, OtherLoad DEF IInv, LoadsWhole
<1> QED BY <1>1, <1>3, <1>4, <1>6, SameConfig DEF IInv

-----------------------------------------------------------------------------
\* Every step keeps the loads and the installed map whole.
LEMMA IInvStep == IInv /\ [Next]_vars => IInv'
<1> SUFFICES ASSUME IInv, [Next]_vars PROVE IInv'
  OBVIOUS
<1> USE BoundsAssumption DEF dbVars, loadVars, envVars
<1>1. CASE Open \/ Dial \/ Redial \/ Cancel
  <2>1. TypeOK'
    <3>1. CASE Open
      BY <3>1 DEF Open, IInv, TypeOK
    <3>2. CASE Dial
      BY <3>2 DEF Dial, Fault, IInv, TypeOK
    <3>3. CASE Redial
      BY <3>3 DEF Redial, IInv, TypeOK
    <3>4. CASE Cancel
      BY <3>4 DEF Cancel, IInv, TypeOK
    <3> QED BY <1>1, <3>1, <3>2, <3>3, <3>4
  <2>2. UNCHANGED <<cc, lpc, sess, rows, newCC, cut, table, versions>>
    BY <1>1 DEF Open, Dial, Redial, Cancel
  <2> QED BY <2>1, <2>2, OutsideLoads DEF IInv
<1>2. CASE ChangeTable
  <2>1. TypeOK' /\ table' \in versions'
    BY <1>2 DEF ChangeTable, IInv, TypeOK
  <2>2. UNCHANGED <<cc, lpc, sess, rows, newCC, cut>> /\ versions \subseteq versions'
    BY <1>2 DEF ChangeTable
  <2> QED BY <2>1, <2>2, OutsideLoads DEF IInv
<1>3. CASE TimerAction
  <2>1. PICK pt \in {"idle", "ended"} : Goto(Timer, pt)
    BY <1>3 DEF TimerAction
  <2>2. Timer \in Loaders
    BY DEF Loaders
  <2>3. UNCHANGED <<cc, rows, newCC, cut, versions, table>>
    BY <1>3 DEF TimerAction
  <2>4. TypeOK'
    BY <1>3, <2>1, <2>2 DEF TimerAction, IInv, TypeOK, Goto
  <2> QED BY <2>1, <2>2, <2>3, <2>4, EndsLoad DEF IInv
<1>4. ASSUME NEW p \in Loaders, NewSession(p) PROVE IInv'
  <2>1. Goto(p, "query") /\ UNCHANGED <<cc, rows, newCC, cut, versions, table>>
    BY <1>4 DEF NewSession
  <2>2. TypeOK'
    BY <1>4 DEF NewSession, IInv, TypeOK, Goto
  <2> QED BY <2>1, <2>2, EndsLoad DEF IInv
<1>5. ASSUME NEW p \in Loaders, Query(p) PROVE IInv'
  BY <1>5, QueryWhole DEF Query, IInv
<1>6. ASSUME NEW p \in Loaders, NextRow(p) PROVE IInv'
  BY <1>6, NextRowWhole DEF NextRow, IInv
<1>7. ASSUME NEW p \in Loaders, LastRow(p) PROVE IInv'
  BY <1>7, LastRowWhole DEF LastRow, IInv
<1>8. ASSUME NEW p \in Loaders, Store(p) PROVE IInv'
  <2>1. PICK pt \in {"idle", "wait"} : Goto(p, pt)
    BY <1>8 DEF Store, EndLoad
  <2>2. cc' = newCC[p] /\ UNCHANGED <<sess, rows, newCC, cut, versions, table>>
    BY <1>8 DEF Store
  <2>3. TypeOK'
    BY <1>8, <2>1, <2>2 DEF Store, IInv, TypeOK, Goto
  <2>4. LoadsWhole'
    BY <2>1, <2>2, EndsLoad
  <2>5. ConfigWhole'
    BY <1>8, <2>2 DEF Store, IInv, LoadsWhole, LoadWhole, ConfigWhole
  <2> QED BY <2>2, <2>3, <2>4, <2>5 DEF IInv
<1>9. CASE UNCHANGED vars
  <2>1. TypeOK'
    BY <1>9 DEF vars, IInv, TypeOK
  <2> QED BY <1>9, <2>1, OutsideLoads DEF vars, IInv
<1> QED
  BY <1>1, <1>2, <1>3, <1>4, <1>5, <1>6, <1>7, <1>8, <1>9 DEF Next, LoadStep

\* For any keys, values and callers of UpdateDBF, any changes of the table,
\* failures and replaced connections: readers never see half a reload, unless
\* an iteration broke off without an error that Load would see.
THEOREM ConfigWholeAlways == Spec => [](TypeOK /\ ConfigWhole)
<1>1. Init => IInv
  <2> SUFFICES ASSUME Init PROVE IInv
    OBVIOUS
  <2>1. TypeOK
    <3>1. /\ rows \in [Loaders -> Maps] /\ newCC \in [Loaders -> Maps] /\ cc \in Maps
      BY NothingShape DEF Init
    <3>2. /\ conn \in 0..MaxOpens /\ opens \in 0..MaxOpens
          /\ sess \in [Loaders -> 0..MaxOpens]
          /\ changes \in 0..MaxChanges /\ faults \in 0..MaxFaults
      BY BoundsAssumption DEF Init
    <3> QED BY <3>1, <3>2 DEF Init, TypeOK
  <2>2. LoadsWhole /\ table \in versions /\ ConfigWhole
    BY DEF Init, LoadsWhole, LoadWhole, ConfigWhole
  <2> QED BY <2>1, <2>2 DEF IInv
<1> QED
  BY <1>1, IInvStep, PTL DEF Spec, IInv
=============================================================================
