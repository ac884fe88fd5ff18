----------------------------- MODULE LogTables -----------------------------
(* Log tables with one table a day (dbutils/dbsession.go): every check makes *)
(* the tables of today and tomorrow and drops those of the days before the   *)
(* ones that are kept.  A day is a number, tables is the set of days that    *)
(* have a table.  Services that share a database run their checks at the     *)
(* same time; the clock goes on while a check waits for the database.        *)
EXTENDS Integers

CONSTANTS
  Checkers,       \* services that check the tables
  RemainLogDays,  \* days that are kept before today (7)
  DropDays,       \* days before those that a check looks at (90)
  FirstDay,       \* the day on which the database is set up
  LastDay         \* bound of the clock

ASSUME LogTablesAssumption ==
  RemainLogDays \in Nat /\ DropDays \in Nat /\ FirstDay \in Nat /\ LastDay \in Nat

VARIABLES
  today,
  tables,
  now,      \* per checker: the day read at the beginning of its check ...
  step,     \* ... the step it is at: 0 none, 1 and 2 create, the others drop
  pending,  \* ... and whether its statement is about to be executed
  ok,       \* history: the check has left none of the tables it was to drop
  made,     \* history: the days whose table a check has made
  late,     \* history: those that were no longer to be kept when they were made
  cleared   \* history: the last day of a complete check, see EndStep

logVars == <<today, tables, now, step, pending, ok, made, late, cleared>>

LogTypeOK ==
  /\ today \in Nat /\ cleared \in Nat
  /\ tables \subseteq Nat /\ made \subseteq Nat /\ late \subseteq Nat
  /\ now \in [Checkers -> Nat]
  /\ step \in [Checkers -> 0..(DropDays + 2)]
  /\ pending \in [Checkers -> BOOLEAN] /\ ok \in [Checkers -> BOOLEAN]

LogInit ==
  /\ today = FirstDay /\ cleared = FirstDay
  /\ tables = {} /\ made = {} /\ late = {}
  /\ now = [c \in Checkers |-> 0]
  /\ step = [c \in Checkers |-> 0]
  /\ pending = [c \in Checkers |-> FALSE]
  /\ ok = [c \in Checkers |-> FALSE]

Creates(c) == step[c] \in {1, 2}

\* Mutants: the removals begin a day too early, or a day too late.
IsDayEarly(c, d) ==
  IF Creates(c) THEN d = now[c] + step[c] - 1 ELSE d + RemainLogDays + step[c] - 3 = now[c]
IsDayLate(c, d) ==
  IF Creates(c) THEN d = now[c] + step[c] - 1 ELSE d + RemainLogDays + 2 + step[c] - 3 = now[c]

\* The day that a step is about: today, tomorrow, then RemainLogDays + 1 days
\* ago and one day further back with every step.
IsDay(c, d) ==
  IF Creates(c) THEN d = now[c] + step[c] - 1 ELSE d + RemainLogDays + 1 + step[c] - 3 = now[c]

Exists(c) == \E d \in tables : IsDay(c, d)

\* To the next step.  The check is complete if none of the tables it was to
\* drop is left; cleared moves on to its day if the complete check before it
\* is no further back than a check looks.
EndStep(c, done) ==
  /\ pending' = [pending EXCEPT ![c] = FALSE]
  /\ ok' = [ok EXCEPT ![c] = @ /\ done]
  /\ step' = [step EXCEPT ![c] = IF @ = DropDays + 2 THEN 0 ELSE @ + 1]
  /\ cleared' = IF /\ step[c] = DropDays + 2 /\ ok[c] /\ done
                   /\ cleared < now[c] /\ now[c] <= cleared + DropDays
                THEN now[c] ELSE cleared

\* CheckLogTable, up to time.Now(), once the table to copy has been read.
BeginCheck(c) ==
  /\ step[c] = 0
  /\ now' = [now EXCEPT ![c] = today]
  /\ step' = [step EXCEPT ![c] = 1]
  /\ ok' = [ok EXCEPT ![c] = TRUE]
  /\ UNCHANGED <<today, tables, pending, made, late, cleared>>

\* CheckTableExists: a table to make is there, or one to drop is not.
NothingToDo(c) ==
  /\ step[c] # 0 /\ ~pending[c] /\ (Creates(c) <=> Exists(c))
  /\ EndStep(c, TRUE)
  /\ UNCHANGED <<today, tables, now, made, late>>

\* The other way round, a statement is executed next.
Prepare(c) ==
  /\ step[c] # 0 /\ ~pending[c] /\ ~(Creates(c) <=> Exists(c))
  /\ pending' = [pending EXCEPT ![c] = TRUE]
  /\ UNCHANGED <<today, tables, now, step, ok, made, late, cleared>>

\* The query failed: CheckError panics, which ends the check.
QueryFails(c) ==
  /\ step[c] # 0 /\ ~pending[c]
  /\ step' = [step EXCEPT ![c] = 0]
  /\ UNCHANGED <<today, tables, now, pending, ok, made, late, cleared>>

\* "create table"; a table that another checker has made by now stays.
CreateTable(c) ==
  /\ pending[c] /\ Creates(c)
  /\ LET d == now[c] + step[c] - 1
     IN  /\ tables' = tables \cup {d}
         /\ made' = made \cup {d}
         /\ late' = IF d + RemainLogDays < today THEN late \cup {d} ELSE late
  /\ EndStep(c, TRUE)
  /\ UNCHANGED <<today, now>>

\* "drop table".
DropTable(c) ==
  /\ pending[c] /\ ~Creates(c)
  /\ tables' = {d \in tables : ~IsDay(c, d)}
  /\ EndStep(c, TRUE)
  /\ UNCHANGED <<today, now, made, late>>

\* The statement failed, which is ignored or logged.
ExecFails(c) ==
  /\ pending[c]
  /\ EndStep(c, Creates(c) \/ ~Exists(c))
  /\ UNCHANGED <<today, tables, now, made, late>>

NextDay ==
  /\ today < LastDay
  /\ today' = today + 1
  /\ UNCHANGED <<tables, now, step, pending, ok, made, late, cleared>>

LogNext ==
  \/ \E c \in Checkers :
       \/ BeginCheck(c) \/ NothingToDo(c) \/ Prepare(c) \/ QueryFails(c)
       \/ CreateTable(c) \/ DropTable(c) \/ ExecFails(c)
  \/ NextDay

LogSpec == LogInit /\ [][LogNext]_logVars
-----------------------------------------------------------------------------
\* The table of a day to keep stays once it is made: no check drops it,
\* however long the check takes and whatever other checks do meanwhile.
RecentKept == \A d \in made : d + RemainLogDays >= today => d \in tables

\* No table is left from before the days that were to be kept when the last
\* complete check began, whichever checks failed before or after it, unless
\* a check hung for so long that it made a table of a day gone by.
OldGone == \A d \in tables \ late : d + RemainLogDays >= cleared

\* CheckLogTable keeps the tables of the days to keep and leaves no others.
LogRotation == RecentKept /\ OldGone
=============================================================================
