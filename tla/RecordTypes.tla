---------------------------- MODULE RecordTypes ----------------------------
(* Times, dates and flags of database records and their text (dbutils/       *)
(* dbtype.go, StrToTime and its like in common/utils.go).  A time is the     *)
(* day, the second and the nanosecond that a clock shows in its zone; a text *)
(* has a day, a clock, or both.  A record with one field of each type is     *)
(* written and read again, any number of times and in any of the ways.       *)
EXTENDS Integers, Sequences

CONSTANTS
  Local,   \* the zone of the process
  Zones,   \* the zones that the time of a record may have
  Days,    \* the days of records ...
  NoDay,   \* ... and the day of a text without one
  Seconds,
  Nanos,
  Slices   \* bytes in the flag of a record that JSON is read into

ASSUME RecordAssumption ==
  /\ Local \in Zones /\ 0 \in Seconds /\ 0 \in Nanos
  /\ Slices \subseteq Seq(0..255)

VARIABLES
  stamp,    \* a DBTime
  date,     \* a DBDate
  flag,     \* a DBBool, the bytes of a bit(1)
  intFlag,  \* a DBIntBool
  text,     \* the record as text, once it has been written
  failed,   \* a reader could not read the text
  born,     \* history: the time and the flag that the record was made with
  kept,     \* history: the flag has never been read into an empty DBBool ...
  textKept  \* ... before the text was written

recordVars == <<stamp, date, flag, intFlag, text, failed, born, kept, textKept>>

Times == [day : Days, sec : Seconds, nano : Nanos, zone : Zones]

\* TimeToStr and DateToStr write what the clock shows, not its zone.
TimeToStr(t) == [day |-> <<t.day>>, clock |-> <<t.sec>>]
DateToStr(t) == [day |-> <<t.day>>, clock |-> <<>>]

\* time.ParseInLocation(layout, text, time.Local): <<>> when it does not fit.
ParseInLocation(hasDay, hasClock, s) ==
  IF (s.day # <<>>) # hasDay \/ (s.clock # <<>>) # hasClock THEN <<>>
  ELSE <<[day |-> IF hasDay THEN s.day[1] ELSE NoDay,
          sec |-> IF hasClock THEN s.clock[1] ELSE 0, nano |-> 0, zone |-> Local]>>

\* Mutant: a text without a clock is not tried.
ParseDateOrTimeOnce(s) == ParseInLocation(TRUE, TRUE, s)

\* A day and a clock or a day alone, as UnmarshalJSON tries them ...
ParseDateOrTime(s) ==
  IF ParseInLocation(TRUE, TRUE, s) # <<>> THEN ParseInLocation(TRUE, TRUE, s)
  ELSE ParseInLocation(TRUE, FALSE, s)

\* ... and StrToTime, which takes a clock alone as well and otherwise panics.
StrToTime(s) ==
  IF ParseDateOrTime(s) # <<>> THEN ParseDateOrTime(s) ELSE ParseInLocation(FALSE, TRUE, s)

DateFromTime(t) == [t EXCEPT !.sec = 0, !.nano = 0]
EachOf(f(_), ts) == [i \in 1..Len(ts) |-> f(ts[i])]

\* The ways to write a record as text (MarshalJSON and MarshalXML) and to read
\* it: UnmarshalJSON, UnmarshalXML, and Scan of a text from the database.  (A
\* time that the driver has made already is kept as it is, in a date as well.)
Ways == {"json", "xml", "scan"}
MarshalDBTime(t) == TimeToStr(t)
UnmarshalDBTime(way, s) == IF way = "json" THEN ParseDateOrTime(s) ELSE StrToTime(s)
MarshalDBDate(t) == DateToStr(t)
UnmarshalDBDate(way, s) == EachOf(DateFromTime, UnmarshalDBTime(way, s))

NewDBDate(t) == DateFromTime(t)

\* DBIntBool, an integer; DBBool, the bytes of a bit(1).
IntBoolOf(value) == IF value THEN 1 ELSE 0
IntBoolValue(bv) == bv # 0
BoolValue(bv) == bv # <<>> /\ bv[1] # 0

\* DBBool.UnmarshalJSON has no pointer: it reaches the first byte of the caller,
\* but what it appends to an empty slice is gone when it returns.
BoolUnmarshal(bv, value) == IF bv = <<>> THEN bv ELSE <<IntBoolOf(value)>> \o Tail(bv)

NoText == <<>>

RecordInit ==
  /\ born \in [time : Times, flag : BOOLEAN]
  /\ stamp = born.time /\ date = NewDBDate(born.time)
  /\ flag \in {<<IntBoolOf(born.flag)>>, <<>>} /\ (born.flag => flag # <<>>)
  /\ intFlag = IntBoolOf(born.flag)
  /\ text = NoText /\ failed = FALSE /\ kept = TRUE /\ textKept = TRUE

WriteRecord ==
  /\ text' = [stamp |-> MarshalDBTime(stamp), date |-> MarshalDBDate(date),
              flag |-> BoolValue(flag), intFlag |-> IntBoolValue(intFlag)]
  /\ textKept' = kept
  /\ UNCHANGED <<stamp, date, flag, intFlag, failed, born, kept>>

\* The time, and the date, from the text of a date or of a time.
ReadTimes(way, from) ==
  LET times == UnmarshalDBTime(way, text.stamp)
      dates == UnmarshalDBDate(way, text[from])
  IN  /\ text # NoText
      /\ IF times = <<>> \/ dates = <<>>
         THEN failed' = TRUE /\ UNCHANGED <<stamp, date>>
         ELSE stamp' = times[1] /\ date' = dates[1] /\ UNCHANGED failed
      /\ UNCHANGED <<flag, intFlag, text, born, kept, textKept>>

\* The flags, from JSON into a record whose flag has other bytes, or none yet.
ReadFlags(bytes) ==
  /\ text # NoText
  /\ flag' = BoolUnmarshal(bytes, text.flag)
  /\ intFlag' = IntBoolOf(text.intFlag)
  /\ kept' = (textKept /\ bytes # <<>>)
  /\ UNCHANGED <<stamp, date, text, failed, born, textKept>>

RecordNext ==
  \/ WriteRecord
  \/ \E way \in Ways, from \in {"stamp", "date"} : ReadTimes(way, from)
  \/ \E bytes \in Slices : ReadFlags(bytes)

RecordSpec == RecordInit /\ [][RecordNext]_recordVars
-----------------------------------------------------------------------------
\* However often a record is written and read, and in whichever ways: it can be
\* read; its text stays as it was; its clock shows the second it was made with,
\* its date the midnight of that day.  The zone is not written: a time of
\* another zone is read as the one at which the local clock shows the same, and
\* only that is kept of it.
TimesRoundTrip ==
  /\ ~failed
  /\ text # NoText => text.stamp = TimeToStr(born.time) /\ text.date = DateToStr(born.time)
  /\ stamp \in {born.time, [born.time EXCEPT !.nano = 0, !.zone = Local]}
  /\ date \in {[born.time EXCEPT !.sec = 0, !.nano = 0, !.zone = z] : z \in {born.time.zone, Local}}

\* A DBIntBool keeps its value.  A DBBool keeps it through every target that has
\* a byte for it; a target without one, such as that of a new record, reads as
\* false whatever the text says, and so does what is written from it.
FlagsRoundTrip ==
  /\ IntBoolValue(intFlag) = born.flag
  /\ BoolValue(flag) = (born.flag /\ kept)
  /\ text # NoText => text.intFlag = born.flag /\ text.flag = (born.flag /\ textKept)

\* What is kept of a record that is written and read again.
RecordRoundTrips == TimesRoundTrip /\ FlagsRoundTrip
=============================================================================
