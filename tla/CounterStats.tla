----------------------------- MODULE CounterStats -----------------------------
(***************************************************************************)
(* The statistics of a counter (a total_increasing meter) under correction *)
(* and undo: each adapter's _cascade_table and                             *)
(* _recompute_counter_statistics.  A statistics row holds the meter        *)
(* reading its bucket ended on and the total consumed so far, so a         *)
(* correction rewrites every later row.                                    *)
(***************************************************************************)
EXTENDS RecordedSensor

CONSTANT Outages   \* starts of buckets the recorder may have no row for

ASSUME OutagesAssumption == Outages \subseteq Nat

Row == [state : Readings, sum : Int]

Correction == [ts : Times, orig : Readings \cup {Unavailable}, corrected : Readings, restored : BOOLEAN]

\* Every column holds a value of its kind, and no statistics row exists that
\* the recorder has not compiled: a cascade updates rows, it adds none.
TypeOK ==
  /\ TablesOK(Row)
  /\ \A i \in DOMAIN audit : audit[i] \in Correction

-----------------------------------------------------------------------------
Last(f) == f[Max(DOMAIN f)]

NoRow == [state |-> Null, sum |-> 0]

\* What a chain is picked up from; nothing known is the zero point.
LastRow(f) == IF DOMAIN f = {} THEN NoRow ELSE Last(f)

Meter(table) == [s \in DOMAIN table |-> table[s].state]

\* _last_reading_in: the meter reading a bucket ends on.
LastReadingIn(rows, start, end) ==
  LET inside == Within(ReadingsWith(rows, start, end), start, end)
  IN  IF DOMAIN inside = {} THEN Null ELSE Last(inside)

\* Mutant: the corrected bucket counts from the zero point.
PreviousOfNothing(table, from, width) == NoRow

\* Where a chain is picked up: the row just before, none further back.
Previous(table, from, width) == LastRow(Within(table, from - width, from))

\* Mutant: the corrected bucket keeps its reading.
MeterUnchanged(tail, reading) == Meter(tail)

\* Mutant: without the check for None.
MeterUnguarded(tail, reading) == [s \in DOMAIN tail |-> IF s = Min(DOMAIN tail) THEN reading ELSE tail[s].state]

\* The first row of the chain takes the corrected bucket's reading, every
\* later one keeps its own.
CorrectedMeter(tail, reading) ==
  [s \in DOMAIN tail |-> IF s = Min(DOMAIN tail) /\ reading # Null THEN reading ELSE tail[s].state]

CascadeTable(rows, table, from) ==
  LET tail == Within(table, from, MaxTime)
      previous == Previous(table, from, Width)
      reading == LastReadingIn(rows, from, from + Width)
  IN  Updated(table, CascadeSums(CorrectedMeter(tail, reading), previous.state, previous.sum))

LastOfHour(table, hour) == Last(Within(table, hour, hour + Hour))

Covered(table, hour) == DOMAIN Within(table, hour, hour + Hour) # {}

\* The hourly rows from an hour on are copies of the last 5-minute row of
\* theirs; those whose 5-minute rows are gone are one chain of their own.
RecomputeHourly(table, rows, hour) ==
  LET tail == Within(rows, hour, MaxTime)
      covered == {h \in DOMAIN tail : Covered(table, h)}
      fallback == [h \in DOMAIN tail \ covered |-> tail[h].state]
      previous == Previous(rows, hour, Hour)
      chain == CascadeSums(fallback, previous.state, previous.sum)
  IN  Updated(rows, [h \in DOMAIN tail |-> IF h \in covered THEN LastOfHour(table, h) ELSE chain[h]])

\* Mutant: the hourly rows are copied before the 5-minute ones are rebuilt.
RecomputeHourlyFirst(rows, ts) ==
  /\ short' = CascadeTable(rows, short, BucketStart(ts, Width))
  /\ hourly' = RecomputeHourly(short, hourly, HourOf(ts))

\* _recompute_counter_statistics.
Recompute(rows, ts) ==
  LET table == CascadeTable(rows, short, BucketStart(ts, Width))
  IN  /\ short' = table
      /\ hourly' = RecomputeHourly(table, hourly, HourOf(ts))

-----------------------------------------------------------------------------
(***************************************************************************)
(* The recorder.  It picks the total up from the last row it has, however  *)
(* old, and goes through the readings of the bucket one by one.  A bucket  *)
(* it heard nothing in ends on the reading carried into it, unless Home    *)
(* Assistant was stopped or the sensor unavailable all through it: then    *)
(* there is no row.                                                        *)
(***************************************************************************)
LastTotal == IF DOMAIN short # {} THEN Last(short) ELSE LastRow(hourly)

CompiledRow(start) ==
  Last(CascadeSums(ReadingsWith(states, start, start + Width), LastTotal.state, LastTotal.sum))

HourCompiled(table, start) ==
  IF start + Width = HourOf(start) + Hour /\ Covered(table, HourOf(start))
  THEN Put(hourly, HourOf(start), LastOfHour(table, HourOf(start)))
  ELSE hourly

Compile ==
  /\ compiled + Width <= now
  /\ LET heard == DOMAIN ReadingsWith(states, compiled, compiled + Width) # {}
         table == IF heard THEN Put(short, compiled, CompiledRow(compiled)) ELSE short
     IN  short' = table /\ hourly' = HourCompiled(table, compiled)
  /\ compiled' = compiled + Width
  /\ UNCHANGED <<now, states, audit>>

Miss ==
  /\ compiled + Width <= now
  /\ compiled \in Outages
  /\ LastReadingIn(states, compiled, compiled + Width) = Null
  /\ hourly' = HourCompiled(short, compiled)
  /\ compiled' = compiled + Width
  /\ UNCHANGED <<now, states, short, audit>>

\* _apply_one_correction.
Correct(ts, new) ==
  /\ Cardinality(DOMAIN audit) < MaxCorrections
  /\ ts \in DOMAIN states
  /\ states' = Put(states, ts, new)
  /\ Recompute(states', ts)
  /\ audit' = Put(audit, Cardinality(DOMAIN audit) + 1,
                  [ts |-> ts, orig |-> states[ts], corrected |-> new, restored |-> FALSE])
  /\ UNCHANGED <<now, compiled>>

\* restore_correction: the totals are worked out again, not put back.
Restore(i) ==
  /\ ~audit[i].restored
  /\ audit[i].ts \in DOMAIN states
  /\ states[audit[i].ts] = audit[i].corrected
  /\ states' = Put(states, audit[i].ts, audit[i].orig)
  /\ Recompute(states', audit[i].ts)
  /\ audit' = [audit EXCEPT ![i].restored = TRUE]
  /\ UNCHANGED <<now, compiled>>

Next ==
  \/ \E v \in Readings \cup {Unavailable, Nothing} : Report(v)
  \/ Compile
  \/ Miss
  \/ \E cut \in PurgeCuts : Purge(cut)
  \/ \E ts \in Times, new \in Readings : Correct(ts, new)
  \/ \E i \in DOMAIN audit : Restore(i)

Spec == Init /\ [][Next]_vars

-----------------------------------------------------------------------------
\* What the recorder makes of all readings before an instant, with no other
\* row to go by.
FromTheReadings(before) == Last(CascadeSums(ReadingsWith(states, 0, before), Null, 0))

(***************************************************************************)
(* A bucket whose increase shows in the readings it starts and ends on: it *)
(* holds one reading, or several without a reset, be it on the way or from *)
(* the first to the last.  A reset in the middle of a bucket is in the     *)
(* recorder's total and in no row, and two dips that are none by           *)
(* themselves are one in a row rebuilt (README, "what the statistics       *)
(* miss").                                                                 *)
(***************************************************************************)
Steady(start) ==
  LET rows == ReadingsWith(states, start, start + Width)
      before(t) == Max({u \in DOMAIN rows : u < t})
  IN  \/ Cardinality({t \in DOMAIN rows : start <= t}) = 1
      \/ /\ \E c \in CarriedIn(states, start) : ~IsReset(Last(rows), states[c])
         /\ \A t \in DOMAIN rows : start <= t => ~IsReset(rows[t], rows[before(t)])

\* ... that the recorder has a row for and heard its sensor in.
Plain(start) ==
  start \in DOMAIN short /\ Steady(start) /\ LastReadingIn(states, start, start + Width) # Null

\* While nothing is purged or missing and every bucket heard its sensor, any
\* sequence of corrections and restores, with the recorder compiling in
\* between, leaves every row what the recorder would have made of the
\* readings as they now are; in particular all restored give back the totals
\* there were.
TotalsAreTheRecorders ==
  (\A s \in Starts : s < compiled => Plain(s))
     => \A s \in DOMAIN short : short[s] = FromTheReadings(s + Width)

\* Purged or not, two neighbouring rows differ by what was consumed between
\* them, when the earlier one ends on the reading carried into the later.
NeighboursFollowReadings ==
  \A s \in DOMAIN short :
    LET rows == ReadingsWith(states, s, s + Width)
        earlier == Previous(short, s, Width)
    IN  Plain(s) /\ CarriedIn(states, s) # {} /\ earlier.state = states[Max(CarriedIn(states, s))]
          => short[s] = Last(CascadeSums(rows, earlier.state, earlier.sum))

\* Every hourly row is its last 5-minute row, also for hours far after a
\* corrected one.
HourlyCopiesShort ==
  \A h \in DOMAIN hourly : Covered(short, h) => hourly[h] = LastOfHour(short, h)

\* Two claims of the documentation that the code does not keep (README,
\* section 4); added to counter.cfg, each is violated.

\* DOCS.md:268, undoing a counter correction gives back exactly what was
\* there: with every correction restored, nothing purged, and the sensor
\* heard in every bucket that has a row, the rows are what the recorder
\* compiled.
UndoneTotalsAreIdentical ==
  (\A i \in DOMAIN audit : audit[i].restored) /\ (\A s \in DOMAIN short : Plain(s))
    => \A s \in DOMAIN short : short[s] = FromTheReadings(s + Width)

\* hr_mariadb.py:1023, later buckets keep their own reading because it is
\* still true: each row ends on the last reading before its bucket's end, if
\* that is not purged.
MeterReadingsAreTrue ==
  \A s \in DOMAIN short :
    LET rows == ReadingsWith(states, s, s + Width)
    IN  DOMAIN rows # {} => short[s].state = Last(rows)
=============================================================================
