--------------------------- MODULE MeasurementStats ---------------------------
(***************************************************************************)
(* The statistics of a measurement sensor under correction and undo, with  *)
(* the recorder compiling new buckets as time passes: each adapter's       *)
(* _recompute_measurement_statistics and _restore_statistics.              *)
(***************************************************************************)
EXTENDS RecordedSensor

Row == [mean : Int \cup {Null}, min : Readings \cup {Null}, max : Readings \cup {Null}]

Correction == [ts : Times, orig : Readings \cup {Unavailable}, corrected : Readings,
               short : Row, hour : Row, restored : BOOLEAN]

\* Every column holds a value of its kind, and no statistics row exists that
\* the recorder has not compiled: the add-on updates rows, it adds none.
TypeOK ==
  /\ TablesOK(Row)
  /\ \A i \in DOMAIN audit : audit[i] \in Correction

-----------------------------------------------------------------------------
Rebuilt(rows, start) == RecomputeShortTerm(ReadingsWith(rows, start, start + Width), start)

\* The short-term rows an hour is summarised from; when they have been
\* purged, buckets rebuilt from whatever readings are left.
Siblings(rows, table, hour) ==
  LET kept == Within(table, hour, hour + Hour)
      raw == {s \in SubBuckets(hour) : DOMAIN ReadingsWith(rows, s, s + Width) # {}}
  IN  IF DOMAIN kept # {} THEN kept ELSE [s \in raw |-> Rebuilt(rows, s)]

-----------------------------------------------------------------------------
\* The recorder compiles the next bucket that is over, and with the last of
\* an hour the hour.  A bucket with nothing in it gets a row of NULLs, or none.
Compile ==
  /\ compiled + Width <= now
  /\ LET row == Rebuilt(states, compiled)
         hour == HourOf(compiled)
     IN  \E table \in {Put(short, compiled, row)} \cup (IF row = NoReading THEN {short} ELSE {}) :
           LET buckets == Within(table, hour, hour + Hour)
           IN  /\ short' = table
               /\ hourly' = IF compiled + Width = hour + Hour /\ DOMAIN buckets # {}
                            THEN Put(hourly, hour, SummariseHourly(buckets))
                            ELSE hourly
  /\ compiled' = compiled + Width
  /\ UNCHANGED <<now, states, audit>>

\* Mutant: a reading is carried no further than its own bucket.
OwnBucket(ts) == {BucketStart(ts, Width)}

\* affected_starts: the bucket of the reading and the next one, into which
\* it may have been carried.
AffectedStarts(ts) == {BucketStart(ts, Width), BucketStart(ts, Width) + Width}

\* Mutant: only the hour of the reading is summarised again.
OwnHour(ts) == {HourOf(ts)}

\* The two buckets can straddle an hour boundary.
AffectedHours(ts) == {HourOf(s) : s \in AffectedStarts(ts)}

\* Mutant: the second bucket's values overwrite the first one's.
OriginalOfLast(table, start) ==
  IF start + Width \in DOMAIN table THEN table[start + Width]
  ELSE IF start \in DOMAIN table THEN table[start] ELSE NoReading

\* originals, originals_hourly: of the reading's own bucket and hour only.
Original(table, start) == IF start \in DOMAIN table THEN table[start] ELSE NoReading

\* _apply_one_correction with _recompute_measurement_statistics.
Correct(ts, new) ==
  /\ Cardinality(DOMAIN audit) < MaxCorrections
  /\ ts \in DOMAIN states
  /\ LET rows == Put(states, ts, new)
         table == Updated(short, [s \in AffectedStarts(ts) |-> Rebuilt(rows, s)])
     IN  /\ states' = rows
         /\ short' = table
         /\ hourly' = Updated(hourly, [h \in AffectedHours(ts) |-> SummariseHourly(Siblings(rows, table, h))])
         /\ audit' = Put(audit, Cardinality(DOMAIN audit) + 1,
                         [ts |-> ts, orig |-> states[ts], corrected |-> new,
                          short |-> Original(short, BucketStart(ts, Width)),
                          hour |-> Original(hourly, HourOf(ts)),
                          restored |-> FALSE])
  /\ UNCHANGED <<now, compiled>>

\* restore_correction with _restore_statistics.
Restore(i) ==
  /\ ~audit[i].restored
  /\ audit[i].ts \in DOMAIN states
  /\ states[audit[i].ts] = audit[i].corrected
  /\ states' = Put(states, audit[i].ts, audit[i].orig)
  /\ short' = Updated(short, [s \in {BucketStart(audit[i].ts, Width)} |-> audit[i].short])
  /\ hourly' = Updated(hourly, [h \in {HourOf(audit[i].ts)} |-> audit[i].hour])
  /\ audit' = [audit EXCEPT ![i].restored = TRUE]
  /\ UNCHANGED <<now, compiled>>

Next ==
  \/ \E v \in Readings \cup {Unavailable, Nothing} : Report(v)
  \/ Compile
  \/ \E cut \in PurgeCuts : Purge(cut)
  \/ \E ts \in Times, new \in Readings : Correct(ts, new)
  \/ \E i \in DOMAIN audit : Restore(i)

Spec == Init /\ [][Next]_vars

-----------------------------------------------------------------------------
(***************************************************************************)
(* Reading a row against the readings needs the reading carried into its   *)
(* bucket: it may have been purged, and a correction reaches no further    *)
(* than the next bucket, so a reading carried across a whole silent bucket *)
(* is left out here (README, "what the statistics miss").                  *)
(***************************************************************************)
CarryKnown(start) == start = 0 \/ \E t \in CarriedIn(states, start) : t >= start - Width

Touching(start) == {i \in DOMAIN audit : start \in AffectedStarts(audit[i].ts)}

DescribesReadings(start) == short[start] = Rebuilt(states, start)

\* Nothing of the hour has been purged: its first bucket is still there.
WholeHour(hour) == hour \in DOMAIN short

\* time_weighted_mean's running accumulation is the average the docstring
\* defines, over every window of readings the adapters can ask it about.
MeanIsByTheUnit ==
  \A s \in Starts :
    LET rows == ReadingsWith(states, s, s + Width)
    IN  DOMAIN rows # {} => TimeWeightedMean(rows, s, s + Width) = MeanByTheUnit(rows, s, s + Width)

\* A 5-minute row no correction was restored in is what the recorder would
\* have compiled from the readings as they are now, however many of them,
\* in it or in the bucket before, were corrected and in whatever order.
RebuiltRowsDescribeReadings ==
  \A s \in DOMAIN short :
    CarryKnown(s) /\ (\A i \in Touching(s) : ~audit[i].restored) => DescribesReadings(s)

\* An hour no correction was restored in is the average of the 5-minute rows
\* it covers, also after a correction at the end of the hour before it.
HourlySummarises ==
  \A h \in DOMAIN hourly :
    WholeHour(h) /\ (\A s \in SubBuckets(h), i \in DOMAIN audit : i \in Touching(s) => ~audit[i].restored)
      => hourly[h] = SummariseHourly(Within(short, h, h + Hour))

\* A correction that was the only one to touch its bucket, made after the
\* bucket was compiled, leaves it as it found it once restored; and its hour,
\* when it was the only one of the hour.
RestoredRowDescribesReadings ==
  \A i \in {j \in DOMAIN audit : audit[j].restored} :
    LET s == BucketStart(audit[i].ts, Width)
        h == HourOf(audit[i].ts)
        alone(buckets) == \A x \in buckets : Touching(x) \subseteq {i} /\ CarryKnown(x)
    IN  /\ (s \in DOMAIN short /\ audit[i].short # NoReading /\ alone({s})) => DescribesReadings(s)
        /\ (WholeHour(h) /\ audit[i].hour # NoReading /\ alone(SubBuckets(h)))
             => hourly[h] = SummariseHourly([x \in DOMAIN Within(short, h, h + Hour) |-> Rebuilt(states, x)])

\* hr_mariadb.py:1457, a restore puts the rows of a correction back: once every
\* correction is restored, all of them made after the buckets they touched
\* were compiled, the 5-minute rows describe the readings again.  The code does
\* not keep this claim (README, section 4); added to measurement.cfg, it is
\* violated.
UndoneStatisticsDescribeReadings ==
  (\A i \in DOMAIN audit : audit[i].restored /\ audit[i].short # NoReading)
    => \A s \in DOMAIN short : CarryKnown(s) => DescribesReadings(s)
=============================================================================
