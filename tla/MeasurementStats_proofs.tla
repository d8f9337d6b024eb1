----------------------- MODULE MeasurementStats_proofs -----------------------
(***************************************************************************)
(* The rows of a measurement, the mean they hold and what a restore puts   *)
(* back, for any widths, readings and bounds.                              *)
(***************************************************************************)
EXTENDS MeasurementStats, Tables_proofs, FiniteSetTheorems

LEMMA BucketBounds ==
  ASSUME NEW ts \in Nat
  PROVE  /\ BucketStart(ts, Width) \in Nat /\ BucketStart(ts, Width) % Width = 0
         /\ BucketStart(ts, Width) <= ts
         /\ HourOf(ts) \in Nat /\ HourOf(ts) % Hour = 0
         /\ HourOf(ts) <= BucketStart(ts, Width) /\ ts < HourOf(ts) + Hour
  BY GridStart, GridNested, WidthsAssumption DEF BucketStart, HourOf

LEMMA HourOfBucket ==
  ASSUME NEW h \in Nat, h % Hour = 0, NEW s \in Nat, h <= s, s < h + Hour
  PROVE  HourOf(s) = h
<1> DEFINE g == HourOf(s)
<1>1. g \in Nat /\ g % Hour = 0 /\ g <= s /\ s < g + Hour
  BY GridStart, WidthsAssumption DEF BucketStart, HourOf
<1> HIDE DEF g
<1>2. ASSUME g < h PROVE FALSE
  <2>1. g + Hour <= h
    BY <1>1, <1>2, GridGap, WidthsAssumption
  <2> QED
    BY <2>1, <1>1, WidthsAssumption
<1>3. ASSUME h < g PROVE FALSE
  <2>1. h + Hour <= g
    BY <1>1, <1>3, GridGap, WidthsAssumption
  <2> QED
    BY <2>1, <1>1, WidthsAssumption
<1>4. g = h
  BY <1>1, <1>2, <1>3
<1> QED
  BY <1>4 DEF g

\* The buckets that start within an hour are its sub-buckets.
LEMMA BucketOfHour ==
  ASSUME NEW h \in Nat, h % Hour = 0, NEW s \in Nat, s % Width = 0, h <= s, s < h + Hour
  PROVE  s \in SubBuckets(h)
<1>w. Width \in Nat \ {0} /\ Hour \in Nat \ {0} /\ Hour % Width = 0
  BY WidthsAssumption
<1>0. h % Width = 0
  BY <1>w, OnFinerGrid
<1> DEFINE p == s \div Width
           q == h \div Width
           n == Hour \div Width
<1>1. /\ s = Width * p /\ p \in Int
      /\ h = Width * q /\ q \in Int
      /\ Hour = Width * n /\ n \in Int
  BY <1>w, <1>0, DivisionFacts
<1> HIDE DEF p, q, n
<1>2. Width * (p - q) = s - h /\ s = h + Width * (p - q)
  BY <1>1, <1>w
<1>3. 0 <= p - q
  BY <1>1, <1>2, <1>w
<1>4. p - q < n
  BY <1>1, <1>2, <1>w
<1>5. p - q \in 0..(n - 1)
  BY <1>1, <1>3, <1>4
<1> QED
  BY <1>2, <1>5 DEF SubBuckets, n

-----------------------------------------------------------------------------
(***************************************************************************)
(* The invariant.  An hour has its row once all its buckets are compiled;  *)
(* a correction summarises every hour it rewrites a bucket of, and a       *)
(* restore writes to no hour but those its correction touched.             *)
(***************************************************************************)
ClockOK ==
  /\ now \in 0..MaxTime
  /\ compiled \in Nat /\ compiled % Width = 0 /\ compiled <= now

StartsOK ==
  /\ DOMAIN states \subseteq Nat
  /\ \A s \in DOMAIN short : s \in Nat /\ s % Width = 0 /\ s < compiled
  /\ \A h \in DOMAIN hourly : h \in Nat /\ h % Hour = 0 /\ h + Hour <= compiled

AuditOK ==
  /\ \E n \in Nat : DOMAIN audit = 1..n
  /\ \A i \in DOMAIN audit : {"ts", "restored"} \subseteq DOMAIN audit[i]

NoneRestored(h) ==
  \A s \in SubBuckets(h), i \in DOMAIN audit : s \in AffectedStarts(audit[i].ts) => ~audit[i].restored

SummaryOf(table, h) == SummariseHourly(Within(table, h, h + Hour))

HoursOK == \A h \in DOMAIN hourly : h \in DOMAIN short /\ NoneRestored(h) => hourly[h] = SummaryOf(short, h)

HoursInv == ClockOK /\ StartsOK /\ AuditOK /\ HoursOK

LEMMA HoursOKIs == HoursOK <=> HourlySummarises
  BY Zenon DEF HoursOK, HourlySummarises, NoneRestored, SummaryOf, WholeHour, Touching

LEMMA InitHours == Init => HoursInv
<1> SUFFICES ASSUME Init PROVE HoursInv
  OBVIOUS
<1>1. DOMAIN states = {} /\ DOMAIN short = {} /\ DOMAIN hourly = {} /\ DOMAIN audit = 1..0
  BY DEF Init
<1>2. 0 % Width = 0
  BY WidthsAssumption
<1> QED
  BY <1>1, <1>2, MaxTimeAssumption DEF Init, HoursInv, ClockOK, StartsOK, AuditOK, HoursOK

\* Hours whose buckets and corrections are left alone are still summarised.
LEMMA SameSummary ==
  ASSUME NEW f, NEW g, NEW h,
         \A y : h <= y /\ y < h + Hour => (y \in DOMAIN f <=> y \in DOMAIN g),
         \A y \in DOMAIN f : h <= y /\ y < h + Hour => f[y] = g[y]
  PROVE  SummaryOf(f, h) = SummaryOf(g, h)
<1>1. Within(f, h, h + Hour) = Within(g, h, h + Hour)
  BY WithinSame
<1> QED
  BY <1>1 DEF SummaryOf

\* A new audit row leaves the others alone; a restore, all but one.
LEMMA FreshEntry ==
  ASSUME AuditOK, NEW entry, {"ts", "restored"} \subseteq DOMAIN entry,
         audit' = Put(audit, Cardinality(DOMAIN audit) + 1, entry)
  PROVE  /\ AuditOK'
         /\ DOMAIN audit \subseteq DOMAIN audit'
         /\ \A i \in DOMAIN audit : audit'[i] = audit[i]
<1> DEFINE id == Cardinality(DOMAIN audit) + 1
<1>1. PICK n \in Nat : DOMAIN audit = 1..n
  BY DEF AuditOK
<1>2. id = n + 1 /\ id \notin DOMAIN audit
  <2>1. Cardinality(1..n) = n
    <3>1. Cardinality(1..n) = IF 1 > n THEN 0 ELSE n - 1 + 1
      BY FS_Interval
    <3> QED
      BY <3>1
  <2> QED
    BY <2>1, <1>1
<1>3. audit' = Put(audit, id, entry)
  OBVIOUS
<1> HIDE DEF id
<1>4. /\ DOMAIN audit' = 1..(n + 1)
      /\ \A i \in DOMAIN audit : audit'[i] = audit[i]
      /\ audit'[id] = entry
  BY <1>1, <1>2, <1>3 DEF Put
<1>5. \A i \in DOMAIN audit' : i \in DOMAIN audit \/ i = id
  BY <1>1, <1>2, <1>4
<1> QED
  BY <1>1, <1>4, <1>5 DEF AuditOK

LEMMA RestoredEntry ==
  ASSUME AuditOK, NEW i \in DOMAIN audit, audit' = [audit EXCEPT ![i].restored = TRUE]
  PROVE  /\ AuditOK'
         /\ DOMAIN audit' = DOMAIN audit
         /\ \A j \in DOMAIN audit : j # i => audit'[j] = audit[j]
         /\ audit'[i].restored /\ audit'[i].ts = audit[i].ts
<1>1. "ts" \in DOMAIN audit[i] /\ "restored" \in DOMAIN audit[i]
  BY DEF AuditOK
<1>2. audit'[i] = [audit[i] EXCEPT !.restored = TRUE]
  OBVIOUS
<1>3. DOMAIN audit'[i] = DOMAIN audit[i] /\ audit'[i].restored /\ audit'[i].ts = audit[i].ts
  BY <1>1, <1>2
<1>4. DOMAIN audit' = DOMAIN audit /\ \A j \in DOMAIN audit : j # i => audit'[j] = audit[j]
  OBVIOUS
<1> QED
  BY <1>3, <1>4 DEF AuditOK

-----------------------------------------------------------------------------
LEMMA ReportHours == ASSUME HoursInv, NEW v, Report(v) PROVE HoursInv'
<1> USE DEF HoursInv
<1>1. /\ now < MaxTime /\ now' = now + 1 /\ compiled' = compiled /\ short' = short /\ hourly' = hourly
      /\ audit' = audit /\ (states' = states \/ states' = Put(states, now, v))
  BY DEF Report
<1>2. DOMAIN states' \subseteq DOMAIN states \cup {now}
  BY <1>1 DEF Put
<1>3. ClockOK' /\ StartsOK'
  BY <1>1, <1>2, MaxTimeAssumption DEF ClockOK, StartsOK
<1>4. AuditOK' /\ HoursOK'
  BY <1>1 DEF AuditOK, HoursOK, NoneRestored
<1> QED
  BY <1>3, <1>4

LEMMA CompileHours == ASSUME HoursInv, Compile PROVE HoursInv'
<1> USE DEF HoursInv
<1> DEFINE hour == HourOf(compiled)
           row == Rebuilt(states, compiled)
<1>1. /\ compiled + Width <= now /\ compiled' = compiled + Width
      /\ now' = now /\ states' = states /\ audit' = audit
  BY DEF Compile
<1>2. PICK table \in {Put(short, compiled, row)} \cup (IF row = NoReading THEN {short} ELSE {}) :
        /\ short' = table
        /\ hourly' = IF compiled + Width = hour + Hour /\ DOMAIN Within(table, hour, hour + Hour) # {}
                     THEN Put(hourly, hour, SummaryOf(table, hour)) ELSE hourly
  BY Zenon DEF Compile, SummaryOf
<1>3. table = Put(short, compiled, row) \/ table = short
  BY <1>2, Zenon
<1>4. /\ DOMAIN table \subseteq DOMAIN short \cup {compiled}
      /\ \A y : y # compiled => (y \in DOMAIN short <=> y \in DOMAIN table)
      /\ \A y \in DOMAIN short : y # compiled => table[y] = short[y]
  BY <1>3, Zenon DEF Put
<1>w. Width \in Nat \ {0} /\ Hour \in Nat \ {0}
  BY WidthsAssumption
<1>c. compiled \in Nat /\ compiled % Width = 0
  BY DEF ClockOK
<1>h. hour \in Nat /\ hour % Hour = 0
  BY <1>c, BucketBounds
<1>5. /\ DOMAIN hourly' \subseteq DOMAIN hourly \cup {hour}
      /\ \A h \in DOMAIN hourly' :
           \/ h \in DOMAIN hourly /\ hourly'[h] = hourly[h]
           \/ h = hour /\ h + Hour = compiled + Width /\ hourly'[h] = SummaryOf(table, h)
  BY <1>2, Zenon DEF Put
<1> HIDE DEF hour, row
<1>6. ClockOK'
  <2>1. (compiled + Width) % Width = 0
    BY <1>w, <1>c, NextOnGrid
  <2> QED
    BY <1>1, <1>w, <1>c, <2>1 DEF ClockOK
<1>7. StartsOK'
  <2>1. \A y \in DOMAIN table : y \in Nat /\ y % Width = 0 /\ y < compiled + Width
    BY <1>4, <1>w, <1>c DEF StartsOK
  <2>2. ASSUME NEW h \in DOMAIN hourly' PROVE h \in Nat /\ h % Hour = 0 /\ h + Hour <= compiled + Width
    <3>1. CASE h \in DOMAIN hourly
      BY <3>1, <1>w, <1>c DEF StartsOK
    <3>2. CASE h = hour /\ h + Hour = compiled + Width
      <4>1. h \in Nat /\ h % Hour = 0
        BY <3>2, <1>h, Zenon
      <4> QED
        BY <4>1, <3>2, <1>w, <1>c
    <3> QED
      BY <1>5, <3>1, <3>2, Zenon
  <2> QED
    BY <1>1, <1>2, <2>1, <2>2 DEF StartsOK
<1>8. AuditOK'
  BY <1>1 DEF AuditOK
<1>9. HoursOK'
  <2> SUFFICES ASSUME NEW h \in DOMAIN hourly', h \in DOMAIN table, NoneRestored(h)
               PROVE  hourly'[h] = SummaryOf(table, h)
    BY <1>1, <1>2 DEF HoursOK, NoneRestored
  <2>1. CASE h \in DOMAIN hourly /\ hourly'[h] = hourly[h]
    <3>1. h \in Nat /\ h < h + Hour /\ h + Hour <= compiled
      BY <2>1, <1>w DEF StartsOK
    <3>2. \A y \in DOMAIN short \cup DOMAIN table : y < h + Hour => y # compiled
      BY <3>1, <1>4, <1>w, <1>c DEF StartsOK
    <3>3. SummaryOf(short, h) = SummaryOf(table, h)
      <4>1. \A y : h <= y /\ y < h + Hour => (y \in DOMAIN short <=> y \in DOMAIN table)
        BY <3>2, <1>4
      <4>2. \A y \in DOMAIN short : h <= y /\ y < h + Hour => short[y] = table[y]
        BY <3>2, <1>4
      <4> QED
        BY <4>1, <4>2, SameSummary
    <3>4. h \in DOMAIN short
      BY <3>1, <3>2, <1>4
    <3> QED
      BY <2>1, <3>3, <3>4 DEF HoursOK
  <2>2. CASE hourly'[h] = SummaryOf(table, h)
    BY <2>2
  <2> QED
    BY <1>5, <2>1, <2>2, Zenon
<1> QED
  BY <1>6, <1>7, <1>8, <1>9

LEMMA PurgeHours == ASSUME HoursInv, NEW cut \in PurgeCuts, Purge(cut) PROVE HoursInv'
<1> USE DEF HoursInv
<1> DEFINE kept == Within(short, cut, MaxTime)
<1>1. /\ now' = now /\ compiled' = compiled /\ hourly' = hourly /\ audit' = audit
      /\ states' = Within(states, cut, MaxTime) /\ short' = kept
  BY DEF Purge
<1>2. DOMAIN Within(states, cut, MaxTime) \subseteq DOMAIN states
  BY Zenon DEF Within
<1>3. /\ DOMAIN kept = {y \in DOMAIN short : cut <= y /\ y < MaxTime}
      /\ \A y \in DOMAIN kept : kept[y] = short[y]
  BY Zenon DEF Within
<1> HIDE DEF kept
<1>4. ClockOK' /\ StartsOK' /\ AuditOK'
  BY <1>1, <1>2, <1>3 DEF ClockOK, StartsOK, AuditOK
<1>5. HoursOK'
  <2> SUFFICES ASSUME NEW h \in DOMAIN hourly, h \in DOMAIN kept, NoneRestored(h)
               PROVE  hourly[h] = SummaryOf(kept, h)
    BY <1>1 DEF HoursOK, NoneRestored
  <2>1. h \in DOMAIN short /\ cut <= h
    BY <1>3
  <2>2. cut \in Nat /\ h \in Nat
    BY <2>1, PurgeCutsAssumption DEF StartsOK
  <2>3. \A y \in DOMAIN short : y \in Nat /\ y < MaxTime
    BY MaxTimeAssumption DEF StartsOK, ClockOK
  <2>4. \A y : h <= y /\ y < h + Hour => (y \in DOMAIN short <=> y \in DOMAIN kept)
    BY <2>1, <2>2, <2>3, <1>3
  <2>5. \A y \in DOMAIN short : h <= y /\ y < h + Hour => short[y] = kept[y]
    BY <2>4, <1>3
  <2>6. SummaryOf(short, h) = SummaryOf(kept, h)
    BY <2>4, <2>5, SameSummary
  <2> QED
    BY <2>1, <2>6 DEF HoursOK
<1> QED
  BY <1>4, <1>5

-----------------------------------------------------------------------------
\* A correction rewrites buckets of the hours it summarises, and of no other.
LEMMA CorrectHours ==
  ASSUME HoursInv, NEW ts \in Times, NEW new, Correct(ts, new)
  PROVE  HoursInv'
<1> USE DEF HoursInv
<1> DEFINE rows == Put(states, ts, new)
           buckets == [s \in AffectedStarts(ts) |-> Rebuilt(rows, s)]
           table == Updated(short, buckets)
           hours == [h \in AffectedHours(ts) |-> SummariseHourly(Siblings(rows, table, h))]
           entry == [ts |-> ts, orig |-> states[ts], corrected |-> new,
                     short |-> Original(short, BucketStart(ts, Width)),
                     hour |-> Original(hourly, HourOf(ts)),
                     restored |-> FALSE]
<1>1. /\ now' = now /\ compiled' = compiled /\ ts \in DOMAIN states
      /\ states' = rows /\ short' = table /\ hourly' = Updated(hourly, hours)
      /\ audit' = Put(audit, Cardinality(DOMAIN audit) + 1, entry)
  BY Zenon DEF Correct
<1>w. Width \in Nat \ {0} /\ Hour \in Nat \ {0}
  BY WidthsAssumption
<1>t. ts \in Nat /\ BucketStart(ts, Width) \in Nat
  BY <1>1, BucketBounds DEF StartsOK
<1>2. /\ DOMAIN table = DOMAIN short
      /\ \A y \in DOMAIN short : y \notin AffectedStarts(ts) => table[y] = short[y]
  <2>1. DOMAIN buckets = AffectedStarts(ts)
    OBVIOUS
  <2> HIDE DEF buckets
  <2> QED
    BY <2>1, UpdatedRows
<1>3. /\ DOMAIN hourly' = DOMAIN hourly
      /\ \A h \in DOMAIN hourly : h \notin AffectedHours(ts) => hourly'[h] = hourly[h]
      /\ \A h \in DOMAIN hourly : h \in AffectedHours(ts) => hourly'[h] = SummariseHourly(Siblings(rows, table, h))
  <2>1. /\ DOMAIN hours = AffectedHours(ts)
        /\ \A h \in AffectedHours(ts) : hours[h] = SummariseHourly(Siblings(rows, table, h))
    OBVIOUS
  <2> HIDE DEF hours, table, rows
  <2> QED
    BY <2>1, <1>1, UpdatedRows
<1>4. /\ DOMAIN rows = DOMAIN states
  BY <1>1 DEF Put
<1>5. {"ts", "restored"} \subseteq DOMAIN entry
  OBVIOUS
<1> HIDE DEF rows, table, buckets, hours, entry
<1>8. /\ AuditOK' /\ DOMAIN audit \subseteq DOMAIN audit'
      /\ \A i \in DOMAIN audit : audit'[i] = audit[i]
  BY <1>1, <1>5, FreshEntry
<1>9. ClockOK' /\ StartsOK'
  BY <1>1, <1>2, <1>3, <1>4 DEF ClockOK, StartsOK
<1>11. HoursOK'
  <2> SUFFICES ASSUME NEW h \in DOMAIN hourly, h \in DOMAIN short, NoneRestored(h)'
               PROVE  hourly'[h] = SummaryOf(table, h)
    BY <1>1, <1>2, <1>3 DEF HoursOK
  <2>1. h \in Nat /\ h % Hour = 0 /\ h < h + Hour
    BY <1>w DEF StartsOK
  <2>2. CASE h \in AffectedHours(ts)
    <3>1. h \in DOMAIN Within(table, h, h + Hour)
      BY <2>1, <1>2 DEF Within
    <3>2. Siblings(rows, table, h) = Within(table, h, h + Hour)
      BY <3>1, Zenon DEF Siblings
    <3> QED
      BY <2>2, <3>2, <1>3 DEF SummaryOf
  <2>3. CASE h \notin AffectedHours(ts)
    <3>1. \A y \in Nat : h <= y /\ y < h + Hour => y \notin AffectedStarts(ts)
      <4> TAKE y \in Nat
      <4> HAVE h <= y /\ y < h + Hour
      <4>1. HourOf(y) = h
        BY <2>1, HourOfBucket
      <4> QED
        BY <4>1, <2>3 DEF AffectedHours
    <3>2. SummaryOf(short, h) = SummaryOf(table, h)
      <4>1. \A y \in DOMAIN short : h <= y /\ y < h + Hour => short[y] = table[y]
        BY <3>1, <1>2 DEF StartsOK
      <4> QED
        BY <4>1, <1>2, SameSummary
    <3>3. NoneRestored(h)
      BY <1>8 DEF NoneRestored
    <3> QED
      BY <2>3, <3>2, <3>3, <1>3 DEF HoursOK
  <2> QED
    BY <2>2, <2>3
<1> QED
  BY <1>8, <1>9, <1>11

\* A restore writes to the bucket and the hour of its reading.
LEMMA RestoreHours ==
  ASSUME HoursInv, NEW i \in DOMAIN audit, Restore(i)
  PROVE  HoursInv'
<1> USE DEF HoursInv
<1> DEFINE ts == audit[i].ts
           start == BucketStart(ts, Width)
           buckets == [s \in {start} |-> audit[i].short]
           table == Updated(short, buckets)
           hours == [h \in {HourOf(ts)} |-> audit[i].hour]
<1>1. /\ now' = now /\ compiled' = compiled /\ ts \in DOMAIN states /\ ~audit[i].restored
      /\ states' = Put(states, ts, audit[i].orig)
      /\ short' = table /\ hourly' = Updated(hourly, hours)
      /\ audit' = [audit EXCEPT ![i].restored = TRUE]
  BY Zenon DEF Restore
<1>w. Width \in Nat \ {0} /\ Hour \in Nat \ {0}
  BY WidthsAssumption
<1>t. /\ ts \in Nat /\ start \in Nat /\ start % Width = 0 /\ start <= ts
      /\ HourOf(ts) \in Nat /\ HourOf(ts) <= start /\ ts < HourOf(ts) + Hour
  BY <1>1, BucketBounds DEF StartsOK
<1>2. /\ DOMAIN table = DOMAIN short
      /\ \A y \in DOMAIN short : y # start => table[y] = short[y]
  <2>1. DOMAIN buckets = {start}
    OBVIOUS
  <2> HIDE DEF buckets, start
  <2> QED
    BY <2>1, UpdatedRows
<1>3. /\ DOMAIN hourly' = DOMAIN hourly
      /\ \A h \in DOMAIN hourly : h # HourOf(ts) => hourly'[h] = hourly[h]
  <2>1. DOMAIN hours = {HourOf(ts)}
    OBVIOUS
  <2> HIDE DEF hours, table, ts
  <2> QED
    BY <2>1, <1>1, UpdatedRows
<1>4. DOMAIN states' = DOMAIN states
  BY <1>1 DEF Put
<1>5. /\ AuditOK' /\ DOMAIN audit' = DOMAIN audit
      /\ \A j \in DOMAIN audit : j # i => audit'[j] = audit[j]
      /\ audit'[i].restored /\ audit'[i].ts = ts
  BY <1>1, RestoredEntry
<1>s. start \in AffectedStarts(ts)
  BY DEF AffectedStarts
<1> HIDE DEF table, buckets, hours, start, ts
<1>6. ClockOK' /\ StartsOK'
  BY <1>1, <1>2, <1>3, <1>4 DEF ClockOK, StartsOK
<1>8. HoursOK'
  <2> SUFFICES ASSUME NEW h \in DOMAIN hourly, h \in DOMAIN short, NoneRestored(h)'
               PROVE  hourly'[h] = SummaryOf(table, h)
    BY <1>1, <1>2, <1>3 DEF HoursOK
  <2>1. h \in Nat /\ h % Hour = 0
    BY DEF StartsOK
  <2>2. start \notin SubBuckets(h)
    BY <1>5, <1>s DEF NoneRestored
  <2>3. ~(h <= start /\ start < h + Hour)
    BY <2>1, <2>2, <1>t, BucketOfHour
  <2>4. h # HourOf(ts)
    BY <2>1, <2>3, <1>t, <1>w
  <2>5. NoneRestored(h)
    <3>1. ~audit[i].restored
      BY <1>1
    <3> QED
      BY <3>1, <1>5 DEF NoneRestored
  <2>6. SummaryOf(short, h) = SummaryOf(table, h)
    <3>1. \A y \in DOMAIN short : h <= y /\ y < h + Hour => short[y] = table[y]
      BY <2>3, <1>2
    <3> QED
      BY <3>1, <1>2, SameSummary
  <2> QED
    BY <2>4, <2>5, <2>6, <1>3 DEF HoursOK
<1> QED
  BY <1>5, <1>6, <1>8

LEMMA NextHours == HoursInv /\ [Next]_vars => HoursInv'
<1> SUFFICES ASSUME HoursInv, [Next]_vars PROVE HoursInv'
  OBVIOUS
<1>1. CASE \E v \in Readings \cup {Unavailable, Nothing} : Report(v)
  BY <1>1, ReportHours
<1>2. CASE Compile
  BY <1>2, CompileHours
<1>3. CASE \E cut \in PurgeCuts : Purge(cut)
  BY <1>3, PurgeHours
<1>4. CASE \E ts \in Times, new \in Readings : Correct(ts, new)
  BY <1>4, CorrectHours
<1>5. CASE \E i \in DOMAIN audit : Restore(i)
  BY <1>5, RestoreHours
<1>6. CASE UNCHANGED vars
  BY <1>6 DEF vars, HoursInv, ClockOK, StartsOK, AuditOK, HoursOK, NoneRestored
<1> QED
  BY <1>1, <1>2, <1>3, <1>4, <1>5, <1>6 DEF Next

\* Whatever is reported, compiled, purged and corrected, an hour of a
\* measurement none of whose corrections was restored, and whose first
\* 5-minute row is still there, is the summary of its 5-minute rows.
THEOREM HoursAreSummarised == Spec => []HourlySummarises
<1>1. HoursInv => HourlySummarises
  BY HoursOKIs DEF HoursInv
<1> QED
  BY <1>1, InitHours, NextHours, PTL DEF Spec

-----------------------------------------------------------------------------
(***************************************************************************)
(* The 5-minute rows.  A row is rebuilt from the readings of its bucket    *)
(* and the one carried in; when that one is at most a bucket old, a change *)
(* of either lies in this bucket or the one before.                        *)
(***************************************************************************)
LEMMA CarriedInIs ==
  ASSUME NEW f, DOMAIN f \subseteq Nat, NEW s \in Nat
  PROVE  \A t : t \in CarriedIn(f, s) <=>
                  /\ t \in DOMAIN f /\ t < s /\ f[t] \in Readings
                  /\ \A u \in DOMAIN f : u < s /\ f[u] \in Readings => u <= t
<1> DEFINE before == {t \in DOMAIN f : t < s /\ f[t] \in Readings}
<1>1. CarriedIn(f, s) = IF before = {} THEN {} ELSE {Max(before)}
  BY Zenon DEF CarriedIn
<1>2. before \in SUBSET (0..s)
  OBVIOUS
<1>3. CASE before = {}
  BY <1>1, <1>3
<1>4. CASE before # {}
  <2>1. Max(before) \in before /\ \A y \in before : Max(before) >= y
    BY <1>2, <1>4, LastInstant
  <2> DEFINE m == Max(before)
  <2>2. m \in before /\ (\A y \in before : m >= y) /\ CarriedIn(f, s) = {m}
    BY <2>1, <1>1, <1>4
  <2> HIDE DEF m
  <2>3. ASSUME NEW t \in before, \A u \in before : u <= t PROVE t = m
    BY <2>2, <2>3, <1>2
  <2> QED
    BY <2>2, <2>3, <1>2
<1> QED
  BY <1>3, <1>4

LEMMA SameReadings ==
  ASSUME NEW f, NEW g, NEW s, NEW e, CarriedIn(f, s) = CarriedIn(g, s),
         \A t \in CarriedIn(f, s) : f[t] = g[t],
         \A u : s <= u /\ u < e => (u \in DOMAIN f <=> u \in DOMAIN g),
         \A u \in DOMAIN f : s <= u /\ u < e => f[u] = g[u]
  PROVE  ReadingsWith(f, s, e) = ReadingsWith(g, s, e)
<1> DEFINE A(h) == {u \in DOMAIN h : s <= u /\ u < e /\ h[u] \in Readings}
           D == CarriedIn(f, s) \cup A(f)
<1>1. A(f) = A(g)
  OBVIOUS
<1>2. \A t \in D : f[t] = g[t]
  OBVIOUS
<1>3. ReadingsWith(f, s, e) = [t \in D |-> f[t]]
  BY Zenon DEF ReadingsWith
<1>4. ReadingsWith(g, s, e) = [t \in D |-> g[t]]
  BY <1>1, Zenon DEF ReadingsWith
<1> HIDE DEF D
<1> QED
  BY <1>2, <1>3, <1>4

\* Buckets other than a reading's own and the next lie a bucket away from it.
LEMMA AwayFromReading ==
  ASSUME NEW ts \in Nat, NEW s \in Nat, s % Width = 0, s \notin AffectedStarts(ts)
  PROVE  ts < s - Width \/ s + Width <= ts
<1> DEFINE b == BucketStart(ts, Width)
<1>w. Width \in Nat \ {0}
  BY WidthsAssumption
<1>1. b \in Nat /\ b % Width = 0 /\ b <= ts /\ ts < b + Width
  BY <1>w, GridStart DEF BucketStart
<1>2. s # b /\ s # b + Width
  BY DEF AffectedStarts
<1>3. (b + Width) % Width = 0 /\ b + Width \in Nat
  BY <1>1, <1>w, NextOnGrid
<1> HIDE DEF b
<1>4. CASE s < b
  <2>1. s + Width <= b
    BY <1>1, <1>4, <1>w, GridGap
  <2> QED
    BY <2>1, <1>1, <1>w
<1>5. CASE b < s
  <2>1. b + Width <= s
    BY <1>1, <1>5, <1>w, GridGap
  <2>2. b + Width < s
    BY <2>1, <1>2, <1>1, <1>w
  <2>3. b + Width + Width <= s
    BY <2>2, <1>3, <1>w, GridGap
  <2> QED
    BY <2>3, <1>1, <1>w
<1> QED
  BY <1>1, <1>2, <1>4, <1>5

CarryKnownOf(f, s) == s = 0 \/ \E t \in CarriedIn(f, s) : t >= s - Width

\* What a bucket is rebuilt from: the readings from a bucket before it on.  g
\* may have lost those before the cut to a purge.
Alike(f, g, s, cut) ==
  /\ cut <= s
  /\ \A u \in DOMAIN g : cut <= u /\ (s - Width <= u /\ u < s + Width => u \in DOMAIN f /\ f[u] = g[u])
  /\ \A u \in DOMAIN f : s - Width <= u /\ u < s + Width => u \in DOMAIN g \/ u < cut

LEMMA AlikeBuckets ==
  ASSUME NEW f, NEW g, DOMAIN f \subseteq Nat, DOMAIN g \subseteq Nat, NEW s \in Nat, NEW cut \in Nat,
         Alike(f, g, s, cut), CarryKnownOf(g, s)
  PROVE  CarryKnownOf(f, s) /\ Rebuilt(g, s) = Rebuilt(f, s)
<1>w. Width \in Nat \ {0}
  BY WidthsAssumption
<1>1. /\ cut <= s /\ \A u \in DOMAIN g : u \in Nat /\ cut <= u
      /\ \A u \in DOMAIN g : s - Width <= u /\ u < s + Width => u \in DOMAIN f /\ f[u] = g[u]
      /\ \A u \in DOMAIN f : s - Width <= u /\ u < s + Width => u \in DOMAIN g \/ u < cut
  BY DEF Alike
<1>2. /\ \A t : t \in CarriedIn(f, s) <=>
                  /\ t \in DOMAIN f /\ t < s /\ f[t] \in Readings
                  /\ \A u \in DOMAIN f : u < s /\ f[u] \in Readings => u <= t
      /\ \A t : t \in CarriedIn(g, s) <=>
                  /\ t \in DOMAIN g /\ t < s /\ g[t] \in Readings
                  /\ \A u \in DOMAIN g : u < s /\ g[u] \in Readings => u <= t
  BY CarriedInIs
<1>3. CarriedIn(f, s) = CarriedIn(g, s) /\ \A t \in CarriedIn(f, s) : f[t] = g[t]
  <2>1. CASE s = 0
    <3>1. \A t \in Nat : ~(t < s)
      BY <2>1
    <3> QED
      BY <3>1, <1>2
  <2>2. CASE s # 0
    <3>1. PICK t \in CarriedIn(g, s) : t >= s - Width
      BY <2>2 DEF CarryKnownOf
    <3>2. t \in DOMAIN g /\ t \in Nat /\ t < s /\ g[t] \in Readings /\ cut <= t
      BY <3>1, <1>1, <1>2
    <3>3. t \in DOMAIN f /\ f[t] = g[t]
      BY <3>1, <3>2, <1>1, <1>w
    <3>4. ASSUME NEW u \in DOMAIN f, u < s, f[u] \in Readings PROVE u <= t
      <4>1. u \in Nat /\ u < s + Width
        BY <3>4, <1>w
      <4>2. CASE u < s - Width \/ u < cut
        BY <4>1, <4>2, <3>1, <3>2, <1>w
      <4>3. CASE s - Width <= u /\ ~(u < cut)
        <5>1. u \in DOMAIN g
          BY <4>1, <4>3, <1>1
        <5>2. g[u] = f[u]
          BY <5>1, <4>1, <4>3, <1>1
        <5> QED
          BY <5>1, <5>2, <3>1, <3>4, <1>2
      <4> QED
        BY <4>1, <4>2, <4>3, <1>w
    <3>5. t \in CarriedIn(f, s)
      BY <3>2, <3>3, <3>4, <1>2
    <3>6. \A x \in CarriedIn(f, s) : x = t
      BY <3>2, <3>5, <1>2
    <3>7. \A x \in CarriedIn(g, s) : x = t
      BY <3>1, <3>2, <1>2
    <3>8. CarriedIn(f, s) = {t} /\ CarriedIn(g, s) = {t}
      BY <3>1, <3>5, <3>6, <3>7, Zenon
    <3> QED
      BY <3>3, <3>8
  <2> QED
    BY <2>1, <2>2
<1>4. ReadingsWith(f, s, s + Width) = ReadingsWith(g, s, s + Width)
  <2>1. \A u \in DOMAIN f : s <= u /\ u < s + Width => u \in DOMAIN g
    BY <1>1, <1>w
  <2>2. \A u \in DOMAIN g : s <= u /\ u < s + Width => u \in DOMAIN f /\ f[u] = g[u]
    BY <1>1, <1>w
  <2> QED
    BY <2>1, <2>2, <1>3, SameReadings
<1> QED
  BY <1>3, <1>4 DEF Rebuilt, CarryKnownOf

\* A reading that is replaced leaves the buckets alike that it does not affect,
\* a new one those that are over, a purge those that begin after the cut.
LEMMA AlikeElsewhere ==
  ASSUME NEW f, DOMAIN f \subseteq Nat, NEW ts \in DOMAIN f, NEW v,
         NEW s \in Nat, s % Width = 0, s \notin AffectedStarts(ts)
  PROVE  Alike(f, Put(f, ts, v), s, 0)
<1> DEFINE g == Put(f, ts, v)
<1>1. DOMAIN g = DOMAIN f /\ \A u \in DOMAIN f : u # ts => g[u] = f[u]
  BY DEF Put
<1>2. ts \in Nat /\ (ts < s - Width \/ s + Width <= ts)
  BY AwayFromReading
<1> HIDE DEF g
<1>3. \A u \in DOMAIN f : s - Width <= u /\ u < s + Width => u # ts
  BY <1>2, WidthsAssumption
<1>4. Alike(f, g, s, 0)
  BY <1>1, <1>3 DEF Alike
<1> QED
  BY <1>4 DEF g

LEMMA AlikeBefore ==
  ASSUME NEW f, DOMAIN f \subseteq Nat, NEW ts \in Nat, NEW v, NEW s \in Nat, s + Width <= ts
  PROVE  Alike(f, Put(f, ts, v), s, 0)
<1> DEFINE g == Put(f, ts, v)
<1>1. DOMAIN g = DOMAIN f \cup {ts} /\ \A u \in DOMAIN f : u # ts => g[u] = f[u]
  BY DEF Put
<1> HIDE DEF g
<1>2. \A u \in DOMAIN g : u \in Nat /\ (u < s + Width => u # ts)
  BY <1>1, WidthsAssumption
<1>3. Alike(f, g, s, 0)
  BY <1>1, <1>2 DEF Alike
<1> QED
  BY <1>3 DEF g

LEMMA AlikeFrom ==
  ASSUME NEW f, DOMAIN f \subseteq Nat, NEW cut \in Nat, NEW end \in Nat,
         NEW s \in Nat, cut <= s, s + Width <= end
  PROVE  Alike(f, Within(f, cut, end), s, cut)
<1> DEFINE g == Within(f, cut, end)
<1>1. /\ DOMAIN g = {u \in DOMAIN f : cut <= u /\ u < end}
      /\ \A u \in DOMAIN g : g[u] = f[u]
  BY Zenon DEF Within
<1> HIDE DEF g
<1>2. \A u \in DOMAIN f : u \in Nat /\ (u < s + Width => u < end)
  BY WidthsAssumption
<1>3. Alike(f, g, s, cut)
  BY <1>1, <1>2 DEF Alike
<1> QED
  BY <1>3 DEF g

LEMMA ChangedElsewhere ==
  ASSUME NEW f, DOMAIN f \subseteq Nat, NEW ts \in DOMAIN f, NEW v,
         NEW s \in Nat, s % Width = 0, s \notin AffectedStarts(ts),
         CarryKnownOf(Put(f, ts, v), s)
  PROVE  CarryKnownOf(f, s) /\ Rebuilt(Put(f, ts, v), s) = Rebuilt(f, s)
<1> DEFINE g == Put(f, ts, v)
<1>1. DOMAIN g \subseteq Nat
  BY DEF Put
<1>2. Alike(f, g, s, 0)
  BY AlikeElsewhere
<1>3. CarryKnownOf(g, s)
  OBVIOUS
<1> HIDE DEF g
<1>4. CarryKnownOf(f, s) /\ Rebuilt(g, s) = Rebuilt(f, s)
  BY <1>1, <1>2, <1>3, AlikeBuckets
<1> QED
  BY <1>4 DEF g

NoneRestoredIn(s) == \A i \in DOMAIN audit : s \in AffectedStarts(audit[i].ts) => ~audit[i].restored

BucketsOK ==
  \A s \in DOMAIN short :
    CarryKnownOf(states, s) /\ NoneRestoredIn(s) => short[s] = Rebuilt(states, s)

LEMMA BucketsOKIs == BucketsOK <=> RebuiltRowsDescribeReadings
<1>1. \A s : CarryKnownOf(states, s) <=> CarryKnown(s)
  BY Zenon DEF CarryKnownOf, CarryKnown
<1>2. \A s : NoneRestoredIn(s) <=> \A i \in Touching(s) : ~audit[i].restored
  BY Zenon DEF NoneRestoredIn, Touching
<1> QED
  BY <1>1, <1>2, Zenon DEF BucketsOK, RebuiltRowsDescribeReadings, DescribesReadings

LEMMA ReportBuckets == ASSUME HoursInv, BucketsOK, NEW v, Report(v) PROVE BucketsOK'
<1>1. /\ now < MaxTime /\ short' = short /\ audit' = audit
      /\ (states' = states \/ states' = Put(states, now, v))
  BY DEF Report
<1>w. Width \in Nat \ {0}
  BY WidthsAssumption
<1>2. CASE states' = states
  BY <1>1, <1>2 DEF BucketsOK, NoneRestoredIn
<1>3. CASE states' = Put(states, now, v)
  <2> DEFINE g == Put(states, now, v)
  <2>1. /\ DOMAIN g = DOMAIN states \cup {now}
        /\ \A u \in DOMAIN states : u # now => g[u] = states[u]
    BY DEF Put
  <2> HIDE DEF g
  <2>2. DOMAIN states \subseteq Nat /\ now \in Nat /\ DOMAIN g \subseteq Nat
    BY <2>1 DEF HoursInv, StartsOK, ClockOK
  <2> SUFFICES ASSUME NEW s \in DOMAIN short, CarryKnownOf(g, s), NoneRestoredIn(s)
               PROVE  short[s] = Rebuilt(g, s)
    BY <1>1, <1>3 DEF BucketsOK, NoneRestoredIn, g
  <2>3. s \in Nat /\ s + Width <= now
    <3>1. s \in Nat /\ s % Width = 0 /\ s < compiled
          /\ compiled \in Nat /\ compiled % Width = 0 /\ compiled <= now
      BY DEF HoursInv, StartsOK, ClockOK
    <3>2. s + Width <= compiled
      BY <3>1, <1>w, GridGap
    <3> QED
      BY <3>1, <3>2, <2>2, <1>w
  <2>4. Alike(states, g, s, 0)
    BY <2>2, <2>3, AlikeBefore DEF g
  <2>5. CarryKnownOf(states, s) /\ Rebuilt(g, s) = Rebuilt(states, s)
    BY <2>2, <2>3, <2>4, AlikeBuckets
  <2> QED
    BY <2>5 DEF BucketsOK
<1> QED
  BY <1>1, <1>2, <1>3

LEMMA CompileBuckets == ASSUME HoursInv, BucketsOK, Compile PROVE BucketsOK'
<1>1. states' = states /\ audit' = audit
  BY DEF Compile
<1>2. short' = short \/ short' = Put(short, compiled, Rebuilt(states, compiled))
  BY Zenon DEF Compile
<1> DEFINE row == Rebuilt(states, compiled)
           new == Put(short, compiled, row)
<1> HIDE DEF row
<1>3. /\ DOMAIN new = DOMAIN short \cup {compiled} /\ new[compiled] = row
      /\ \A s \in DOMAIN short : s # compiled => new[s] = short[s]
  BY DEF Put
<1> HIDE DEF new
<1> SUFFICES ASSUME NEW s \in DOMAIN short', CarryKnownOf(states, s), NoneRestoredIn(s)
             PROVE  short'[s] = Rebuilt(states, s)
  BY <1>1 DEF BucketsOK, NoneRestoredIn
<1>4. CASE s \in DOMAIN short /\ short'[s] = short[s]
  BY <1>4 DEF BucketsOK
<1>5. CASE s = compiled /\ short' = new
  BY <1>3, <1>5 DEF row
<1> QED
  BY <1>2, <1>3, <1>4, <1>5 DEF new, row

\* A row that is left may have lost readings to the purge, but not the one
\* carried into it, if that is known.
LEMMA PurgeBuckets == ASSUME HoursInv, BucketsOK, NEW cut \in PurgeCuts, Purge(cut) PROVE BucketsOK'
<1> DEFINE kept == Within(short, cut, MaxTime)
           rows == Within(states, cut, MaxTime)
<1>1. audit' = audit /\ states' = rows /\ short' = kept
  BY DEF Purge
<1>2. /\ DOMAIN kept = {y \in DOMAIN short : cut <= y /\ y < MaxTime}
      /\ \A y \in DOMAIN kept : kept[y] = short[y]
      /\ DOMAIN rows = {y \in DOMAIN states : cut <= y /\ y < MaxTime}
      /\ \A y \in DOMAIN rows : rows[y] = states[y]
  BY Zenon DEF Within
<1> HIDE DEF kept, rows
<1> SUFFICES ASSUME NEW s \in DOMAIN kept, CarryKnownOf(rows, s), NoneRestoredIn(s)
             PROVE  kept[s] = Rebuilt(rows, s)
  BY <1>1 DEF BucketsOK, NoneRestoredIn
<1>w. Width \in Nat \ {0}
  BY WidthsAssumption
<1>3. /\ DOMAIN states \subseteq Nat /\ DOMAIN rows \subseteq Nat /\ cut \in Nat
      /\ s \in Nat /\ s \in DOMAIN short /\ kept[s] = short[s] /\ cut <= s
  BY <1>2, PurgeCutsAssumption DEF HoursInv, StartsOK
<1>4. s + Width <= MaxTime
  <2>1. s % Width = 0 /\ s < compiled /\ compiled \in Nat /\ compiled % Width = 0
        /\ compiled <= now /\ now \in Nat /\ now <= MaxTime
    BY <1>3, MaxTimeAssumption DEF HoursInv, StartsOK, ClockOK
  <2>2. s + Width <= compiled
    BY <1>3, <1>w, <2>1, GridGap
  <2> QED
    BY <1>3, <1>w, <2>1, <2>2, MaxTimeAssumption
<1>5. Alike(states, rows, s, cut)
  BY <1>3, <1>4, MaxTimeAssumption, AlikeFrom DEF rows
<1>6. CarryKnownOf(states, s) /\ Rebuilt(rows, s) = Rebuilt(states, s)
  BY <1>3, <1>5, AlikeBuckets
<1> QED
  BY <1>3, <1>6 DEF BucketsOK

LEMMA CorrectBuckets ==
  ASSUME HoursInv, BucketsOK, NEW ts \in Times, NEW new, Correct(ts, new)
  PROVE  BucketsOK'
<1> DEFINE rows == Put(states, ts, new)
           buckets == [s \in AffectedStarts(ts) |-> Rebuilt(rows, s)]
           entry == [ts |-> ts, orig |-> states[ts], corrected |-> new,
                     short |-> Original(short, BucketStart(ts, Width)),
                     hour |-> Original(hourly, HourOf(ts)),
                     restored |-> FALSE]
<1>1. /\ ts \in DOMAIN states /\ states' = rows /\ short' = Updated(short, buckets)
      /\ audit' = Put(audit, Cardinality(DOMAIN audit) + 1, entry)
  BY Zenon DEF Correct
<1>2. {"ts", "restored"} \subseteq DOMAIN entry
  OBVIOUS
<1>3. /\ DOMAIN buckets = AffectedStarts(ts)
      /\ \A s \in AffectedStarts(ts) : buckets[s] = Rebuilt(rows, s)
  OBVIOUS
<1> HIDE DEF entry, buckets
<1>4. /\ DOMAIN audit \subseteq DOMAIN audit' /\ \A i \in DOMAIN audit : audit'[i] = audit[i]
  BY <1>1, <1>2, FreshEntry DEF HoursInv
<1>5. /\ DOMAIN short' = DOMAIN short
      /\ \A s \in DOMAIN short : s \in AffectedStarts(ts) => short'[s] = Rebuilt(rows, s)
      /\ \A s \in DOMAIN short : s \notin AffectedStarts(ts) => short'[s] = short[s]
  BY <1>1, <1>3, UpdatedRows
<1> SUFFICES ASSUME NEW s \in DOMAIN short, CarryKnownOf(rows, s), NoneRestoredIn(s)'
             PROVE  short'[s] = Rebuilt(rows, s)
  BY <1>1, <1>5 DEF BucketsOK
<1>6. CASE s \notin AffectedStarts(ts)
  <2>1. s \in Nat /\ s % Width = 0 /\ DOMAIN states \subseteq Nat
    BY DEF HoursInv, StartsOK
  <2>2. CarryKnownOf(states, s) /\ Rebuilt(rows, s) = Rebuilt(states, s)
    BY <1>1, <1>6, <2>1, ChangedElsewhere
  <2>3. NoneRestoredIn(s)
    BY <1>4 DEF NoneRestoredIn
  <2> QED
    BY <2>2, <2>3, <1>5, <1>6 DEF BucketsOK
<1> QED
  BY <1>5, <1>6

LEMMA RestoreBuckets ==
  ASSUME HoursInv, BucketsOK, NEW i \in DOMAIN audit, Restore(i)
  PROVE  BucketsOK'
<1> DEFINE ts == audit[i].ts
           rows == Put(states, ts, audit[i].orig)
           buckets == [s \in {BucketStart(ts, Width)} |-> audit[i].short]
<1>1. /\ ts \in DOMAIN states /\ ~audit[i].restored
      /\ states' = rows /\ short' = Updated(short, buckets)
      /\ audit' = [audit EXCEPT ![i].restored = TRUE]
  BY Zenon DEF Restore
<1>2. /\ DOMAIN audit' = DOMAIN audit
      /\ \A j \in DOMAIN audit : j # i => audit'[j] = audit[j]
      /\ audit'[i].restored /\ audit'[i].ts = ts
  BY <1>1, RestoredEntry DEF HoursInv
<1>3. DOMAIN buckets \subseteq AffectedStarts(ts)
  BY DEF AffectedStarts
<1> HIDE DEF buckets, ts
<1>4. /\ DOMAIN short' = DOMAIN short
      /\ \A s \in DOMAIN short : s \notin AffectedStarts(ts) => short'[s] = short[s]
  BY <1>1, <1>3, UpdatedRows
<1> SUFFICES ASSUME NEW s \in DOMAIN short, CarryKnownOf(rows, s), NoneRestoredIn(s)'
             PROVE  short'[s] = Rebuilt(rows, s)
  BY <1>1, <1>4 DEF BucketsOK
<1>5. s \notin AffectedStarts(ts)
  BY <1>2 DEF NoneRestoredIn
<1>6. s \in Nat /\ s % Width = 0 /\ DOMAIN states \subseteq Nat
  BY DEF HoursInv, StartsOK
<1>7. CarryKnownOf(states, s) /\ Rebuilt(rows, s) = Rebuilt(states, s)
  BY <1>1, <1>5, <1>6, ChangedElsewhere
<1>8. NoneRestoredIn(s)
  BY <1>1, <1>2 DEF NoneRestoredIn
<1> QED
  BY <1>4, <1>5, <1>7, <1>8 DEF BucketsOK

LEMMA NextBuckets == HoursInv /\ BucketsOK /\ [Next]_vars => BucketsOK'
<1> SUFFICES ASSUME HoursInv, BucketsOK, [Next]_vars PROVE BucketsOK'
  OBVIOUS
<1>1. CASE \E v \in Readings \cup {Unavailable, Nothing} : Report(v)
  BY <1>1, ReportBuckets
<1>2. CASE Compile
  BY <1>2, CompileBuckets
<1>3. CASE \E cut \in PurgeCuts : Purge(cut)
  BY <1>3, PurgeBuckets
<1>4. CASE \E ts \in Times, new \in Readings : Correct(ts, new)
  BY <1>4, CorrectBuckets
<1>5. CASE \E i \in DOMAIN audit : Restore(i)
  BY <1>5, RestoreBuckets
<1>6. CASE UNCHANGED vars
  BY <1>6 DEF vars, BucketsOK, NoneRestoredIn
<1> QED
  BY <1>1, <1>2, <1>3, <1>4, <1>5, <1>6 DEF Next

\* However many readings of a bucket and of the one before are corrected, in
\* whatever order, its row is what the recorder would compile from the readings
\* as they are now, unless a correction of them was restored or the reading
\* carried in is not known.
THEOREM RowsDescribeReadings == Spec => []RebuiltRowsDescribeReadings
<1>1. Init => BucketsOK
  BY DEF Init, BucketsOK
<1>2. BucketsOK => RebuiltRowsDescribeReadings
  BY BucketsOKIs
<1> QED
  BY <1>1, <1>2, InitHours, NextHours, NextBuckets, PTL DEF Spec

-----------------------------------------------------------------------------
(***************************************************************************)
(* The mean.  A window of readings, the last of which is before its end.   *)
(* A reading takes effect once the window has opened and lasts until the   *)
(* next does; of a prefix of the window it has what was over by then.      *)
(***************************************************************************)
Window(f, end) ==
  /\ DOMAIN f # {} /\ DOMAIN f \subseteq Nat /\ IsFiniteSet(DOMAIN f)
  /\ \A t \in DOMAIN f : f[t] \in Int /\ t < end

Opens(f, start) == EffectiveFrom(f, start, Min(DOMAIN f))

LaterThan(f, t) == {u \in DOMAIN f : u > t}

Until(f, start, end, t) ==
  IF LaterThan(f, t) = {} THEN end ELSE EffectiveFrom(f, start, Min(LaterThan(f, t)))

Lasted(f, start, end) ==
  [t \in DOMAIN f |-> f[t] * (Until(f, start, end, t) - EffectiveFrom(f, start, t))]

LEMMA MeanDef ==
  ASSUME NEW f, NEW start, NEW end
  PROVE  TimeWeightedMean(f, start, end)
           = IF end <= Opens(f, start) THEN Scale * f[Max(DOMAIN f)]
             ELSE (Scale * Total(Lasted(f, start, end))) \div (end - Opens(f, start))
  BY Zenon DEF TimeWeightedMean, Opens, LaterThan, Until, Lasted

LEMMA EffectiveFacts ==
  ASSUME NEW f, NEW start \in Nat, NEW end \in Nat, start < end, Window(f, end)
  PROVE  /\ Opens(f, start) \in Nat /\ start <= Opens(f, start) /\ Opens(f, start) < end
         /\ Min(DOMAIN f) \in DOMAIN f /\ Min(DOMAIN f) <= Opens(f, start)
         /\ \A t \in DOMAIN f : /\ EffectiveFrom(f, start, t) = Larger(t, Opens(f, start))
                                /\ EffectiveFrom(f, start, t) \in Nat /\ EffectiveFrom(f, start, t) < end
                                /\ t \in Nat
<1> DEFINE m == Min(DOMAIN f)
<1>1. m \in DOMAIN f
  BY FirstInstant DEF Window
<1>2. m \in Nat /\ m < end /\ \A t \in DOMAIN f : t \in Nat /\ t < end
  BY <1>1 DEF Window
<1>3. \A t : EffectiveFrom(f, start, t) = Larger(t, Larger(m, start))
  BY DEF EffectiveFrom
<1> HIDE DEF m
<1>4. Opens(f, start) = Larger(m, Larger(m, start))
  BY <1>3 DEF Opens, m
<1>5. Opens(f, start) = Larger(m, start) /\ Larger(m, start) \in Nat /\ start <= Larger(m, start)
      /\ Larger(m, start) < end /\ m <= Larger(m, start)
  BY <1>2, <1>4 DEF Larger
<1>6. \A t \in DOMAIN f : Larger(t, Opens(f, start)) \in Nat /\ Larger(t, Opens(f, start)) < end
  BY <1>2, <1>5 DEF Larger
<1> QED
  BY <1>1, <1>2, <1>3, <1>5, <1>6 DEF m

\* The reading after t, and what lies between.
LEMMA UntilFacts ==
  ASSUME NEW f, NEW start \in Nat, NEW end \in Nat, start < end, Window(f, end), NEW t \in DOMAIN f
  PROVE  /\ Until(f, start, end, t) \in Nat /\ Until(f, start, end, t) <= end
         /\ Opens(f, start) <= Until(f, start, end, t)
         /\ EffectiveFrom(f, start, t) <= Until(f, start, end, t)
         /\ \A u \in DOMAIN f : t < u => Until(f, start, end, t) <= EffectiveFrom(f, start, u)
         /\ \A e \in Nat : e < end /\ Opens(f, start) <= e /\ (\A u \in DOMAIN f : t < u => e < u)
              => e < Until(f, start, end, t)
<1> DEFINE later == LaterThan(f, t)
           n == Min(later)
           o == Opens(f, start)
           until == Until(f, start, end, t)
<1>1. /\ o \in Nat /\ o < end
      /\ \A u \in DOMAIN f : /\ EffectiveFrom(f, start, u) = Larger(u, o)
                             /\ EffectiveFrom(f, start, u) \in Nat /\ EffectiveFrom(f, start, u) < end
                             /\ u \in Nat
  BY EffectiveFacts
<1>2. later # {} => n \in later /\ \A u \in later : n <= u
  <2>1. later \in SUBSET Nat
    BY <1>1 DEF LaterThan
  <2> QED
    BY <2>1, FirstInstant
<1>3. until = IF later = {} THEN end ELSE EffectiveFrom(f, start, n)
  BY DEF Until
<1>4. \A u \in DOMAIN f : u \in later <=> t < u
  BY <1>1 DEF LaterThan
<1>5. later \subseteq DOMAIN f
  BY DEF LaterThan
<1> HIDE DEF later, n, o, until
<1>6. CASE later = {}
  <2>1. until = end
    BY <1>3, <1>6
  <2>2. EffectiveFrom(f, start, t) <= until /\ o <= until
    BY <1>1, <2>1
  <2> QED
    BY <1>1, <1>4, <1>6, <2>1, <2>2 DEF o, until
<1>7. CASE later # {}
  <2>1. n \in DOMAIN f /\ t < n /\ n \in Nat /\ until = Larger(n, o) /\ until \in Nat /\ until < end
    BY <1>1, <1>2, <1>3, <1>4, <1>5, <1>7
  <2>2. EffectiveFrom(f, start, t) <= until /\ o <= until
    <3>1. EffectiveFrom(f, start, t) = Larger(t, o) /\ t \in Nat
      BY <1>1
    <3> QED
      BY <1>1, <2>1, <3>1 DEF Larger
  <2>3. ASSUME NEW u \in DOMAIN f, t < u PROVE until <= EffectiveFrom(f, start, u)
    <3>1. n <= u /\ u \in Nat /\ EffectiveFrom(f, start, u) = Larger(u, o)
      BY <1>1, <1>2, <1>4, <1>7, <2>3
    <3> QED
      BY <1>1, <2>1, <3>1 DEF Larger
  <2>4. ASSUME NEW e \in Nat, \A u \in DOMAIN f : t < u => e < u PROVE e < until
    <3>1. e < n
      BY <2>1, <2>4
    <3> QED
      BY <1>1, <2>1, <3>1 DEF Larger
  <2> QED
    BY <2>1, <2>2, <2>3, <2>4 DEF o, until
<1> QED
  BY <1>6, <1>7

Clip(x, e) == IF x < e THEN x ELSE e

LastedBy(f, start, end, e) ==
  [t \in DOMAIN f |-> f[t] * (Clip(Until(f, start, end, t), e) - Clip(EffectiveFrom(f, start, t), e))]

UnitsBy(f, start, e) == [u \in Opens(f, start)..(e - 1) |-> InEffect(f, u)]

\* Up to an instant, what each reading lasted, or what was in effect then.
LEMMA LastedType ==
  ASSUME NEW f, NEW start \in Nat, NEW end \in Nat, start < end, Window(f, end), NEW e \in Nat
  PROVE  \A t \in DOMAIN f :
           /\ LastedBy(f, start, end, e)[t]
                = f[t] * (Clip(Until(f, start, end, t), e) - Clip(EffectiveFrom(f, start, t), e))
           /\ LastedBy(f, start, end, e)[t] \in Int
<1> SUFFICES ASSUME NEW t \in DOMAIN f
             PROVE  /\ LastedBy(f, start, end, e)[t]
                         = f[t] * (Clip(Until(f, start, end, t), e) - Clip(EffectiveFrom(f, start, t), e))
                    /\ LastedBy(f, start, end, e)[t] \in Int
  OBVIOUS
<1> DEFINE a == Until(f, start, end, t)
           b == EffectiveFrom(f, start, t)
<1>1. a \in Nat /\ b \in Nat /\ f[t] \in Int
  BY UntilFacts, EffectiveFacts DEF Window
<1>2. LastedBy(f, start, end, e)[t] = f[t] * (Clip(a, e) - Clip(b, e))
  BY DEF LastedBy
<1> HIDE DEF a, b
<1>3. Clip(a, e) - Clip(b, e) \in Int
  BY <1>1 DEF Clip
<1>4. f[t] * (Clip(a, e) - Clip(b, e)) \in Int
  BY <1>1, <1>3
<1> QED
  BY <1>2, <1>4 DEF a, b

LEMMA InEffectIs ==
  ASSUME NEW f, NEW start \in Nat, NEW end \in Nat, start < end, Window(f, end),
         NEW e \in Nat, Opens(f, start) <= e
  PROVE  /\ InEffect(f, e) = f[Max({t \in DOMAIN f : t <= e})]
         /\ Max({t \in DOMAIN f : t <= e}) \in DOMAIN f
         /\ Max({t \in DOMAIN f : t <= e}) <= e
         /\ \A t \in DOMAIN f : t <= e => t <= Max({u \in DOMAIN f : u <= e})
<1> DEFINE S == {t \in DOMAIN f : t <= e}
<1>1. Min(DOMAIN f) \in DOMAIN f /\ Min(DOMAIN f) <= Opens(f, start) /\ Opens(f, start) \in Nat
  BY EffectiveFacts
<1>2. DOMAIN f \subseteq Nat
  BY DEF Window
<1>3. Min(DOMAIN f) \in S
  BY <1>1, <1>2
<1>4. S \in SUBSET (0..e)
  BY <1>2
<1>5. Max(S) \in S /\ \A y \in S : Max(S) >= y
  BY <1>3, <1>4, LastInstant
<1>6. \A t \in DOMAIN f : t <= e => t <= Max(S)
  BY <1>2, <1>4, <1>5
<1>7. InEffect(f, e) = f[Max(S)]
  BY DEF InEffect
<1> QED
  BY <1>5, <1>6, <1>7

LEMMA OneMore ==
  ASSUME NEW v \in Int, NEW e \in Nat, NEW b \in Nat
  PROVE  v * (e + 1 - b) - v * (e - b) = v
  OBVIOUS

\* One more unit counts for the reading in effect in it, and no other.
LEMMA OneUnit ==
  ASSUME NEW f, NEW start \in Nat, NEW end \in Nat, start < end, Window(f, end),
         NEW e \in Nat, Opens(f, start) <= e, e < end
  PROVE  Total(LastedBy(f, start, end, e + 1)) = Total(LastedBy(f, start, end, e)) + InEffect(f, e)
<1> DEFINE x == Max({t \in DOMAIN f : t <= e})
           a == LastedBy(f, start, end, e)
           b == LastedBy(f, start, end, e + 1)
           from(t) == EffectiveFrom(f, start, t)
           until(t) == Until(f, start, end, t)
           o == Opens(f, start)
<1>1. InEffect(f, e) = f[x] /\ x \in DOMAIN f /\ x <= e /\ \A t \in DOMAIN f : t <= e => t <= x
  BY InEffectIs
<1>2. DOMAIN f \subseteq Nat /\ IsFiniteSet(DOMAIN f) /\ \A t \in DOMAIN f : f[t] \in Int
  BY DEF Window
<1>3. o \in Nat /\ \A t \in DOMAIN f : from(t) = Larger(t, o) /\ from(t) \in Nat
  BY EffectiveFacts
<1>4. \A t \in DOMAIN f : until(t) \in Nat /\ from(t) <= until(t)
                          /\ \A u \in DOMAIN f : t < u => until(t) <= from(u)
  BY UntilFacts
<1>5. e + 1 \in Nat
  OBVIOUS
<1>6. /\ \A t \in DOMAIN f : a[t] = f[t] * (Clip(until(t), e) - Clip(from(t), e)) /\ a[t] \in Int
      /\ \A t \in DOMAIN f : b[t] = f[t] * (Clip(until(t), e + 1) - Clip(from(t), e + 1)) /\ b[t] \in Int
  BY <1>5, LastedType
<1>7. DOMAIN a = DOMAIN f /\ DOMAIN b = DOMAIN f
  BY DEF LastedBy
<1>8. from(x) <= e /\ e < until(x)
  <2>1. from(x) <= e
    BY <1>1, <1>2, <1>3 DEF Larger
  <2>2. \A u \in DOMAIN f : x < u => e < u
    BY <1>1, <1>2
  <2>3. e < until(x)
    BY <1>1, <2>2, UntilFacts
  <2> QED
    BY <2>1, <2>3
<1> HIDE DEF a, b, x, o
<1>9. b[x] - a[x] = f[x]
  <2>1. Clip(until(x), e) = e /\ Clip(until(x), e + 1) = e + 1 /\ Clip(from(x), e) = from(x)
        /\ Clip(from(x), e + 1) = from(x)
    BY <1>1, <1>3, <1>4, <1>8 DEF Clip
  <2>2. f[x] \in Int /\ from(x) \in Nat
    BY <1>1, <1>2, <1>3
  <2>3. a[x] = f[x] * (e - from(x)) /\ b[x] = f[x] * (e + 1 - from(x))
    <3>1. /\ a[x] = f[x] * (Clip(until(x), e) - Clip(from(x), e))
          /\ b[x] = f[x] * (Clip(until(x), e + 1) - Clip(from(x), e + 1))
      BY <1>1, <1>6, Zenon
    <3> HIDE DEF from, until
    <3>2. Clip(until(x), e) - Clip(from(x), e) = e - from(x)
      BY <2>1, <2>2
    <3>3. Clip(until(x), e + 1) - Clip(from(x), e + 1) = e + 1 - from(x)
      BY <2>1, <2>2
    <3> QED
      BY <3>1, <3>2, <3>3, Zenon
  <2> HIDE DEF from
  <2>4. f[x] * (e + 1 - from(x)) - f[x] * (e - from(x)) = f[x]
    BY <2>2, OneMore
  <2> QED
    BY <2>3, <2>4
<1>10. ASSUME NEW t \in DOMAIN f, t # x PROVE b[t] = a[t]
  <2>0. t \in Nat /\ x \in Nat /\ from(t) \in Nat /\ until(t) \in Nat /\ from(t) <= until(t)
    BY <1>1, <1>2, <1>3, <1>4
  <2>1. CASE t < x
    <3>1. until(t) <= e
      <4>1. until(t) <= from(x) /\ from(x) \in Nat
        BY <1>1, <1>3, <1>4, <2>1
      <4> QED
        BY <1>8, <2>0, <4>1
    <3>2. Clip(until(t), e) = Clip(until(t), e + 1) /\ Clip(from(t), e) = Clip(from(t), e + 1)
      BY <2>0, <3>1 DEF Clip
    <3> QED
      BY <1>6, <3>2
  <2>2. CASE x < t
    <3>1. e < t
      BY <1>1, <2>0, <2>2
    <3>2. e + 1 <= from(t)
      BY <1>3, <2>0, <3>1 DEF Larger
    <3>3. /\ Clip(until(t), e) = e /\ Clip(from(t), e) = e
          /\ Clip(until(t), e + 1) = e + 1 /\ Clip(from(t), e + 1) = e + 1
      BY <2>0, <3>2 DEF Clip
    <3>4. a[t] = f[t] * (e - e) /\ b[t] = f[t] * ((e + 1) - (e + 1)) /\ f[t] \in Int
      BY <1>2, <1>6, <3>3
    <3> QED
      BY <3>4
  <2> QED
    BY <1>10, <2>0, <2>1, <2>2
<1>11. Total(b) = Total(a) + (b[x] - a[x])
  BY <1>1, <1>2, <1>6, <1>7, <1>10, TotalOneRow
<1> QED
  BY <1>1, <1>9, <1>11 DEF a, b

LEMMA UnitsType ==
  ASSUME NEW f, NEW start \in Nat, NEW end \in Nat, start < end, Window(f, end), NEW e \in Nat
  PROVE  /\ DOMAIN UnitsBy(f, start, e) = Opens(f, start)..(e - 1)
         /\ IsFiniteSet(DOMAIN UnitsBy(f, start, e))
         /\ \A u \in DOMAIN UnitsBy(f, start, e) :
              UnitsBy(f, start, e)[u] = InEffect(f, u) /\ UnitsBy(f, start, e)[u] \in Int
<1> DEFINE g == UnitsBy(f, start, e)
           o == Opens(f, start)
<1>1. o \in Nat
  BY EffectiveFacts
<1>2. DOMAIN g = o..(e - 1) /\ \A u \in o..(e - 1) : g[u] = InEffect(f, u)
  BY Zenon DEF UnitsBy
<1> HIDE DEF g
<1>3. ASSUME NEW u \in o..(e - 1) PROVE InEffect(f, u) \in Int
  <2>1. u \in Nat /\ o <= u
    BY <1>1
  <2>2. /\ InEffect(f, u) = f[Max({t \in DOMAIN f : t <= u})]
        /\ Max({t \in DOMAIN f : t <= u}) \in DOMAIN f
    BY <2>1, InEffectIs
  <2> QED
    BY <2>2 DEF Window
<1>4. IsFiniteSet(o..(e - 1))
  <2>1. o \in Int /\ e - 1 \in Int
    BY <1>1
  <2> QED
    BY <2>1, FS_Interval
<1> QED
  BY <1>2, <1>3, <1>4 DEF g

\* What the readings lasted is what was in effect, unit by unit.
LEMMA SumsAlike ==
  ASSUME NEW f, NEW start \in Nat, NEW end \in Nat, start < end, Window(f, end)
  PROVE  Total(LastedBy(f, start, end, end)) = Total(UnitsBy(f, start, end))
<1> DEFINE o == Opens(f, start)
           L(e) == Total(LastedBy(f, start, end, e))
           U(e) == Total(UnitsBy(f, start, e))
           Bad == {e \in Nat : o <= e /\ e <= end /\ L(e) # U(e)}
<1>1. o \in Nat /\ o < end
  BY EffectiveFacts
<1>2. L(o) = 0
  <2> DEFINE a == LastedBy(f, start, end, o)
  <2>1. DOMAIN a = DOMAIN f /\ IsFiniteSet(DOMAIN f)
    BY DEF LastedBy, Window
  <2>2. ASSUME NEW t \in DOMAIN f PROVE a[t] = 0
    <3> DEFINE from == EffectiveFrom(f, start, t)
               until == Until(f, start, end, t)
    <3>1. a[t] = f[t] * (Clip(until, o) - Clip(from, o)) /\ f[t] \in Int
      BY <1>1, LastedType DEF Window
    <3>2. until \in Nat /\ o <= until /\ from = Larger(t, o) /\ t \in Nat
      BY UntilFacts, EffectiveFacts
    <3> HIDE DEF from, until, o, a
    <3>3. Clip(until, o) = o /\ Clip(from, o) = o
      BY <1>1, <3>2 DEF Clip, Larger
    <3>4. Clip(until, o) - Clip(from, o) = 0
      BY <1>1, <3>3
    <3> QED
      BY <3>1, <3>4
  <2> HIDE DEF a
  <2>3. Total(a) = 0
    BY <2>1, <2>2, TotalZero
  <2> QED
    BY <2>3 DEF a
<1>3. U(o) = 0
  <2>1. DOMAIN UnitsBy(f, start, o) = o..(o - 1)
    BY <1>1, UnitsType
  <2>2. o..(o - 1) = {}
    BY <1>1
  <2> HIDE DEF o
  <2> QED
    BY <2>1, <2>2, TotalEmpty
<1>4. ASSUME NEW e \in Nat, o <= e, e < end PROVE L(e + 1) = L(e) + InEffect(f, e) /\ U(e + 1) = U(e) + InEffect(f, e)
  <2> DEFINE g == UnitsBy(f, start, e + 1)
             h == UnitsBy(f, start, e)
  <2>1. e + 1 \in Nat /\ (e + 1) - 1 = e /\ e \in o..e /\ (o..e) \ {e} = o..(e - 1)
    BY <1>1, <1>4
  <2>2. /\ DOMAIN g = o..e /\ IsFiniteSet(DOMAIN g)
        /\ \A u \in DOMAIN g : g[u] = InEffect(f, u) /\ g[u] \in Int
    BY <2>1, UnitsType
  <2>3. DOMAIN h = o..(e - 1) /\ \A u \in DOMAIN h : h[u] = InEffect(f, u)
    BY <1>4, UnitsType
  <2>4. Without(g, e) = h
    <3>1. Without(g, e) = [u \in o..(e - 1) |-> g[u]]
      BY <2>1, <2>2, Zenon DEF Without
    <3>2. h = [u \in o..(e - 1) |-> h[u]]
      BY <2>3 DEF UnitsBy
    <3>3. \A u \in o..(e - 1) : g[u] = h[u]
      <4>1. \A u \in o..(e - 1) : u \in o..e
        BY <2>1
      <4> QED
        BY <2>2, <2>3, <4>1
    <3> HIDE DEF g, h
    <3> QED
      BY <3>1, <3>2, <3>3, Zenon
  <2> HIDE DEF g, h
  <2>5. Total(g) = g[e] + Total(Without(g, e))
    BY <2>1, <2>2, TotalRemove
  <2>6. Total(g) = InEffect(f, e) + Total(h) /\ Total(h) \in Int /\ InEffect(f, e) \in Int
    <3>1. IsFiniteSet(DOMAIN h)
      BY <1>4, UnitsType DEF h
    <3>2. \A u \in DOMAIN h : h[u] \in Int
      BY <1>4, UnitsType DEF h
    <3>3. Total(h) \in Int
      BY <3>1, <3>2, TotalType
    <3>4. g[e] = InEffect(f, e) /\ g[e] \in Int
      BY <2>1, <2>2
    <3> QED
      BY <2>4, <2>5, <3>3, <3>4
  <2>7. Total(g) = Total(h) + InEffect(f, e)
    BY <2>6
  <2>8. L(e + 1) = L(e) + InEffect(f, e)
    BY <1>4, OneUnit
  <2> QED
    BY <2>7, <2>8 DEF g, h
<1> HIDE DEF L, U
<1>5. ASSUME Bad # {} PROVE FALSE
  <2>1. PICK e \in Bad : \A d \in Bad : e <= d
    BY <1>5, LeastExists
  <2>2. e \in Nat /\ o <= e /\ e <= end /\ L(e) # U(e)
    BY <2>1
  <2>3. e # o
    BY <1>2, <1>3, <2>2
  <2>4. e - 1 \in Nat /\ o <= e - 1 /\ e - 1 < end /\ (e - 1) + 1 = e
    BY <1>1, <2>2, <2>3
  <2>5. L(e - 1) = U(e - 1)
    <3>1. e - 1 \notin Bad
      BY <2>1, <2>4
    <3> QED
      BY <2>4, <3>1
  <2>6. L((e - 1) + 1) = L(e - 1) + InEffect(f, e - 1) /\ U((e - 1) + 1) = U(e - 1) + InEffect(f, e - 1)
    BY <1>4, <2>4
  <2> QED
    BY <2>2, <2>4, <2>5, <2>6
<1>6. L(end) = U(end)
  <2>1. end \notin Bad
    BY <1>5
  <2> QED
    BY <1>1, <2>1
<1> QED
  BY <1>6 DEF L, U

LEMMA MeanTotal ==
  ASSUME NEW f, NEW start \in Nat, NEW end \in Nat, start < end, Window(f, end)
  PROVE  /\ Total(Lasted(f, start, end)) = Total(UnitsBy(f, start, end))
         /\ Total(Lasted(f, start, end)) \in Int
<1>1. \A t \in DOMAIN f : LastedBy(f, start, end, end)[t] = Lasted(f, start, end)[t]
  <2> SUFFICES ASSUME NEW t \in DOMAIN f PROVE LastedBy(f, start, end, end)[t] = Lasted(f, start, end)[t]
    OBVIOUS
  <2>1. Until(f, start, end, t) \in Nat /\ Until(f, start, end, t) <= end
        /\ EffectiveFrom(f, start, t) \in Nat /\ EffectiveFrom(f, start, t) < end
    BY UntilFacts, EffectiveFacts
  <2>2. Clip(Until(f, start, end, t), end) = Until(f, start, end, t)
        /\ Clip(EffectiveFrom(f, start, t), end) = EffectiveFrom(f, start, t)
    BY <2>1 DEF Clip
  <2> QED
    BY <2>2, Zenon DEF LastedBy, Lasted
<1> DEFINE a == LastedBy(f, start, end, end)
           b == Lasted(f, start, end)
<1>2. DOMAIN a = DOMAIN f /\ DOMAIN b = DOMAIN f /\ IsFiniteSet(DOMAIN f)
  BY DEF LastedBy, Lasted, Window
<1>3. \A t \in DOMAIN a : a[t] \in Int
  BY <1>2, LastedType
<1> HIDE DEF a, b
<1>4. Total(a) = Total(b)
  BY <1>1, <1>2, TotalSame DEF a, b
<1>5. Total(a) \in Int
  BY <1>2, <1>3, TotalType
<1> QED
  BY <1>4, <1>5, SumsAlike DEF a, b

\* The mean the add-on accumulates is the average over the units of time.
LEMMA MeanIs ==
  ASSUME NEW f, NEW start \in Nat, NEW end \in Nat, start < end, Window(f, end)
  PROVE  /\ TimeWeightedMean(f, start, end) = MeanByTheUnit(f, start, end)
         /\ TimeWeightedMean(f, start, end) \in Int
<1> DEFINE o == Opens(f, start)
           units == {u \in start..(end - 1) : \E t \in DOMAIN f : t <= u}
           m == Min(DOMAIN f)
<1>1. o \in Nat /\ start <= o /\ o < end /\ m \in DOMAIN f /\ m <= o
  BY EffectiveFacts
<1>2. o = Larger(m, start) /\ \A t \in DOMAIN f : m <= t
  <2>1. \A t \in DOMAIN f : m <= t
    BY FirstInstant DEF Window
  <2>2. o = Larger(m, Larger(m, start))
    BY DEF Opens, EffectiveFrom
  <2>3. m \in Nat
    BY <1>1 DEF Window
  <2> HIDE DEF m
  <2> QED
    BY <2>1, <2>2, <2>3 DEF Larger
<1>3. DOMAIN f \subseteq Nat
  BY DEF Window
<1> HIDE DEF o, m
<1>4. units = o..(end - 1)
  <2>1. ASSUME NEW u \in start..(end - 1), NEW t \in DOMAIN f, t <= u PROVE o <= u
    BY <1>1, <1>2, <1>3, <2>1 DEF Larger
  <2>2. ASSUME NEW u \in o..(end - 1) PROVE u \in start..(end - 1) /\ m <= u
    BY <1>1, <1>3, <2>2
  <2>3. units \subseteq o..(end - 1)
    BY <1>1, <2>1
  <2>4. o..(end - 1) \subseteq units
    BY <1>1, <2>2
  <2> QED
    BY <2>3, <2>4
<1>5. Cardinality(units) = end - o
  <2>1. Cardinality(o..(end - 1)) = IF o > end - 1 THEN 0 ELSE (end - 1) - o + 1
    <3>1. o \in Int /\ end - 1 \in Int
      BY <1>1
    <3> QED
      BY <3>1, FS_Interval
  <2> HIDE DEF units
  <2> QED
    BY <1>1, <1>4, <2>1
<1>6. [u \in units |-> InEffect(f, u)] = UnitsBy(f, start, end)
  BY <1>4, Zenon DEF UnitsBy, o
<1>7. MeanByTheUnit(f, start, end) = (Scale * Total(UnitsBy(f, start, end))) \div (end - o)
  BY <1>5, <1>6, Zenon DEF MeanByTheUnit
<1>8. TimeWeightedMean(f, start, end) = (Scale * Total(Lasted(f, start, end))) \div (end - o)
  <2>1. ~(end <= o)
    BY <1>1
  <2> QED
    BY <2>1, MeanDef DEF o
<1> DEFINE total == Total(Lasted(f, start, end))
<1>9. total \in Int /\ total = Total(UnitsBy(f, start, end))
  BY MeanTotal
<1> HIDE DEF total, units
<1>10. (Scale * total) \div (end - o) \in Int
  <2>1. Scale * total \in Int
    BY <1>9, ScaleAssumption
  <2>2. end - o \in Nat \ {0}
    BY <1>1
  <2> QED
    BY <2>1, <2>2, DivisionFacts
<1> QED
  BY <1>7, <1>8, <1>9, <1>10 DEF total

-----------------------------------------------------------------------------
(***************************************************************************)
(* Type correctness.  A row is rebuilt whole or is a row of NULLs; so an   *)
(* hour that has a mean has a least and a greatest reading too.            *)
(***************************************************************************)
FullRow == [mean : Int, min : Readings, max : Readings]

GoodRow == FullRow \cup {NoReading}

LEMMA GoodRowIsRow == GoodRow \subseteq Row
  BY DEF GoodRow, FullRow, NoReading, Row

LEMMA GoodRowFacts ==
  ASSUME NEW row \in GoodRow
  PROVE  /\ row.mean # Null => row \in FullRow
         /\ row # NoReading => row.mean # Null
  BY NullAssumption DEF GoodRow, FullRow, NoReading

LEMMA BucketWindow ==
  ASSUME NEW rows, NEW N \in Nat, DOMAIN rows \subseteq 0..N, NEW s \in Nat
  PROVE  /\ DOMAIN ReadingsWith(rows, s, s + Width) # {} => Window(ReadingsWith(rows, s, s + Width), s + Width)
         /\ \A t \in DOMAIN ReadingsWith(rows, s, s + Width) : ReadingsWith(rows, s, s + Width)[t] \in Readings
<1> DEFINE f == ReadingsWith(rows, s, s + Width)
           I == {u \in DOMAIN rows : s <= u /\ u < s + Width /\ rows[u] \in Readings}
           C == CarriedIn(rows, s)
<1>w. Width \in Nat \ {0}
  BY WidthsAssumption
<1>1. DOMAIN f = C \cup I /\ \A t \in C \cup I : f[t] = rows[t]
  BY Zenon DEF ReadingsWith
<1>2. \A t \in C : t \in DOMAIN rows /\ t < s /\ rows[t] \in Readings
  <2>1. DOMAIN rows \subseteq Nat
    OBVIOUS
  <2> QED
    BY <2>1, CarriedInIs
<1> HIDE DEF f, C
<1>3. \A t \in DOMAIN f : t \in DOMAIN rows /\ t \in 0..N /\ t < s + Width /\ f[t] \in Readings
  BY <1>1, <1>2, <1>w
<1>4. IsFiniteSet(DOMAIN f)
  <2>1. DOMAIN f \subseteq 0..N
    BY <1>3
  <2>2. IsFiniteSet(0..N)
    <3>1. 0 \in Int /\ N \in Int
      OBVIOUS
    <3> QED
      BY <3>1, FS_Interval
  <2> QED
    BY <2>1, <2>2, FS_Subset
<1>5. ASSUME DOMAIN f # {} PROVE Window(f, s + Width)
  <2>1. ASSUME NEW t \in DOMAIN f PROVE f[t] \in Int /\ t \in Nat /\ t < s + Width
    <3>1. f[t] \in Readings /\ t \in 0..N /\ t < s + Width
      BY <1>3
    <3>2. f[t] \in Int
      BY <3>1, ReadingsAssumption
    <3> QED
      BY <3>1, <3>2
  <2> QED
    BY <1>4, <1>5, <2>1, Zenon DEF Window
<1>6. \A t \in DOMAIN f : f[t] \in Readings
  BY <1>3
<1> QED
  BY <1>5, <1>6, Zenon DEF f

LEMMA RebuiltType ==
  ASSUME NEW rows, NEW N \in Nat, DOMAIN rows \subseteq 0..N, NEW s \in Nat
  PROVE  Rebuilt(rows, s) \in GoodRow
<1> DEFINE f == ReadingsWith(rows, s, s + Width)
<1>w. Width \in Nat \ {0}
  BY WidthsAssumption
<1>1. /\ DOMAIN f # {} => Window(f, s + Width)
      /\ \A t \in DOMAIN f : f[t] \in Readings
  BY BucketWindow
<1>2. Rebuilt(rows, s) = RecomputeShortTerm(f, s)
  BY Zenon DEF Rebuilt
<1> HIDE DEF f
<1>3. CASE DOMAIN f = {}
  BY <1>2, <1>3 DEF RecomputeShortTerm, GoodRow
<1>4. CASE DOMAIN f # {}
  <2>1. Rebuilt(rows, s) = [mean |-> TimeWeightedMean(f, s, s + Width), min |-> Min(ValuesOf(f)), max |-> Max(ValuesOf(f))]
    BY <1>2, <1>4, Zenon DEF RecomputeShortTerm
  <2>2. TimeWeightedMean(f, s, s + Width) \in Int
    <3>1. s + Width \in Nat /\ s < s + Width /\ Window(f, s + Width)
      BY <1>w, <1>1, <1>4
    <3> QED
      BY <3>1, MeanIs
  <2>3. Min(ValuesOf(f)) \in ValuesOf(f) /\ Max(ValuesOf(f)) \in ValuesOf(f)
    <3>1. IsFiniteSet(DOMAIN f) /\ \A t \in DOMAIN f : f[t] \in Int
      BY <1>1, <1>4 DEF Window
    <3> QED
      BY <3>1, <1>4, ExtremeValues DEF ValuesOf
  <2>4. ValuesOf(f) \subseteq Readings
    BY <1>1 DEF ValuesOf
  <2>5. Min(ValuesOf(f)) \in Readings /\ Max(ValuesOf(f)) \in Readings
    BY <2>3, <2>4
  <2>6. Rebuilt(rows, s) \in FullRow
    BY <2>1, <2>2, <2>5 DEF FullRow
  <2> QED
    BY <2>6 DEF GoodRow
<1> QED
  BY <1>3, <1>4

LEMMA SummaryType ==
  ASSUME NEW buckets, IsFiniteSet(DOMAIN buckets), \A s \in DOMAIN buckets : buckets[s] \in GoodRow
  PROVE  SummariseHourly(buckets) \in GoodRow
<1> DEFINE known == {s \in DOMAIN buckets : buckets[s].mean # Null}
           means == [s \in known |-> buckets[s].mean]
           least == [s \in known |-> buckets[s].min]
           greatest == [s \in known |-> buckets[s].max]
<1>1. SummariseHourly(buckets)
        = IF known = {} THEN NoReading
          ELSE [mean |-> Total(means) \div Cardinality(known),
                min |-> Min({buckets[s].min : s \in known}),
                max |-> Max({buckets[s].max : s \in known})]
  BY Zenon DEF SummariseHourly
<1>2. known \subseteq DOMAIN buckets /\ \A s \in known : buckets[s] \in FullRow
  BY GoodRowFacts
<1>3. IsFiniteSet(known)
  BY <1>2, FS_Subset
<1>4. \A s \in known : buckets[s].mean \in Int /\ buckets[s].min \in Readings /\ buckets[s].max \in Readings
  BY <1>2 DEF FullRow
<1> HIDE DEF known
<1>5. CASE known = {}
  BY <1>1, <1>5 DEF GoodRow
<1>6. CASE known # {}
  <2>1. Total(means) \in Int
    <3>1. DOMAIN means = known /\ \A s \in known : means[s] \in Int
      BY <1>4
    <3> HIDE DEF means
    <3> QED
      BY <3>1, <1>3, TotalType
  <2>2. Cardinality(known) \in Nat \ {0}
    BY <1>3, <1>6, FS_CardinalityType, FS_EmptySet
  <2>3. Total(means) \div Cardinality(known) \in Int
    <3> HIDE DEF means
    <3> QED
      BY <2>1, <2>2, DivisionFacts
  <2>4. Min({buckets[s].min : s \in known}) \in Readings
    <3>1. DOMAIN least = known /\ \A s \in known : least[s] = buckets[s].min /\ least[s] \in Int
      BY <1>4, ReadingsAssumption
    <3> HIDE DEF least
    <3>2. Min({least[s] : s \in DOMAIN least}) \in {least[s] : s \in DOMAIN least}
      BY <3>1, <1>3, <1>6, ExtremeValues
    <3>3. {least[s] : s \in DOMAIN least} = {buckets[s].min : s \in known}
      BY <3>1
    <3>4. Min({buckets[s].min : s \in known}) \in {buckets[s].min : s \in known}
      BY <3>2, <3>3
    <3> QED
      BY <3>4, <1>4
  <2>5. Max({buckets[s].max : s \in known}) \in Readings
    <3>1. DOMAIN greatest = known /\ \A s \in known : greatest[s] = buckets[s].max /\ greatest[s] \in Int
      BY <1>4, ReadingsAssumption
    <3> HIDE DEF greatest
    <3>2. Max({greatest[s] : s \in DOMAIN greatest}) \in {greatest[s] : s \in DOMAIN greatest}
      BY <3>1, <1>3, <1>6, ExtremeValues
    <3>3. {greatest[s] : s \in DOMAIN greatest} = {buckets[s].max : s \in known}
      BY <3>1
    <3>4. Max({buckets[s].max : s \in known}) \in {buckets[s].max : s \in known}
      BY <3>2, <3>3
    <3> QED
      BY <3>4, <1>4
  <2> HIDE DEF means
  <2>6. SummariseHourly(buckets) \in FullRow
    BY <1>1, <1>6, <2>3, <2>4, <2>5 DEF FullRow
  <2> QED
    BY <2>6 DEF GoodRow
<1> QED
  BY <1>5, <1>6

RowsGood(table) == \A s \in DOMAIN table : table[s] \in GoodRow

LEMMA BucketsFinite == ASSUME NEW h \in Nat PROVE IsFiniteSet(SubBuckets(h)) /\ SubBuckets(h) \subseteq Nat
<1>w. Width \in Nat \ {0} /\ Hour \div Width \in Int
  BY WidthsAssumption, DivisionFacts
<1> DEFINE K == 0..(Hour \div Width - 1)
<1>1. IsFiniteSet(K)
  <2>1. 0 \in Int /\ Hour \div Width - 1 \in Int
    BY <1>w
  <2> QED
    BY <2>1, FS_Interval
<1>2. SubBuckets(h) = {h + Width * k : k \in K}
  BY Zenon DEF SubBuckets
<1>3. \A k \in K : h + Width * k \in Nat
  <2> TAKE k \in K
  <2>1. k \in Nat
    BY <1>w
  <2>2. Width * k \in Nat
    BY <1>w, <2>1
  <2> QED
    BY <2>2
<1> HIDE DEF K
<1>4. IsFiniteSet({h + Width * k : k \in K})
  <2> DEFINE T == {h + Width * k : k \in K}
             f == [k \in K |-> h + Width * k]
  <2>1. f \in [K -> T] /\ \A t \in T : \E k \in K : f[k] = t
    OBVIOUS
  <2> HIDE DEF f, T
  <2>2. f \in Surjection(K, T)
    BY <2>1, Zenon DEF Surjection
  <2> QED
    BY <2>2, <1>1, FS_Surjection DEF T
<1>5. {h + Width * k : k \in K} \subseteq Nat
  BY <1>3
<1> QED
  BY <1>2, <1>4, <1>5, Zenon

LEMMA SiblingsType ==
  ASSUME NEW rows, NEW N \in Nat, DOMAIN rows \subseteq 0..N,
         NEW table, DOMAIN table \subseteq 0..N, RowsGood(table), NEW h \in Nat
  PROVE  SummariseHourly(Siblings(rows, table, h)) \in GoodRow
<1> DEFINE kept == Within(table, h, h + Hour)
           raw == {s \in SubBuckets(h) : DOMAIN ReadingsWith(rows, s, s + Width) # {}}
           rebuilt == [s \in raw |-> Rebuilt(rows, s)]
<1>1. Siblings(rows, table, h) = IF DOMAIN kept # {} THEN kept ELSE rebuilt
  BY Zenon DEF Siblings
<1>2. IsFiniteSet(DOMAIN kept) /\ \A s \in DOMAIN kept : kept[s] \in GoodRow
  <2>1. DOMAIN kept \subseteq DOMAIN table /\ \A s \in DOMAIN kept : kept[s] = table[s]
    BY Zenon DEF Within
  <2>2. IsFiniteSet(0..N)
    <3>1. 0 \in Int /\ N \in Int
      OBVIOUS
    <3> QED
      BY <3>1, FS_Interval
  <2> HIDE DEF kept
  <2>3. DOMAIN kept \subseteq 0..N
    BY <2>1
  <2> QED
    BY <2>1, <2>2, <2>3, FS_Subset DEF RowsGood
<1>3. IsFiniteSet(DOMAIN rebuilt) /\ \A s \in DOMAIN rebuilt : rebuilt[s] \in GoodRow
  <2>1. DOMAIN rebuilt = raw /\ \A s \in raw : rebuilt[s] = Rebuilt(rows, s)
    OBVIOUS
  <2>2. raw \subseteq SubBuckets(h)
    OBVIOUS
  <2> HIDE DEF rebuilt, raw
  <2>3. IsFiniteSet(raw)
    BY <2>2, BucketsFinite, FS_Subset
  <2>4. ASSUME NEW s \in raw PROVE Rebuilt(rows, s) \in GoodRow
    <3>1. s \in Nat
      BY <2>2, BucketsFinite
    <3> QED
      BY <3>1, RebuiltType
  <2> QED
    BY <2>1, <2>3, <2>4
<1> HIDE DEF kept, rebuilt
<1> QED
  BY <1>1, <1>2, <1>3, SummaryType

-----------------------------------------------------------------------------
StatesOK ==
  /\ DOMAIN states \subseteq Times
  /\ \A t \in DOMAIN states : states[t] \in Readings \cup {Unavailable}

Entry == [ts : Times, orig : Readings \cup {Unavailable}, corrected : Readings,
          short : GoodRow, hour : GoodRow, restored : BOOLEAN]

EntriesOK ==
  /\ \E n \in 0..MaxCorrections : DOMAIN audit = 1..n
  /\ \A i \in DOMAIN audit : audit[i] \in Entry

TypeInv == HoursInv /\ StatesOK /\ RowsGood(short) /\ RowsGood(hourly) /\ EntriesOK

LEMMA TypeInvImplies == TypeInv => TypeOK
<1> SUFFICES ASSUME TypeInv PROVE TypeOK
  OBVIOUS
<1>w. Hour \in Nat \ {0} /\ Width \in Nat \ {0}
  BY WidthsAssumption
<1>1. /\ now \in 0..MaxTime /\ compiled \in Nat /\ compiled % Width = 0 /\ compiled <= now
      /\ \A s \in DOMAIN short : s \in Nat /\ s % Width = 0 /\ s < compiled
      /\ \A h \in DOMAIN hourly : h \in Nat /\ h % Hour = 0 /\ h + Hour <= compiled
  BY DEF TypeInv, HoursInv, ClockOK, StartsOK
<1>2. compiled \in {s \in 0..MaxTime : s % Width = 0}
  BY <1>1, MaxTimeAssumption
<1>3. \A h \in DOMAIN hourly : h \in Hours /\ h < compiled
  BY <1>1, <1>w, MaxTimeAssumption DEF Hours, Times
<1>4. \A s \in DOMAIN short : s \in Starts /\ s < compiled
  BY <1>1, MaxTimeAssumption DEF Starts, Times
<1>5. /\ DOMAIN short \subseteq {s \in Starts : s < compiled} /\ \A s \in DOMAIN short : short[s] \in Row
      /\ DOMAIN hourly \subseteq {h \in Hours : h < compiled} /\ \A h \in DOMAIN hourly : hourly[h] \in Row
  BY <1>3, <1>4, GoodRowIsRow DEF TypeInv, RowsGood
<1>6. DOMAIN audit \in {1..n : n \in 0..MaxCorrections}
  BY DEF TypeInv, EntriesOK
<1>7. \A i \in DOMAIN audit : audit[i] \in Correction
  <2> SUFFICES ASSUME NEW i \in DOMAIN audit PROVE audit[i] \in Correction
    OBVIOUS
  <2>1. audit[i] \in Entry
    BY DEF TypeInv, EntriesOK
  <2> QED
    BY <2>1, GoodRowIsRow DEF Entry, Correction
<1>8. TablesOK(Row)
  BY <1>1, <1>2, <1>5, <1>6 DEF TypeInv, StatesOK, TablesOK
<1> QED
  BY <1>7, <1>8 DEF TypeOK

LEMMA InitType == Init => TypeInv
<1> SUFFICES ASSUME Init PROVE TypeInv
  OBVIOUS
<1>1. DOMAIN states = {} /\ DOMAIN short = {} /\ DOMAIN hourly = {} /\ DOMAIN audit = {}
  BY DEF Init
<1>2. 0 \in 0..MaxCorrections /\ 1..0 = {}
  BY MaxCorrectionsAssumption
<1>3. EntriesOK
  BY <1>1, <1>2 DEF EntriesOK
<1> QED
  BY <1>1, <1>3, InitHours DEF TypeInv, StatesOK, RowsGood

LEMMA Bounded ==
  ASSUME TypeInv
  PROVE  /\ MaxTime \in Nat /\ DOMAIN states \subseteq 0..MaxTime /\ DOMAIN short \subseteq 0..MaxTime
<1>1. /\ now \in 0..MaxTime /\ compiled \in Nat /\ compiled <= now
      /\ \A s \in DOMAIN short : s \in Nat /\ s < compiled
  BY DEF TypeInv, HoursInv, ClockOK, StartsOK
<1>2. DOMAIN states \subseteq Times
  BY DEF TypeInv, StatesOK
<1> QED
  BY <1>1, <1>2, MaxTimeAssumption DEF Times

\* The readings after a reading is replaced by another.
LEMMA PutReading ==
  ASSUME StatesOK, NEW ts \in DOMAIN states, NEW v \in Readings \cup {Unavailable},
         states' = Put(states, ts, v)
  PROVE  StatesOK' /\ DOMAIN states' = DOMAIN states
<1> DEFINE new == Put(states, ts, v)
<1>0. /\ DOMAIN new = DOMAIN states \cup {ts} /\ new[ts] = v
      /\ \A t \in DOMAIN states \ {ts} : new[t] = states[t]
  BY Zenon DEF Put
<1>1. states' = new
  OBVIOUS
<1> HIDE DEF new
<1>2. DOMAIN states' = DOMAIN states \cup {ts} /\ states'[ts] = v
      /\ \A t \in DOMAIN states \ {ts} : states'[t] = states[t]
  BY <1>0, <1>1
<1>3. \A t \in DOMAIN states : states'[t] \in Readings \cup {Unavailable}
  BY <1>2 DEF StatesOK
<1>4. DOMAIN states' = DOMAIN states
  BY <1>2
<1> QED
  BY <1>3, <1>4, Zenon DEF StatesOK

LEMMA ReportType == ASSUME TypeInv, NEW v, Report(v) PROVE StatesOK'
<1>1. now < MaxTime /\ v \in Reported[now] /\ states' = IF v = Nothing THEN states ELSE Put(states, now, v)
  BY DEF Report
<1>2. now \in Times /\ v \in Readings \cup {Unavailable, Nothing}
  BY <1>1, MaxTimeAssumption, ReportedAssumption DEF TypeInv, HoursInv, ClockOK, Times
<1>3. CASE v = Nothing
  BY <1>1, <1>3 DEF TypeInv, StatesOK
<1>4. CASE v # Nothing
  <2> DEFINE new == Put(states, now, v)
  <2>1. /\ DOMAIN new = DOMAIN states \cup {now} /\ new[now] = v
        /\ \A t \in DOMAIN states \ {now} : new[t] = states[t]
    BY Zenon DEF Put
  <2>2. states' = new
    BY <1>1, <1>4
  <2> HIDE DEF new
  <2>3. DOMAIN new \subseteq Times
    BY <1>2, <2>1 DEF TypeInv, StatesOK
  <2>4. \A t \in DOMAIN new : new[t] \in Readings \cup {Unavailable}
    BY <1>2, <1>4, <2>1 DEF TypeInv, StatesOK
  <2> QED
    BY <2>2, <2>3, <2>4 DEF StatesOK
<1> QED
  BY <1>3, <1>4

\* A table with a good row more is as good.
LEMMA PutGood ==
  ASSUME NEW table, RowsGood(table), NEW s, NEW row \in GoodRow
  PROVE  RowsGood(Put(table, s, row))
<1> DEFINE new == Put(table, s, row)
<1>1. /\ DOMAIN new = DOMAIN table \cup {s} /\ new[s] = row
      /\ \A x \in DOMAIN table \ {s} : new[x] = table[x]
  BY Zenon DEF Put
<1> HIDE DEF new
<1>2. \A x \in DOMAIN new : new[x] \in GoodRow
  BY <1>1 DEF RowsGood
<1> QED
  BY <1>2, Zenon DEF RowsGood, new

LEMMA UpdatedGood ==
  ASSUME NEW table, RowsGood(table), NEW new, RowsGood(new)
  PROVE  RowsGood(Updated(table, new)) /\ DOMAIN Updated(table, new) = DOMAIN table
<1> DEFINE u == Updated(table, new)
<1>1. /\ DOMAIN u = DOMAIN table
      /\ \A x \in DOMAIN table : (x \in DOMAIN new => u[x] = new[x]) /\ (x \notin DOMAIN new => u[x] = table[x])
  BY UpdatedRows
<1> HIDE DEF u
<1>2. \A x \in DOMAIN u : u[x] \in GoodRow
  BY <1>1 DEF RowsGood
<1> QED
  BY <1>1, <1>2, Zenon DEF RowsGood, u

LEMMA CompileType == ASSUME TypeInv, Compile PROVE RowsGood(short)' /\ RowsGood(hourly)'
<1> DEFINE hour == HourOf(compiled)
           row == Rebuilt(states, compiled)
<1>1. PICK table \in {Put(short, compiled, row)} \cup (IF row = NoReading THEN {short} ELSE {}) :
        /\ short' = table
        /\ hourly' = IF compiled + Width = hour + Hour /\ DOMAIN Within(table, hour, hour + Hour) # {}
                     THEN Put(hourly, hour, SummariseHourly(Within(table, hour, hour + Hour))) ELSE hourly
  BY Zenon DEF Compile
<1>2. table = Put(short, compiled, row) \/ table = short
  BY <1>1, Zenon
<1>3. compiled + Width <= now
  BY DEF Compile
<1>c. compiled \in 0..MaxTime /\ compiled \in Nat
  BY MaxTimeAssumption DEF TypeInv, HoursInv, ClockOK
<1>4. row \in GoodRow
  BY <1>c, Bounded, RebuiltType
<1> HIDE DEF row
<1>5. RowsGood(table)
  BY <1>2, <1>4, PutGood DEF TypeInv
<1>6. DOMAIN table \subseteq 0..MaxTime
  <2>1. DOMAIN table \subseteq DOMAIN short \cup {compiled}
    BY <1>2, Zenon DEF Put
  <2> QED
    BY <2>1, <1>c, Bounded
<1>7. SummariseHourly(Within(table, hour, hour + Hour)) \in GoodRow
  <2> DEFINE f == Within(table, hour, hour + Hour)
  <2>1. DOMAIN f \subseteq DOMAIN table /\ \A s \in DOMAIN f : f[s] = table[s]
    BY Zenon DEF Within
  <2>2. IsFiniteSet(0..MaxTime)
    <3>1. 0 \in Int /\ MaxTime \in Int
      BY MaxTimeAssumption
    <3> QED
      BY <3>1, FS_Interval
  <2> HIDE DEF f
  <2>3. DOMAIN f \subseteq 0..MaxTime
    BY <2>1, <1>6
  <2>4. IsFiniteSet(DOMAIN f) /\ \A s \in DOMAIN f : f[s] \in GoodRow
    BY <2>1, <2>2, <2>3, <1>5, FS_Subset DEF RowsGood
  <2> QED
    BY <2>4, SummaryType DEF f
<1>8. RowsGood(hourly')
  <2>1. hourly' = hourly \/ hourly' = Put(hourly, hour, SummariseHourly(Within(table, hour, hour + Hour)))
    BY <1>1, Zenon
  <2>2. RowsGood(hourly)
    BY DEF TypeInv
  <2> QED
    BY <2>1, <2>2, <1>7, PutGood
<1>9. RowsGood(short)' <=> RowsGood(short')
  BY DEF RowsGood
<1>10. RowsGood(hourly)' <=> RowsGood(hourly')
  BY DEF RowsGood
<1> QED
  BY <1>1, <1>5, <1>8, <1>9, <1>10

LEMMA PurgeType == ASSUME TypeInv, NEW cut, Purge(cut) PROVE StatesOK' /\ RowsGood(short)'
<1>1. states' = Within(states, cut, MaxTime) /\ short' = Within(short, cut, MaxTime)
  BY DEF Purge
<1>2. \A f : /\ DOMAIN Within(f, cut, MaxTime) \subseteq DOMAIN f
             /\ \A t \in DOMAIN Within(f, cut, MaxTime) : Within(f, cut, MaxTime)[t] = f[t]
  BY Zenon DEF Within
<1>3. /\ DOMAIN states' \subseteq DOMAIN states /\ \A t \in DOMAIN states' : states'[t] = states[t]
      /\ DOMAIN short' \subseteq DOMAIN short /\ \A t \in DOMAIN short' : short'[t] = short[t]
  BY <1>1, <1>2
<1> QED
  BY <1>3 DEF TypeInv, StatesOK, RowsGood

LEMMA OriginalGood ==
  ASSUME NEW table, RowsGood(table), NEW s
  PROVE  Original(table, s) \in GoodRow
  BY DEF Original, RowsGood, GoodRow

LEMMA RebuiltRows ==
  ASSUME NEW rows, NEW N \in Nat, DOMAIN rows \subseteq 0..N, NEW table, RowsGood(table), NEW ts \in Nat
  PROVE  /\ RowsGood(Updated(table, [s \in AffectedStarts(ts) |-> Rebuilt(rows, s)]))
         /\ DOMAIN Updated(table, [s \in AffectedStarts(ts) |-> Rebuilt(rows, s)]) = DOMAIN table
<1> DEFINE new == [s \in AffectedStarts(ts) |-> Rebuilt(rows, s)]
<1>1. AffectedStarts(ts) \subseteq Nat
  BY BucketBounds, WidthsAssumption DEF AffectedStarts
<1>2. \A s \in AffectedStarts(ts) : Rebuilt(rows, s) \in GoodRow
  BY <1>1, RebuiltType
<1>3. RowsGood(new)
  <2>1. DOMAIN new = AffectedStarts(ts) /\ \A s \in AffectedStarts(ts) : new[s] = Rebuilt(rows, s)
    OBVIOUS
  <2> HIDE DEF new
  <2> QED
    BY <1>2, <2>1 DEF RowsGood
<1> HIDE DEF new
<1>4. RowsGood(Updated(table, new)) /\ DOMAIN Updated(table, new) = DOMAIN table
  BY <1>3, UpdatedGood
<1> QED
  BY <1>4 DEF new

LEMMA SummarisedHours ==
  ASSUME NEW rows, NEW N \in Nat, DOMAIN rows \subseteq 0..N,
         NEW table, DOMAIN table \subseteq 0..N, RowsGood(table), NEW ts \in Nat
  PROVE  RowsGood([h \in AffectedHours(ts) |-> SummariseHourly(Siblings(rows, table, h))])
<1> DEFINE new == [h \in AffectedHours(ts) |-> SummariseHourly(Siblings(rows, table, h))]
<1>1. AffectedHours(ts) \subseteq Nat
  <2>1. AffectedStarts(ts) \subseteq Nat
    BY BucketBounds, WidthsAssumption DEF AffectedStarts
  <2>2. ASSUME NEW s \in AffectedStarts(ts) PROVE HourOf(s) \in Nat
    BY <2>1, BucketBounds
  <2> QED
    BY <2>2 DEF AffectedHours
<1>2. ASSUME NEW h \in AffectedHours(ts) PROVE SummariseHourly(Siblings(rows, table, h)) \in GoodRow
  <2>1. h \in Nat
    BY <1>1
  <2> QED
    BY <2>1, SiblingsType
<1>3. DOMAIN new = AffectedHours(ts) /\ \A h \in AffectedHours(ts) : new[h] = SummariseHourly(Siblings(rows, table, h))
  OBVIOUS
<1> HIDE DEF new
<1>4. RowsGood(new)
  BY <1>2, <1>3 DEF RowsGood
<1> QED
  BY <1>4 DEF new

LEMMA CorrectType ==
  ASSUME TypeInv, NEW ts \in Times, NEW new \in Readings, Correct(ts, new)
  PROVE  StatesOK' /\ RowsGood(short)' /\ RowsGood(hourly)' /\ EntriesOK'
<1> DEFINE n == Cardinality(DOMAIN audit)
           rows == Put(states, ts, new)
           buckets == [s \in AffectedStarts(ts) |-> Rebuilt(rows, s)]
           table == Updated(short, buckets)
           hours == [h \in AffectedHours(ts) |-> SummariseHourly(Siblings(rows, table, h))]
           entry == [ts |-> ts, orig |-> states[ts], corrected |-> new,
                     short |-> Original(short, BucketStart(ts, Width)),
                     hour |-> Original(hourly, HourOf(ts)), restored |-> FALSE]
<1>1. /\ n < MaxCorrections /\ ts \in DOMAIN states
      /\ states' = rows /\ short' = table /\ hourly' = Updated(hourly, hours)
      /\ audit' = Put(audit, n + 1, entry)
  BY Zenon DEF Correct
<1>2. StatesOK' /\ DOMAIN states' = DOMAIN states
  BY <1>1, PutReading DEF TypeInv
<1>0. /\ RowsGood(short) /\ RowsGood(hourly) /\ ts \in Nat
      /\ MaxTime \in Nat /\ DOMAIN rows \subseteq 0..MaxTime /\ DOMAIN short \subseteq 0..MaxTime
  BY <1>1, <1>2, Bounded, MaxTimeAssumption DEF TypeInv, Times
<1> HIDE DEF rows
<1>3. RowsGood(table) /\ DOMAIN table = DOMAIN short
  BY <1>0, RebuiltRows
<1> HIDE DEF table
<1>4. RowsGood(hours)
  BY <1>0, <1>3, SummarisedHours
<1> HIDE DEF hours
<1>5. RowsGood(Updated(hourly, hours))
  BY <1>0, <1>4, UpdatedGood
<1>6. RowsGood(short)' /\ RowsGood(hourly)'
  <2>1. RowsGood(short') /\ RowsGood(hourly')
    BY <1>1, <1>3, <1>5
  <2> QED
    BY <2>1 DEF RowsGood
<1>7. n \in Nat /\ DOMAIN audit = 1..n
  <2>1. PICK k \in 0..MaxCorrections : DOMAIN audit = 1..k
    BY DEF TypeInv, EntriesOK
  <2>2. k \in Nat /\ 1 \in Int
    BY <2>1, MaxCorrectionsAssumption
  <2>3. Cardinality(1..k) = k
    BY <2>2, FS_Interval
  <2> QED
    BY <2>1, <2>2, <2>3
<1>8. entry \in Entry
  <2>1. states[ts] \in Readings \cup {Unavailable}
    BY <1>1 DEF TypeInv, StatesOK
  <2>2. Original(short, BucketStart(ts, Width)) \in GoodRow /\ Original(hourly, HourOf(ts)) \in GoodRow
    BY <1>0, OriginalGood
  <2> QED
    BY <2>1, <2>2 DEF Entry
<1> HIDE DEF n, entry
<1> DEFINE log == Put(audit, n + 1, entry)
<1>a. /\ DOMAIN log = DOMAIN audit \cup {n + 1} /\ log[n + 1] = entry
      /\ \A i \in DOMAIN audit \ {n + 1} : log[i] = audit[i]
  BY Zenon DEF Put
<1>b. audit' = log
  BY <1>1
<1> HIDE DEF log
<1>9. /\ DOMAIN audit' = DOMAIN audit \cup {n + 1} /\ audit'[n + 1] = entry
      /\ \A i \in DOMAIN audit \ {n + 1} : audit'[i] = audit[i]
  BY <1>a, <1>b
<1>10. n + 1 \in 0..MaxCorrections /\ DOMAIN audit' = 1..(n + 1)
  <2>1. n < MaxCorrections /\ n \in Nat
    BY <1>1, <1>7
  <2>2. n + 1 \in 0..MaxCorrections /\ 1..(n + 1) = (1..n) \cup {n + 1}
    BY <2>1, MaxCorrectionsAssumption
  <2> QED
    BY <2>2, <1>7, <1>9
<1>11. EntriesOK'
  <2>1. \A i \in DOMAIN audit' : audit'[i] \in Entry
    BY <1>8, <1>9 DEF TypeInv, EntriesOK
  <2> QED
    BY <2>1, <1>10 DEF EntriesOK
<1> QED
  BY <1>2, <1>6, <1>11

LEMMA RestoreType ==
  ASSUME TypeInv, NEW i \in DOMAIN audit, Restore(i)
  PROVE  StatesOK' /\ RowsGood(short)' /\ RowsGood(hourly)' /\ EntriesOK'
<1> DEFINE ts == audit[i].ts
           v == audit[i].orig
           buckets == [s \in {BucketStart(ts, Width)} |-> audit[i].short]
           hours == [h \in {HourOf(ts)} |-> audit[i].hour]
<1>1. /\ ts \in DOMAIN states /\ states' = Put(states, ts, v)
      /\ short' = Updated(short, buckets) /\ hourly' = Updated(hourly, hours)
      /\ audit' = [audit EXCEPT ![i].restored = TRUE]
  BY Zenon DEF Restore
<1>2. audit[i] \in Entry
  BY DEF TypeInv, EntriesOK
<1>3. v \in Readings \cup {Unavailable} /\ audit[i].short \in GoodRow /\ audit[i].hour \in GoodRow
  BY <1>2 DEF Entry
<1>4. RowsGood(buckets) /\ RowsGood(hours)
  BY <1>3 DEF RowsGood
<1> HIDE DEF ts, v, buckets, hours
<1>5. StatesOK'
  BY <1>1, <1>3, PutReading DEF TypeInv
<1>6. RowsGood(short') /\ RowsGood(hourly')
  BY <1>1, <1>4, UpdatedGood DEF TypeInv
<1>7. RowsGood(short)' /\ RowsGood(hourly)'
  BY <1>6 DEF RowsGood
<1>8. DOMAIN audit' = DOMAIN audit /\ \A j \in DOMAIN audit : audit'[j] \in Entry
  <2>1. \A j \in DOMAIN audit : audit[j] \in Entry
    BY DEF TypeInv, EntriesOK
  <2> QED
    BY <1>1, <2>1 DEF Entry
<1>9. EntriesOK'
  BY <1>8 DEF TypeInv, EntriesOK
<1> QED
  BY <1>5, <1>7, <1>9

LEMMA NextType == TypeInv /\ [Next]_vars => TypeInv'
<1> SUFFICES ASSUME TypeInv, [Next]_vars PROVE TypeInv'
  OBVIOUS
<1>0. HoursInv'
  BY NextHours DEF TypeInv
<1>1. CASE \E v \in Readings \cup {Unavailable, Nothing} : Report(v)
  <2>1. PICK v : Report(v)
    BY <1>1
  <2>2. UNCHANGED <<short, hourly, audit>>
    BY <2>1 DEF Report
  <2> QED
    BY <1>0, <2>1, <2>2, ReportType DEF TypeInv, RowsGood, EntriesOK
<1>2. CASE Compile
  <2>1. UNCHANGED <<states, audit>>
    BY <1>2 DEF Compile
  <2> QED
    BY <1>0, <1>2, <2>1, CompileType DEF TypeInv, StatesOK, EntriesOK
<1>3. CASE \E cut \in PurgeCuts : Purge(cut)
  <2>1. PICK cut : Purge(cut)
    BY <1>3
  <2>2. UNCHANGED <<hourly, audit>>
    BY <2>1 DEF Purge
  <2> QED
    BY <1>0, <2>1, <2>2, PurgeType DEF TypeInv, RowsGood, EntriesOK
<1>4. CASE \E ts \in Times, new \in Readings : Correct(ts, new)
  BY <1>0, <1>4, CorrectType DEF TypeInv
<1>5. CASE \E i \in DOMAIN audit : Restore(i)
  BY <1>0, <1>5, RestoreType DEF TypeInv
<1>6. CASE UNCHANGED vars
  BY <1>0, <1>6 DEF vars, TypeInv, StatesOK, RowsGood, EntriesOK
<1> QED
  BY <1>1, <1>2, <1>3, <1>4, <1>5, <1>6 DEF Next

LEMMA TypeInvariant == Spec => []TypeInv
  BY InitType, NextType, PTL DEF Spec

\* A row of a measurement is rebuilt whole or holds NULLs: its mean is a
\* number, its extremes are readings of the sensor, and no row exists that
\* the recorder has not compiled, whatever is corrected and restored.
THEOREM MeasurementTypes == Spec => []TypeOK
  BY TypeInvariant, TypeInvImplies, PTL

LEMMA WindowsMeans == TypeInv => MeanIsByTheUnit
<1> SUFFICES ASSUME TypeInv, NEW s \in Starts, DOMAIN ReadingsWith(states, s, s + Width) # {}
             PROVE  TimeWeightedMean(ReadingsWith(states, s, s + Width), s, s + Width)
                      = MeanByTheUnit(ReadingsWith(states, s, s + Width), s, s + Width)
  BY Zenon DEF MeanIsByTheUnit
<1>1. s \in Nat
  BY MaxTimeAssumption DEF Starts, Times
<1> DEFINE f == ReadingsWith(states, s, s + Width)
<1>2. Window(f, s + Width)
  BY <1>1, Bounded, BucketWindow
<1>3. s + Width \in Nat /\ s < s + Width
  BY <1>1, WidthsAssumption
<1> HIDE DEF f
<1>4. TimeWeightedMean(f, s, s + Width) = MeanByTheUnit(f, s, s + Width)
  BY <1>1, <1>2, <1>3, MeanIs
<1> QED
  BY <1>4 DEF f

\* The running accumulation of time_weighted_mean is the average its docstring
\* defines, unit of time by unit of time, over every bucket of every history
\* of the sensor, whatever the widths and the readings.
THEOREM MeanIsAsDocumented == Spec => []MeanIsByTheUnit
  BY TypeInvariant, WindowsMeans, PTL

-----------------------------------------------------------------------------
(***************************************************************************)
(* Restores.  Undone(i) is what the readings are once correction i is      *)
(* restored, if it is not already, and UndoneRow and UndoneHour what the   *)
(* rows of its bucket and hour are then; a restore of i changes none of    *)
(* the three.  The invariant: when i alone touched its bucket, the row its *)
(* restore leaves there is the one Undone(i) is compiled to; and the same  *)
(* of its hour.                                                            *)
(***************************************************************************)
StartOf(i) == BucketStart(audit[i].ts, Width)

HourAt(i) == HourOf(audit[i].ts)

Undone(i) == IF audit[i].restored THEN states ELSE Put(states, audit[i].ts, audit[i].orig)

UndoneRow(i, s) == IF audit[i].restored THEN short[s] ELSE audit[i].short

UndoneHour(i, h) == IF audit[i].restored THEN hourly[h] ELSE audit[i].hour

TouchingHour(h) == {i \in DOMAIN audit : \E s \in SubBuckets(h) : s \in AffectedStarts(audit[i].ts)}

HourBuckets(h) == DOMAIN Within(short, h, h + Hour)

RebuiltHour(rows, h) == SummariseHourly([x \in HourBuckets(h) |-> Rebuilt(rows, x)])

RowBack(i, s) ==
  audit[i].short # NoReading =>
    /\ s < compiled
    /\ s \in DOMAIN short /\ Touching(s) \subseteq {i} /\ CarryKnownOf(Undone(i), s)
         => UndoneRow(i, s) = Rebuilt(Undone(i), s)

HourBack(i, h) ==
  audit[i].hour # NoReading =>
    /\ h \in DOMAIN hourly
    /\ h \in DOMAIN short /\ TouchingHour(h) \subseteq {i} /\ (\A x \in HourBuckets(h) : CarryKnownOf(Undone(i), x))
         => UndoneHour(i, h) = RebuiltHour(Undone(i), h)

EntryBack(i) == RowBack(i, StartOf(i)) /\ HourBack(i, HourAt(i))

BackInv == \A i \in DOMAIN audit : EntryBack(i)

LEMMA EntryFacts ==
  ASSUME TypeInv, NEW i \in DOMAIN audit
  PROVE  /\ audit[i] \in Entry /\ audit[i].ts \in Nat /\ audit[i].restored \in BOOLEAN
         /\ StartOf(i) \in Nat /\ StartOf(i) % Width = 0 /\ StartOf(i) <= audit[i].ts
         /\ HourAt(i) \in Nat /\ HourAt(i) % Hour = 0 /\ HourAt(i) <= StartOf(i)
         /\ audit[i].ts < HourAt(i) + Hour
         /\ DOMAIN states \subseteq Nat /\ DOMAIN Undone(i) \subseteq Nat
<1>1. audit[i] \in Entry
  BY DEF TypeInv, EntriesOK
<1>2. audit[i].ts \in Times /\ audit[i].restored \in BOOLEAN
  BY <1>1 DEF Entry
<1>3. audit[i].ts \in Nat
  BY <1>2, MaxTimeAssumption DEF Times
<1>4. DOMAIN states \subseteq Nat
  BY DEF TypeInv, HoursInv, StartsOK
<1>5. DOMAIN Undone(i) \subseteq DOMAIN states \cup {audit[i].ts}
  BY Zenon DEF Undone, Put
<1> QED
  BY <1>1, <1>2, <1>3, <1>4, <1>5, BucketBounds DEF StartOf, HourAt

\* The rows that are there are of buckets that are over.
LEMMA ShortFacts ==
  ASSUME TypeInv, NEW s \in DOMAIN short
  PROVE  /\ s \in Nat /\ s % Width = 0 /\ s < compiled
         /\ compiled \in Nat /\ s + Width <= compiled /\ s + Width <= now /\ s + Width <= MaxTime
         /\ now \in Nat
<1>1. /\ s \in Nat /\ s % Width = 0 /\ s < compiled
      /\ now \in 0..MaxTime /\ compiled \in Nat /\ compiled % Width = 0 /\ compiled <= now
  BY DEF TypeInv, HoursInv, StartsOK, ClockOK
<1>w. Width \in Nat \ {0}
  BY WidthsAssumption
<1>2. s + Width <= compiled
  BY <1>1, <1>w, GridGap
<1> QED
  BY <1>1, <1>2, <1>w, MaxTimeAssumption

LEMMA HourBucketsAre ==
  ASSUME NEW h
  PROVE  HourBuckets(h) = {x \in DOMAIN short : h <= x /\ x < h + Hour}
  BY Zenon DEF HourBuckets, Within

LEMMA HourBucketsIn ==
  ASSUME TypeInv, NEW h \in Nat, h % Hour = 0, NEW x \in HourBuckets(h)
  PROVE  x \in SubBuckets(h) /\ x \in DOMAIN short /\ x \in Nat /\ x % Width = 0 /\ h <= x
<1>1. x \in DOMAIN short /\ h <= x /\ x < h + Hour
  BY HourBucketsAre
<1>2. x \in Nat /\ x % Width = 0
  BY <1>1, ShortFacts
<1> QED
  BY <1>1, <1>2, BucketOfHour

LEMMA AlikeItself ==
  ASSUME NEW f, DOMAIN f \subseteq Nat, NEW s \in Nat
  PROVE  Alike(f, f, s, 0)
  BY DEF Alike

LEMMA AlikeUndone ==
  ASSUME NEW f, NEW g, NEW ts, NEW v, NEW s, NEW cut, cut <= ts, Alike(f, g, s, cut)
  PROVE  Alike(Put(f, ts, v), Put(g, ts, v), s, cut)
<1> DEFINE p == Put(f, ts, v)
           q == Put(g, ts, v)
<1>1. /\ DOMAIN p = DOMAIN f \cup {ts} /\ p[ts] = v /\ \A u \in DOMAIN f \ {ts} : p[u] = f[u]
      /\ DOMAIN q = DOMAIN g \cup {ts} /\ q[ts] = v /\ \A u \in DOMAIN g \ {ts} : q[u] = g[u]
  BY Zenon DEF Put
<1> HIDE DEF p, q
<1>2. Alike(p, q, s, cut)
  BY <1>1 DEF Alike
<1> QED
  BY <1>2 DEF p, q

\* A step that leaves the audit row of i alone, and the readings alike.
LEMMA UndoneAlike ==
  ASSUME NEW i, audit'[i] = audit[i], NEW s, NEW cut, cut <= audit[i].ts, Alike(states, states', s, cut)
  PROVE  Alike(Undone(i), Undone(i)', s, cut)
<1>1. CASE audit[i].restored
  BY <1>1, Zenon DEF Undone
<1>2. CASE ~audit[i].restored
  <2>1. Undone(i) = Put(states, audit[i].ts, audit[i].orig)
        /\ Undone(i)' = Put(states', audit[i].ts, audit[i].orig)
    BY <1>2, Zenon DEF Undone
  <2>2. Alike(Put(states, audit[i].ts, audit[i].orig), Put(states', audit[i].ts, audit[i].orig), s, cut)
    BY AlikeUndone
  <2> QED
    BY <2>1, <2>2, Zenon
<1> QED
  BY <1>1, <1>2, Zenon

-----------------------------------------------------------------------------
LEMMA RowStays ==
  ASSUME NEW i, NEW s \in Nat, NEW cut \in Nat, RowBack(i, s), audit'[i].short = audit[i].short,
         DOMAIN Undone(i) \subseteq Nat, DOMAIN Undone(i)' \subseteq Nat,
         audit[i].short # NoReading /\ s < compiled => s < compiled',
         (audit[i].short # NoReading /\ s < compiled /\ s \in DOMAIN short' /\ Touching(s)' \subseteq {i}) =>
            /\ s \in DOMAIN short /\ Touching(s) \subseteq {i}
            /\ UndoneRow(i, s)' = UndoneRow(i, s)
            /\ Alike(Undone(i), Undone(i)', s, cut)
  PROVE  RowBack(i, s)'
<1> SUFFICES ASSUME audit[i].short # NoReading
             PROVE  /\ s < compiled'
                    /\ s \in DOMAIN short' /\ Touching(s)' \subseteq {i} /\ CarryKnownOf(Undone(i)', s)
                         => UndoneRow(i, s)' = Rebuilt(Undone(i)', s)
  BY Zenon DEF RowBack
<1>1. s < compiled
  BY DEF RowBack
<1>2. ASSUME s \in DOMAIN short', Touching(s)' \subseteq {i}, CarryKnownOf(Undone(i)', s)
      PROVE  UndoneRow(i, s)' = Rebuilt(Undone(i)', s)
  <2>1. /\ s \in DOMAIN short /\ Touching(s) \subseteq {i}
        /\ UndoneRow(i, s)' = UndoneRow(i, s)
        /\ Alike(Undone(i), Undone(i)', s, cut)
    BY <1>1, <1>2, Zenon
  <2>2. CarryKnownOf(Undone(i), s) /\ Rebuilt(Undone(i)', s) = Rebuilt(Undone(i), s)
    <3> DEFINE f == Undone(i)
               g == Undone(i)'
    <3>1. Alike(f, g, s, cut) /\ CarryKnownOf(g, s) /\ DOMAIN f \subseteq Nat /\ DOMAIN g \subseteq Nat
      BY <1>2, <2>1
    <3> HIDE DEF f, g
    <3>2. CarryKnownOf(f, s) /\ Rebuilt(g, s) = Rebuilt(f, s)
      BY <3>1, AlikeBuckets
    <3> QED
      BY <3>2 DEF f, g
  <2>3. UndoneRow(i, s) = Rebuilt(Undone(i), s)
    BY <2>1, <2>2, Zenon DEF RowBack
  <2> QED
    BY <2>1, <2>2, <2>3, Zenon
<1> QED
  BY <1>1, <1>2, Zenon

LEMMA HourStays ==
  ASSUME TypeInv, NEW i, NEW h \in Nat, h % Hour = 0, NEW cut \in Nat, HourBack(i, h), audit'[i].hour = audit[i].hour,
         DOMAIN Undone(i) \subseteq Nat, DOMAIN Undone(i)' \subseteq Nat, DOMAIN hourly \subseteq DOMAIN hourly',
         (audit[i].hour # NoReading /\ h \in DOMAIN hourly /\ h \in DOMAIN short' /\ TouchingHour(h)' \subseteq {i}) =>
            /\ h \in DOMAIN short /\ TouchingHour(h) \subseteq {i}
            /\ HourBuckets(h)' = HourBuckets(h)
            /\ UndoneHour(i, h)' = UndoneHour(i, h)
            /\ \A x \in HourBuckets(h) : Alike(Undone(i), Undone(i)', x, cut)
  PROVE  HourBack(i, h)'
<1> SUFFICES ASSUME audit[i].hour # NoReading
             PROVE  /\ h \in DOMAIN hourly'
                    /\ h \in DOMAIN short' /\ TouchingHour(h)' \subseteq {i} /\ (\A x \in HourBuckets(h)' : CarryKnownOf(Undone(i)', x))
                         => UndoneHour(i, h)' = SummariseHourly([x \in HourBuckets(h)' |-> Rebuilt(Undone(i)', x)])
  BY Zenon DEF HourBack, RebuiltHour
<1>1. h \in DOMAIN hourly
  BY DEF HourBack
<1>2. ASSUME h \in DOMAIN short', TouchingHour(h)' \subseteq {i}, \A x \in HourBuckets(h)' : CarryKnownOf(Undone(i)', x)
      PROVE  UndoneHour(i, h)' = SummariseHourly([x \in HourBuckets(h)' |-> Rebuilt(Undone(i)', x)])
  <2>1. /\ h \in DOMAIN short /\ TouchingHour(h) \subseteq {i}
        /\ HourBuckets(h)' = HourBuckets(h)
        /\ UndoneHour(i, h)' = UndoneHour(i, h)
        /\ \A x \in HourBuckets(h) : Alike(Undone(i), Undone(i)', x, cut)
    BY <1>1, <1>2, Zenon
  <2>2. ASSUME NEW x \in HourBuckets(h)
        PROVE  CarryKnownOf(Undone(i), x) /\ Rebuilt(Undone(i)', x) = Rebuilt(Undone(i), x)
    <3> DEFINE f == Undone(i)
               g == Undone(i)'
    <3>0. x \in Nat
      BY HourBucketsIn
    <3>1. Alike(f, g, x, cut) /\ CarryKnownOf(g, x) /\ DOMAIN f \subseteq Nat /\ DOMAIN g \subseteq Nat
      BY <1>2, <2>1
    <3> HIDE DEF f, g
    <3>2. CarryKnownOf(f, x) /\ Rebuilt(g, x) = Rebuilt(f, x)
      BY <3>0, <3>1, AlikeBuckets
    <3> QED
      BY <3>2 DEF f, g
  <2>3. UndoneHour(i, h) = RebuiltHour(Undone(i), h)
    BY <2>1, <2>2, Zenon DEF HourBack
  <2>4. [x \in HourBuckets(h) |-> Rebuilt(Undone(i)', x)] = [x \in HourBuckets(h) |-> Rebuilt(Undone(i), x)]
    BY <2>2, Zenon
  <2> QED
    BY <2>1, <2>3, <2>4, Zenon DEF RebuiltHour
<1> QED
  BY <1>1, <1>2, Zenon

LEMMA UndoneNext ==
  ASSUME TypeInv', NEW i \in DOMAIN audit'
  PROVE  DOMAIN Undone(i)' \subseteq Nat
<1>1. audit'[i].ts \in Nat
  <2>1. audit'[i] \in Entry
    BY DEF TypeInv, EntriesOK
  <2> QED
    BY <2>1, MaxTimeAssumption DEF Entry, Times
<1>2. DOMAIN states' \subseteq Nat
  BY DEF TypeInv, HoursInv, StartsOK
<1>3. DOMAIN Undone(i)' \subseteq DOMAIN states' \cup {audit'[i].ts}
  BY Zenon DEF Undone, Put
<1> QED
  BY <1>1, <1>2, <1>3

LEMMA ReportBack ==
  ASSUME TypeInv, TypeInv', NEW v, Report(v), NEW i \in DOMAIN audit, EntryBack(i)
  PROVE  EntryBack(i)'
<1>1. /\ compiled' = compiled /\ short' = short /\ hourly' = hourly /\ audit' = audit
      /\ (states' = states \/ states' = Put(states, now, v))
  BY DEF Report
<1>2. /\ audit[i].ts \in Nat /\ StartOf(i) \in Nat /\ HourAt(i) \in Nat /\ HourAt(i) % Hour = 0
      /\ DOMAIN states \subseteq Nat /\ DOMAIN Undone(i) \subseteq Nat
  BY EntryFacts
<1>3. DOMAIN Undone(i)' \subseteq Nat
  <2>1. i \in DOMAIN audit'
    BY <1>1
  <2> QED
    BY <2>1, UndoneNext
<1>4. ASSUME NEW x \in DOMAIN short PROVE Alike(Undone(i), Undone(i)', x, 0)
  <2>1. x \in Nat /\ x + Width <= now /\ now \in Nat
    BY ShortFacts
  <2>2. Alike(states, states', x, 0)
    BY <1>1, <1>2, <2>1, AlikeItself, AlikeBefore
  <2> QED
    BY <1>1, <1>2, <2>2, UndoneAlike
<1>5. StartOf(i)' = StartOf(i) /\ HourAt(i)' = HourAt(i)
  BY <1>1 DEF StartOf, HourAt
<1>s. PICK s \in Nat : s = StartOf(i)
  BY <1>2
<1>h. PICK h \in Nat : h = HourAt(i) /\ h % Hour = 0
  BY <1>2
<1>6. RowBack(i, s)'
  <2>1. \A x : Touching(x)' = Touching(x) /\ UndoneRow(i, x)' = UndoneRow(i, x)
    BY <1>1, Zenon DEF Touching, UndoneRow
  <2>2. RowBack(i, s)
    BY <1>s DEF EntryBack
  <2> QED
    BY <1>1, <1>2, <1>3, <1>4, <2>1, <2>2, RowStays
<1>7. HourBack(i, h)'
  <2>1. \A x : /\ TouchingHour(x)' = TouchingHour(x) /\ UndoneHour(i, x)' = UndoneHour(i, x)
               /\ HourBuckets(x)' = HourBuckets(x)
    BY <1>1, Zenon DEF TouchingHour, UndoneHour, HourBuckets
  <2>2. HourBack(i, h)
    BY <1>h DEF EntryBack
  <2>3. \A x \in HourBuckets(h) : Alike(Undone(i), Undone(i)', x, 0)
    BY <1>4, HourBucketsAre
  <2> QED
    BY <1>1, <1>2, <1>3, <1>h, <2>1, <2>2, <2>3, HourStays
<1> QED
  BY <1>s, <1>h, <1>5, <1>6, <1>7, Zenon DEF EntryBack

LEMMA CompileBack ==
  ASSUME TypeInv, TypeInv', Compile, NEW i \in DOMAIN audit, EntryBack(i)
  PROVE  EntryBack(i)'
<1> DEFINE hour == HourOf(compiled)
           row == Rebuilt(states, compiled)
<1>1. /\ compiled' = compiled + Width /\ states' = states /\ audit' = audit
  BY DEF Compile
<1>2. PICK table \in {Put(short, compiled, row)} \cup (IF row = NoReading THEN {short} ELSE {}) :
        /\ short' = table
        /\ hourly' = IF compiled + Width = hour + Hour /\ DOMAIN Within(table, hour, hour + Hour) # {}
                     THEN Put(hourly, hour, SummaryOf(table, hour)) ELSE hourly
  BY Zenon DEF Compile, SummaryOf
<1>3. table = Put(short, compiled, row) \/ table = short
  BY <1>2, Zenon
<1>4. /\ \A x : x # compiled => (x \in DOMAIN short' <=> x \in DOMAIN short)
      /\ \A x \in DOMAIN short : x # compiled => short'[x] = short[x]
  BY <1>2, <1>3, Zenon DEF Put
<1>5. /\ DOMAIN hourly \subseteq DOMAIN hourly'
      /\ \A x \in DOMAIN hourly : x # hour => hourly'[x] = hourly[x]
  BY <1>2, Zenon DEF Put
<1>w. Width \in Nat \ {0} /\ Hour \in Nat \ {0}
  BY WidthsAssumption
<1>c. compiled \in Nat
  BY DEF TypeInv, HoursInv, ClockOK
<1>6. hour \in Nat /\ compiled < hour + Hour
  BY <1>c, BucketBounds
<1>7. /\ audit[i].ts \in Nat /\ StartOf(i) \in Nat /\ HourAt(i) \in Nat /\ HourAt(i) % Hour = 0
      /\ DOMAIN states \subseteq Nat /\ DOMAIN Undone(i) \subseteq Nat
  BY EntryFacts
<1> HIDE DEF hour, row
<1>8. DOMAIN Undone(i)' \subseteq Nat
  BY <1>1, UndoneNext
<1>9. ASSUME NEW x \in Nat PROVE Alike(Undone(i), Undone(i)', x, 0)
  BY <1>1, <1>7, AlikeItself, UndoneAlike
<1>10. StartOf(i)' = StartOf(i) /\ HourAt(i)' = HourAt(i)
  BY <1>1 DEF StartOf, HourAt
<1>s. PICK s \in Nat : s = StartOf(i)
  BY <1>7
<1>h. PICK h \in Nat : h = HourAt(i) /\ h % Hour = 0
  BY <1>7
<1>11. RowBack(i, s)'
  <2>1. Touching(s)' = Touching(s)
    BY <1>1, Zenon DEF Touching
  <2>2. RowBack(i, s)
    BY <1>s DEF EntryBack
  <2>3. s < compiled => s < compiled'
    BY <1>1, <1>c, <1>w
  <2>4. s < compiled /\ s \in DOMAIN short' => s \in DOMAIN short /\ short'[s] = short[s]
    BY <1>4, <1>c
  <2>5. s < compiled /\ s \in DOMAIN short' => UndoneRow(i, s)' = UndoneRow(i, s)
    BY <1>1, <2>4, Zenon DEF UndoneRow
  <2> QED
    BY <1>1, <1>7, <1>8, <1>9, <2>1, <2>2, <2>3, <2>4, <2>5, RowStays
<1>12. HourBack(i, h)'
  <2>1. TouchingHour(h)' = TouchingHour(h)
    BY <1>1, Zenon DEF TouchingHour
  <2>2. HourBack(i, h)
    BY <1>h DEF EntryBack
  <2>3. ASSUME h \in DOMAIN hourly
        PROVE  /\ h \in DOMAIN short' => h \in DOMAIN short
               /\ HourBuckets(h)' = HourBuckets(h)
               /\ UndoneHour(i, h)' = UndoneHour(i, h)
    <3>1. h + Hour <= compiled
      BY <2>3 DEF TypeInv, HoursInv, StartsOK
    <3>2. h # hour /\ h # compiled
      BY <3>1, <1>6, <1>c, <1>w
    <3>3. HourBuckets(h)' = HourBuckets(h)
      <4>1. \A x : h <= x /\ x < h + Hour => (x \in DOMAIN short' <=> x \in DOMAIN short)
        BY <1>4, <3>1, <1>c, <1>w
      <4>2. HourBuckets(h)' = {x \in DOMAIN short' : h <= x /\ x < h + Hour}
        BY Zenon DEF HourBuckets, Within
      <4> QED
        BY <4>1, <4>2, HourBucketsAre
    <3>4. hourly'[h] = hourly[h]
      BY <2>3, <3>2, <1>5
    <3> QED
      BY <1>1, <1>4, <3>2, <3>3, <3>4 DEF UndoneHour
  <2>4. \A x \in HourBuckets(h) : Alike(Undone(i), Undone(i)', x, 0)
    BY <1>9, <1>h, HourBucketsIn
  <2> QED
    BY <1>1, <1>5, <1>7, <1>8, <1>h, <2>1, <2>2, <2>3, <2>4, HourStays
<1> QED
  BY <1>s, <1>h, <1>10, <1>11, <1>12, Zenon DEF EntryBack

LEMMA PurgeBack ==
  ASSUME TypeInv, TypeInv', NEW cut \in PurgeCuts, Purge(cut), NEW i \in DOMAIN audit, EntryBack(i)
  PROVE  EntryBack(i)'
<1>1. /\ compiled' = compiled /\ hourly' = hourly /\ audit' = audit
      /\ states' = Within(states, cut, MaxTime) /\ short' = Within(short, cut, MaxTime)
  BY DEF Purge
<1>2. /\ DOMAIN short' = {x \in DOMAIN short : cut <= x /\ x < MaxTime}
      /\ \A x \in DOMAIN short' : short'[x] = short[x]
  BY <1>1, Zenon DEF Within
<1>3. cut \in Nat /\ MaxTime \in Nat
  BY PurgeCutsAssumption, MaxTimeAssumption
<1>7. /\ audit[i].ts \in Nat /\ StartOf(i) \in Nat /\ HourAt(i) \in Nat /\ HourAt(i) % Hour = 0
      /\ StartOf(i) <= audit[i].ts /\ HourAt(i) <= StartOf(i)
      /\ DOMAIN states \subseteq Nat /\ DOMAIN Undone(i) \subseteq Nat
  BY EntryFacts
<1>8. DOMAIN Undone(i)' \subseteq Nat
  BY <1>1, UndoneNext
<1>9. ASSUME NEW x \in DOMAIN short, cut <= x, cut <= audit[i].ts PROVE Alike(Undone(i), Undone(i)', x, cut)
  <2>1. x \in Nat /\ x + Width <= MaxTime
    BY ShortFacts
  <2>2. Alike(states, states', x, cut)
    BY <1>1, <1>3, <1>7, <1>9, <2>1, AlikeFrom
  <2> QED
    BY <1>1, <1>9, <2>2, UndoneAlike
<1>10. StartOf(i)' = StartOf(i) /\ HourAt(i)' = HourAt(i)
  BY <1>1 DEF StartOf, HourAt
<1>s. PICK s \in Nat : s = StartOf(i)
  BY <1>7
<1>h. PICK h \in Nat : h = HourAt(i) /\ h % Hour = 0
  BY <1>7
<1>11. RowBack(i, s)'
  <2>1. Touching(s)' = Touching(s)
    BY <1>1, Zenon DEF Touching
  <2>2. RowBack(i, s)
    BY <1>s DEF EntryBack
  <2>3. ASSUME s \in DOMAIN short'
        PROVE  s \in DOMAIN short /\ UndoneRow(i, s)' = UndoneRow(i, s) /\ Alike(Undone(i), Undone(i)', s, cut)
    <3>1. s \in DOMAIN short /\ cut <= s /\ short'[s] = short[s]
      BY <2>3, <1>2
    <3>2. UndoneRow(i, s)' = UndoneRow(i, s)
      BY <1>1, <3>1, Zenon DEF UndoneRow
    <3>3. cut <= audit[i].ts
      BY <3>1, <1>3, <1>7, <1>s
    <3> QED
      BY <3>1, <3>2, <3>3, <1>9
  <2> QED
    BY <1>1, <1>3, <1>7, <1>8, <2>1, <2>2, <2>3, RowStays
<1>12. HourBack(i, h)'
  <2>1. TouchingHour(h)' = TouchingHour(h)
    BY <1>1, Zenon DEF TouchingHour
  <2>2. HourBack(i, h)
    BY <1>h DEF EntryBack
  <2>3. ASSUME h \in DOMAIN short'
        PROVE  /\ h \in DOMAIN short /\ HourBuckets(h)' = HourBuckets(h)
               /\ \A x \in HourBuckets(h) : Alike(Undone(i), Undone(i)', x, cut)
    <3>1. h \in DOMAIN short /\ cut <= h
      BY <2>3, <1>2
    <3>2. HourBuckets(h)' = HourBuckets(h)
      <4>1. \A x \in DOMAIN short : h <= x => (x \in DOMAIN short' /\ x \in Nat)
        <5> TAKE x \in DOMAIN short
        <5> HAVE h <= x
        <5>1. x \in Nat /\ x + Width <= MaxTime
          BY ShortFacts
        <5> QED
          BY <5>1, <3>1, <1>2, <1>3, WidthsAssumption
      <4>2. HourBuckets(h)' = {x \in DOMAIN short' : h <= x /\ x < h + Hour}
        BY Zenon DEF HourBuckets, Within
      <4> QED
        BY <4>1, <4>2, <1>2, HourBucketsAre
    <3>3. cut <= audit[i].ts
      BY <3>1, <1>3, <1>7, <1>h
    <3>4. ASSUME NEW x \in HourBuckets(h) PROVE Alike(Undone(i), Undone(i)', x, cut)
      <4>1. x \in DOMAIN short /\ x \in Nat /\ h <= x
        BY <1>h, HourBucketsIn
      <4>2. cut <= x
        BY <4>1, <3>1, <1>3
      <4> QED
        BY <4>1, <4>2, <3>3, <1>9
    <3> QED
      BY <3>1, <3>2, <3>4
  <2>4. UndoneHour(i, h)' = UndoneHour(i, h)
    BY <1>1, Zenon DEF UndoneHour
  <2> QED
    BY <1>1, <1>3, <1>7, <1>8, <1>h, <2>1, <2>2, <2>3, <2>4, HourStays
<1> QED
  BY <1>s, <1>h, <1>10, <1>11, <1>12, Zenon DEF EntryBack

\* An hour one of whose buckets a change affects is touched by it.
LEMMA HourAffected ==
  ASSUME NEW ts \in Nat, NEW h \in Nat, h % Hour = 0, h \in AffectedHours(ts)
  PROVE  \E s \in SubBuckets(h) : s \in AffectedStarts(ts)
<1> DEFINE b == BucketStart(ts, Width)
<1>w. Width \in Nat \ {0}
  BY WidthsAssumption
<1>1. b \in Nat /\ b % Width = 0
  BY BucketBounds
<1>2. (b + Width) % Width = 0 /\ b + Width \in Nat
  <2> HIDE DEF b
  <2>1. b + Width \in Nat
    BY <1>1, <1>w
  <2>2. (b + Width) % Width = 0
    BY <1>1, <1>w, NextOnGrid
  <2> QED
    BY <2>1, <2>2
<1>3. PICK s \in AffectedStarts(ts) : h = HourOf(s)
  BY DEF AffectedHours
<1>4. s = b \/ s = b + Width
  BY DEF AffectedStarts
<1> HIDE DEF b
<1>5. s \in Nat /\ s % Width = 0
  BY <1>1, <1>2, <1>4
<1>6. h <= s /\ s < h + Hour
  BY <1>3, <1>5, GridStart, WidthsAssumption DEF HourOf, BucketStart
<1> QED
  BY <1>5, <1>6, BucketOfHour

\* What one correction or its restore does to the buckets and hours of another.
Elsewhere(j, ts) ==
  /\ DOMAIN audit \subseteq DOMAIN audit' /\ j \in DOMAIN audit' /\ audit'[j].ts = ts
  /\ \A k \in DOMAIN audit : audit'[k].ts = audit[k].ts
  /\ compiled' = compiled
  /\ DOMAIN short' = DOMAIN short
  /\ \A x \in DOMAIN short : x \notin AffectedStarts(ts) => short'[x] = short[x]
  /\ DOMAIN hourly' = DOMAIN hourly
  /\ \A x \in DOMAIN hourly : x \notin AffectedHours(ts) => hourly'[x] = hourly[x]

LEMMA OtherBack ==
  ASSUME TypeInv, TypeInv', NEW j, NEW ts \in DOMAIN states, NEW v,
         states' = Put(states, ts, v), Elsewhere(j, ts),
         NEW i \in DOMAIN audit, i # j, audit'[i] = audit[i], EntryBack(i)
  PROVE  EntryBack(i)'
<1>1. /\ DOMAIN audit \subseteq DOMAIN audit' /\ j \in DOMAIN audit' /\ audit'[j].ts = ts
      /\ \A k \in DOMAIN audit : audit'[k].ts = audit[k].ts
      /\ compiled' = compiled /\ DOMAIN short' = DOMAIN short /\ DOMAIN hourly' = DOMAIN hourly
  BY DEF Elsewhere
<1>2. /\ \A x \in DOMAIN short : x \notin AffectedStarts(ts) => short'[x] = short[x]
      /\ \A x \in DOMAIN hourly : x \notin AffectedHours(ts) => hourly'[x] = hourly[x]
  BY Zenon DEF Elsewhere
<1>7. /\ audit[i].ts \in Nat /\ StartOf(i) \in Nat /\ HourAt(i) \in Nat /\ HourAt(i) % Hour = 0
      /\ DOMAIN states \subseteq Nat /\ DOMAIN Undone(i) \subseteq Nat
  BY EntryFacts
<1>8. DOMAIN Undone(i)' \subseteq Nat
  BY <1>1, UndoneNext
<1>9. ASSUME NEW x \in DOMAIN short, x \notin AffectedStarts(ts) PROVE Alike(Undone(i), Undone(i)', x, 0)
  <2>1. x \in Nat /\ x % Width = 0
    BY ShortFacts
  <2>2. Alike(states, states', x, 0)
    BY <1>7, <1>9, <2>1, AlikeElsewhere
  <2> QED
    BY <1>7, <2>2, UndoneAlike
<1>10. StartOf(i)' = StartOf(i) /\ HourAt(i)' = HourAt(i)
  BY DEF StartOf, HourAt
<1>s. PICK s \in Nat : s = StartOf(i)
  BY <1>7
<1>h. PICK h \in Nat : h = HourAt(i) /\ h % Hour = 0
  BY <1>7
<1>11. RowBack(i, s)'
  <2>1. ASSUME s \in DOMAIN short', Touching(s)' \subseteq {i}
        PROVE  /\ s \in DOMAIN short /\ Touching(s) \subseteq {i}
               /\ UndoneRow(i, s)' = UndoneRow(i, s) /\ Alike(Undone(i), Undone(i)', s, 0)
    <3>1. s \notin AffectedStarts(ts) /\ Touching(s) \subseteq {i}
      BY <2>1, <1>1 DEF Touching
    <3>2. UndoneRow(i, s)' = UndoneRow(i, s)
      BY <2>1, <3>1, <1>1, <1>2 DEF UndoneRow
    <3> QED
      BY <2>1, <3>1, <3>2, <1>1, <1>9
  <2>2. RowBack(i, s)
    BY <1>s DEF EntryBack
  <2> QED
    BY <1>1, <1>7, <1>8, <2>1, <2>2, RowStays
<1>12. HourBack(i, h)'
  <2>1. ASSUME h \in DOMAIN hourly, h \in DOMAIN short', TouchingHour(h)' \subseteq {i}
        PROVE  /\ h \in DOMAIN short /\ TouchingHour(h) \subseteq {i}
               /\ HourBuckets(h)' = HourBuckets(h)
               /\ UndoneHour(i, h)' = UndoneHour(i, h)
               /\ \A x \in HourBuckets(h) : Alike(Undone(i), Undone(i)', x, 0)
    <3>1. TouchingHour(h) \subseteq {i} /\ \A x \in SubBuckets(h) : x \notin AffectedStarts(ts)
      BY <2>1, <1>1 DEF TouchingHour
    <3>2. ts \in Nat
      BY <1>7
    <3>3. h \notin AffectedHours(ts)
      BY <3>1, <3>2, <1>h, HourAffected
    <3>4. UndoneHour(i, h)' = UndoneHour(i, h)
      BY <2>1, <3>3, <1>2 DEF UndoneHour
    <3>5. HourBuckets(h)' = HourBuckets(h)
      BY <1>1, Zenon DEF HourBuckets, Within
    <3>6. ASSUME NEW x \in HourBuckets(h) PROVE Alike(Undone(i), Undone(i)', x, 0)
      <4>1. x \in SubBuckets(h) /\ x \in DOMAIN short
        BY <1>h, HourBucketsIn
      <4> QED
        BY <4>1, <3>1, <1>9
    <3> QED
      BY <2>1, <3>1, <3>4, <3>5, <3>6, <1>1
  <2>2. HourBack(i, h)
    BY <1>h DEF EntryBack
  <2> QED
    BY <1>1, <1>7, <1>8, <1>h, <2>1, <2>2, HourStays
<1> QED
  BY <1>s, <1>h, <1>10, <1>11, <1>12, Zenon DEF EntryBack

LEMMA RestoreBack ==
  ASSUME TypeInv, TypeInv', NEW j \in DOMAIN audit, Restore(j), NEW i \in DOMAIN audit, EntryBack(i)
  PROVE  EntryBack(i)'
<1> DEFINE ts == audit[j].ts
           buckets == [x \in {BucketStart(ts, Width)} |-> audit[j].short]
           hours == [x \in {HourOf(ts)} |-> audit[j].hour]
<1>1. /\ compiled' = compiled /\ ts \in DOMAIN states /\ ~audit[j].restored
      /\ states' = Put(states, ts, audit[j].orig)
      /\ short' = Updated(short, buckets) /\ hourly' = Updated(hourly, hours)
      /\ audit' = [audit EXCEPT ![j].restored = TRUE]
  BY Zenon DEF Restore
<1>2. audit[j] \in Entry /\ ts \in Nat
  BY EntryFacts
<1>3. /\ DOMAIN audit' = DOMAIN audit
      /\ \A k \in DOMAIN audit : k # j => audit'[k] = audit[k]
      /\ audit'[j] = [audit[j] EXCEPT !.restored = TRUE]
  BY <1>1
<1>4. /\ audit'[j].restored /\ audit'[j].ts = audit[j].ts
      /\ audit'[j].short = audit[j].short /\ audit'[j].hour = audit[j].hour
  BY <1>2, <1>3 DEF Entry
<1>5. /\ DOMAIN short' = DOMAIN short
      /\ \A x \in DOMAIN short : x # BucketStart(ts, Width) => short'[x] = short[x]
      /\ BucketStart(ts, Width) \in DOMAIN short => short'[BucketStart(ts, Width)] = audit[j].short
  <2>1. DOMAIN buckets = {BucketStart(ts, Width)} /\ buckets[BucketStart(ts, Width)] = audit[j].short
    OBVIOUS
  <2> HIDE DEF buckets, ts
  <2> QED
    BY <2>1, <1>1, UpdatedRows
<1>6. /\ DOMAIN hourly' = DOMAIN hourly
      /\ \A x \in DOMAIN hourly : x # HourOf(ts) => hourly'[x] = hourly[x]
      /\ HourOf(ts) \in DOMAIN hourly => hourly'[HourOf(ts)] = audit[j].hour
  <2>1. DOMAIN hours = {HourOf(ts)} /\ hours[HourOf(ts)] = audit[j].hour
    OBVIOUS
  <2> HIDE DEF hours, ts
  <2> QED
    BY <2>1, <1>1, UpdatedRows
<1> HIDE DEF buckets, hours
<1>7. CASE i # j
  <2>1. BucketStart(ts, Width) \in AffectedStarts(ts)
    BY DEF AffectedStarts
  <2>2. HourOf(ts) \in AffectedHours(ts)
    <3>1. HourOf(BucketStart(ts, Width)) = HourOf(ts)
      <4>1. /\ BucketStart(ts, Width) \in Nat /\ BucketStart(ts, Width) <= ts
            /\ HourOf(ts) \in Nat /\ HourOf(ts) % Hour = 0
            /\ HourOf(ts) <= BucketStart(ts, Width) /\ ts < HourOf(ts) + Hour
        BY <1>2, BucketBounds
      <4>2. BucketStart(ts, Width) < HourOf(ts) + Hour
        BY <4>1, <1>2, WidthsAssumption
      <4> QED
        BY <4>1, <4>2, HourOfBucket
    <3> QED
      BY <2>1, <3>1, Zenon DEF AffectedHours
  <2>3. Elsewhere(j, ts)
    <3>1. \A k \in DOMAIN audit : audit'[k].ts = audit[k].ts
      BY <1>3, <1>4
    <3> HIDE DEF ts
    <3>2. \A x \in DOMAIN short : x \notin AffectedStarts(ts) => short'[x] = short[x]
      BY <1>5, <2>1, Zenon
    <3>3. \A x \in DOMAIN hourly : x \notin AffectedHours(ts) => hourly'[x] = hourly[x]
      BY <1>6, <2>2, Zenon
    <3> QED
      BY <1>1, <1>3, <1>4, <1>5, <1>6, <3>1, <3>2, <3>3, Zenon DEF Elsewhere, ts
  <2> HIDE DEF ts
  <2> QED
    BY <1>1, <1>3, <1>7, <2>3, OtherBack
<1>8. CASE i = j
  <2>1. /\ StartOf(i) \in Nat /\ HourAt(i) \in Nat /\ HourAt(i) % Hour = 0
        /\ DOMAIN Undone(i) \subseteq Nat
    BY EntryFacts
  <2>2. DOMAIN Undone(i)' \subseteq Nat
    BY <1>3, UndoneNext
  <2>3. Undone(i)' = Undone(i)
    BY <1>1, <1>4, <1>8, Zenon DEF Undone
  <2>4. \A x \in Nat : Alike(Undone(i), Undone(i)', x, 0)
    BY <2>1, <2>3, AlikeItself
  <2>5. StartOf(i)' = StartOf(i) /\ HourAt(i)' = HourAt(i)
    BY <1>4, <1>8 DEF StartOf, HourAt
  <2>6. \A x : Touching(x)' = Touching(x) /\ TouchingHour(x)' = TouchingHour(x)
    <3>1. \A k \in DOMAIN audit : audit'[k].ts = audit[k].ts
      BY <1>3, <1>4
    <3> QED
      BY <3>1, <1>3 DEF Touching, TouchingHour
  <2>s. PICK s \in Nat : s = StartOf(i)
    BY <2>1
  <2>h. PICK h \in Nat : h = HourAt(i) /\ h % Hour = 0
    BY <2>1
  <2>7. RowBack(i, s)'
    <3>1. RowBack(i, s)
      BY <2>s DEF EntryBack
    <3>2. s \in DOMAIN short => UndoneRow(i, s)' = UndoneRow(i, s)
      BY <1>1, <1>4, <1>5, <1>8, <2>s DEF UndoneRow, StartOf
    <3> QED
      BY <1>1, <1>4, <1>5, <1>8, <2>1, <2>2, <2>4, <2>6, <3>1, <3>2, RowStays
  <2>8. HourBack(i, h)'
    <3>1. HourBack(i, h)
      BY <2>h DEF EntryBack
    <3>2. h \in DOMAIN hourly => UndoneHour(i, h)' = UndoneHour(i, h)
      BY <1>1, <1>4, <1>6, <1>8, <2>h DEF UndoneHour, HourAt
    <3>3. HourBuckets(h)' = HourBuckets(h)
      BY <1>5, Zenon DEF HourBuckets, Within
    <3>4. \A x \in HourBuckets(h) : Alike(Undone(i), Undone(i)', x, 0)
      BY <2>4, <2>h, HourBucketsIn
    <3> QED
      BY <1>4, <1>5, <1>6, <1>8, <2>1, <2>2, <2>h, <2>6, <3>1, <3>2, <3>3, <3>4, HourStays
  <2> QED
    BY <2>s, <2>h, <2>5, <2>7, <2>8, Zenon DEF EntryBack
<1> QED
  BY <1>7, <1>8

\* A correction copies the rows it is about to rewrite: the ones the readings
\* it keeps the original of are compiled to.
LEMMA NewRowBack ==
  ASSUME TypeInv, BucketsOK, NEW ts \in Nat, NEW e, NEW s \in Nat, s = BucketStart(ts, Width),
         e \notin DOMAIN audit, DOMAIN audit' = DOMAIN audit \cup {e},
         \A k \in DOMAIN audit : audit'[k] = audit[k],
         audit'[e].ts = ts, ~audit'[e].restored, audit'[e].short = Original(short, s),
         compiled' = compiled, DOMAIN short' = DOMAIN short,
         DOMAIN Undone(e)' \subseteq Nat, Alike(states, Undone(e)', s, 0)
  PROVE  RowBack(e, s)'
<1> SUFFICES ASSUME audit'[e].short # NoReading
             PROVE  /\ s < compiled'
                    /\ s \in DOMAIN short' /\ Touching(s)' \subseteq {e} /\ CarryKnownOf(Undone(e)', s)
                         => UndoneRow(e, s)' = Rebuilt(Undone(e)', s)
  BY Zenon DEF RowBack
<1>1. s \in DOMAIN short /\ audit'[e].short = short[s]
  BY DEF Original
<1>2. s < compiled
  BY <1>1, ShortFacts
<1>3. ASSUME Touching(s)' \subseteq {e}, CarryKnownOf(Undone(e)', s)
      PROVE  UndoneRow(e, s)' = Rebuilt(Undone(e)', s)
  <2>1. NoneRestoredIn(s)
    BY <1>3 DEF Touching, NoneRestoredIn
  <2>2. CarryKnownOf(states, s) /\ Rebuilt(Undone(e)', s) = Rebuilt(states, s)
    <3> DEFINE g == Undone(e)'
    <3>1. Alike(states, g, s, 0) /\ CarryKnownOf(g, s) /\ DOMAIN g \subseteq Nat /\ DOMAIN states \subseteq Nat
      BY <1>3 DEF TypeInv, HoursInv, StartsOK
    <3> HIDE DEF g
    <3>2. CarryKnownOf(states, s) /\ Rebuilt(g, s) = Rebuilt(states, s)
      BY <3>1, AlikeBuckets
    <3> QED
      BY <3>2 DEF g
  <2>3. short[s] = Rebuilt(states, s)
    BY <1>1, <2>1, <2>2 DEF BucketsOK
  <2>4. UndoneRow(e, s)' = audit'[e].short
    BY Zenon DEF UndoneRow
  <2> QED
    BY <1>1, <2>2, <2>3, <2>4
<1> QED
  BY <1>2, <1>3, Zenon

LEMMA NewHourBack ==
  ASSUME TypeInv, BucketsOK, NEW ts \in Nat, NEW e, NEW h \in Nat, h % Hour = 0,
         e \notin DOMAIN audit, DOMAIN audit' = DOMAIN audit \cup {e},
         \A k \in DOMAIN audit : audit'[k] = audit[k],
         audit'[e].ts = ts, ~audit'[e].restored, audit'[e].hour = Original(hourly, h),
         DOMAIN short' = DOMAIN short, DOMAIN hourly' = DOMAIN hourly,
         DOMAIN Undone(e)' \subseteq Nat, \A s \in DOMAIN short : Alike(states, Undone(e)', s, 0)
  PROVE  HourBack(e, h)'
<1> SUFFICES ASSUME audit'[e].hour # NoReading
             PROVE  /\ h \in DOMAIN hourly'
                    /\ h \in DOMAIN short' /\ TouchingHour(h)' \subseteq {e} /\ (\A x \in HourBuckets(h)' : CarryKnownOf(Undone(e)', x))
                         => UndoneHour(e, h)' = SummariseHourly([x \in HourBuckets(h)' |-> Rebuilt(Undone(e)', x)])
  BY Zenon DEF HourBack, RebuiltHour
<1>1. h \in DOMAIN hourly /\ audit'[e].hour = hourly[h]
  BY DEF Original
<1>2. HourBuckets(h)' = HourBuckets(h)
  BY Zenon DEF HourBuckets, Within
<1>3. ASSUME h \in DOMAIN short, TouchingHour(h)' \subseteq {e}, \A x \in HourBuckets(h) : CarryKnownOf(Undone(e)', x)
      PROVE  UndoneHour(e, h)' = SummariseHourly([x \in HourBuckets(h) |-> Rebuilt(Undone(e)', x)])
  <2>1. \A k \in DOMAIN audit : \A s \in SubBuckets(h) : s \notin AffectedStarts(audit[k].ts)
    BY <1>3 DEF TouchingHour
  <2>2. hourly[h] = SummariseHourly(Within(short, h, h + Hour))
    <3>1. NoneRestored(h)
      BY <2>1 DEF NoneRestored
    <3> QED
      BY <1>1, <1>3, <3>1 DEF TypeInv, HoursInv, HoursOK, SummaryOf
  <2>3. ASSUME NEW x \in HourBuckets(h) PROVE short[x] = Rebuilt(Undone(e)', x)
    <3>1. x \in SubBuckets(h) /\ x \in DOMAIN short /\ x \in Nat
      BY HourBucketsIn
    <3>2. NoneRestoredIn(x)
      BY <2>1, <3>1 DEF NoneRestoredIn
    <3> DEFINE g == Undone(e)'
    <3>3. Alike(states, g, x, 0) /\ CarryKnownOf(g, x) /\ DOMAIN g \subseteq Nat /\ DOMAIN states \subseteq Nat
      BY <1>3, <3>1 DEF TypeInv, HoursInv, StartsOK
    <3> HIDE DEF g
    <3>4. CarryKnownOf(states, x) /\ Rebuilt(g, x) = Rebuilt(states, x)
      BY <3>1, <3>3, AlikeBuckets
    <3> QED
      BY <3>1, <3>2, <3>4 DEF BucketsOK, g
  <2>4. Within(short, h, h + Hour) = [x \in HourBuckets(h) |-> short[x]]
    BY Zenon DEF Within, HourBuckets
  <2>5. [x \in HourBuckets(h) |-> short[x]] = [x \in HourBuckets(h) |-> Rebuilt(Undone(e)', x)]
    BY <2>3, Zenon
  <2>6. UndoneHour(e, h)' = audit'[e].hour
    BY Zenon DEF UndoneHour
  <2> QED
    BY <1>1, <2>2, <2>4, <2>5, <2>6, Zenon
<1> QED
  BY <1>1, <1>2, <1>3, Zenon

LEMMA CorrectBack ==
  ASSUME TypeInv, TypeInv', BucketsOK, BackInv, NEW ts \in Times, NEW new \in Readings, Correct(ts, new)
  PROVE  BackInv'
<1> DEFINE rows == Put(states, ts, new)
           buckets == [s \in AffectedStarts(ts) |-> Rebuilt(rows, s)]
           table == Updated(short, buckets)
           hours == [h \in AffectedHours(ts) |-> SummariseHourly(Siblings(rows, table, h))]
           entry == [ts |-> ts, orig |-> states[ts], corrected |-> new,
                     short |-> Original(short, BucketStart(ts, Width)),
                     hour |-> Original(hourly, HourOf(ts)),
                     restored |-> FALSE]
<1>e. PICK e : e = Cardinality(DOMAIN audit) + 1
  OBVIOUS
<1>1. /\ compiled' = compiled /\ ts \in DOMAIN states
      /\ states' = rows /\ short' = table /\ hourly' = Updated(hourly, hours)
      /\ audit' = Put(audit, e, entry)
  BY <1>e, Zenon DEF Correct
<1>2. /\ entry.ts = ts /\ entry.orig = states[ts] /\ ~entry.restored
      /\ entry.short = Original(short, BucketStart(ts, Width)) /\ entry.hour = Original(hourly, HourOf(ts))
  OBVIOUS
<1>3. /\ DOMAIN short' = DOMAIN short
      /\ \A x \in DOMAIN short : x \notin AffectedStarts(ts) => short'[x] = short[x]
  <2>1. DOMAIN buckets = AffectedStarts(ts)
    OBVIOUS
  <2> HIDE DEF buckets
  <2> QED
    BY <1>1, <2>1, UpdatedRows
<1>4. /\ DOMAIN hourly' = DOMAIN hourly
      /\ \A x \in DOMAIN hourly : x \notin AffectedHours(ts) => hourly'[x] = hourly[x]
  <2>1. DOMAIN hours = AffectedHours(ts)
    OBVIOUS
  <2> HIDE DEF hours, table, rows
  <2> QED
    BY <2>1, <1>1, UpdatedRows
<1>5. e \notin DOMAIN audit
  <2>1. PICK n \in Nat : DOMAIN audit = 1..n
    BY DEF TypeInv, HoursInv, AuditOK
  <2>2. Cardinality(1..n) = n
    <3>1. n \in Int /\ 1 \in Int
      BY <2>1
    <3> QED
      BY <2>1, <3>1, FS_Interval
  <2> QED
    BY <1>e, <2>1, <2>2
<1> HIDE DEF buckets, hours, table, entry
<1>6. DOMAIN audit' = DOMAIN audit \cup {e} /\ audit'[e] = entry /\ \A k \in DOMAIN audit : audit'[k] = audit[k]
  <2> DEFINE log == Put(audit, e, entry)
  <2>1. /\ DOMAIN log = DOMAIN audit \cup {e} /\ log[e] = entry
        /\ \A k \in DOMAIN audit \ {e} : log[k] = audit[k]
    BY Zenon DEF Put
  <2>2. audit' = log
    BY <1>1
  <2> HIDE DEF log
  <2> QED
    BY <2>1, <2>2, <1>5
<1>7. Elsewhere(e, ts)
  BY <1>1, <1>2, <1>3, <1>4, <1>6, Zenon DEF Elsewhere
<1>8. \A i \in DOMAIN audit : EntryBack(i)'
  <2> TAKE i \in DOMAIN audit
  <2>1. i # e /\ audit'[i] = audit[i] /\ EntryBack(i)
    BY <1>5, <1>6 DEF BackInv
  <2> QED
    BY <1>1, <1>7, <2>1, OtherBack
<1>9. EntryBack(e)'
  <2>1. ts \in Nat /\ DOMAIN states \subseteq Nat
    BY MaxTimeAssumption DEF Times, TypeInv, HoursInv, StartsOK
  <2>2. Undone(e)' = Put(rows, ts, states[ts])
    BY <1>1, <1>2, <1>6, Zenon DEF Undone
  <2>3. DOMAIN Undone(e)' \subseteq Nat
    BY <1>6, UndoneNext
  <2>4. ASSUME NEW x \in Nat PROVE Alike(states, Undone(e)', x, 0)
    <3> DEFINE back == Put(rows, ts, states[ts])
    <3>1. DOMAIN back = DOMAIN states /\ \A u \in DOMAIN states : back[u] = states[u]
      BY <1>1, Zenon DEF Put
    <3> HIDE DEF back
    <3>2. Alike(states, back, x, 0)
      BY <2>1, <3>1 DEF Alike
    <3> QED
      BY <2>2, <3>2 DEF back
  <2>s. PICK s \in Nat : s = BucketStart(ts, Width)
    BY <2>1, BucketBounds
  <2>h. PICK h \in Nat : h = HourOf(ts) /\ h % Hour = 0
    BY <2>1, BucketBounds
  <2>5. RowBack(e, s)'
    BY <1>1, <1>2, <1>3, <1>5, <1>6, <2>1, <2>3, <2>4, <2>s, NewRowBack
  <2>6. HourBack(e, h)'
    <3>1. \A x \in DOMAIN short : Alike(states, Undone(e)', x, 0)
      BY <2>4, ShortFacts
    <3> QED
      BY <1>1, <1>2, <1>3, <1>4, <1>5, <1>6, <2>1, <2>3, <2>h, <3>1, NewHourBack
  <2>7. StartOf(e)' = s /\ HourAt(e)' = h
    BY <1>2, <1>6, <2>s, <2>h DEF StartOf, HourAt
  <2> QED
    BY <2>5, <2>6, <2>7, Zenon DEF EntryBack
<1> QED
  BY <1>6, <1>8, <1>9 DEF BackInv

LEMMA NextBack == ASSUME TypeInv, TypeInv', BucketsOK, BackInv, [Next]_vars PROVE BackInv'
<1>1. CASE \E v \in Readings \cup {Unavailable, Nothing} : Report(v)
  <2>1. PICK v : Report(v)
    BY <1>1
  <2>2. audit' = audit
    BY <2>1 DEF Report
  <2>3. \A i \in DOMAIN audit : EntryBack(i)'
    BY <2>1, ReportBack DEF BackInv
  <2> QED
    BY <2>2, <2>3, Zenon DEF BackInv
<1>2. CASE Compile
  <2>2. audit' = audit
    BY <1>2 DEF Compile
  <2>3. \A i \in DOMAIN audit : EntryBack(i)'
    BY <1>2, CompileBack DEF BackInv
  <2> QED
    BY <2>2, <2>3, Zenon DEF BackInv
<1>3. CASE \E cut \in PurgeCuts : Purge(cut)
  <2>1. PICK cut \in PurgeCuts : Purge(cut)
    BY <1>3
  <2>2. audit' = audit
    BY <2>1 DEF Purge
  <2>3. \A i \in DOMAIN audit : EntryBack(i)'
    BY <2>1, PurgeBack DEF BackInv
  <2> QED
    BY <2>2, <2>3, Zenon DEF BackInv
<1>4. CASE \E ts \in Times, new \in Readings : Correct(ts, new)
  BY <1>4, CorrectBack
<1>5. CASE \E j \in DOMAIN audit : Restore(j)
  <2>1. PICK j \in DOMAIN audit : Restore(j)
    BY <1>5
  <2>2. DOMAIN audit' = DOMAIN audit
    BY <2>1 DEF Restore
  <2>3. \A i \in DOMAIN audit : EntryBack(i)'
    BY <2>1, RestoreBack DEF BackInv
  <2> QED
    BY <2>2, <2>3, Zenon DEF BackInv
<1>6. CASE UNCHANGED vars
  BY <1>6 DEF vars, BackInv, EntryBack, RowBack, HourBack, StartOf, HourAt, Undone, UndoneRow, UndoneHour,
              Touching, TouchingHour, HourBuckets, RebuiltHour
<1> QED
  BY <1>1, <1>2, <1>3, <1>4, <1>5, <1>6 DEF Next

LEMMA BackIsDescribed == ASSUME TypeInv, BackInv PROVE RestoredRowDescribesReadings
<1> SUFFICES ASSUME NEW i \in DOMAIN audit, audit[i].restored
             PROVE  /\ (/\ StartOf(i) \in DOMAIN short /\ audit[i].short # NoReading
                        /\ \A x \in {StartOf(i)} : Touching(x) \subseteq {i} /\ CarryKnown(x))
                         => DescribesReadings(StartOf(i))
                    /\ (/\ WholeHour(HourAt(i)) /\ audit[i].hour # NoReading
                        /\ \A x \in SubBuckets(HourAt(i)) : Touching(x) \subseteq {i} /\ CarryKnown(x))
                         => hourly[HourAt(i)] = SummariseHourly([x \in DOMAIN Within(short, HourAt(i), HourAt(i) + Hour)
                                                                  |-> Rebuilt(states, x)])
  BY Zenon DEF RestoredRowDescribesReadings, StartOf, HourAt
<1>1. \A x : CarryKnownOf(states, x) <=> CarryKnown(x)
  BY Zenon DEF CarryKnownOf, CarryKnown
<1>2. Undone(i) = states /\ \A x : UndoneRow(i, x) = short[x] /\ UndoneHour(i, x) = hourly[x]
  BY Zenon DEF Undone, UndoneRow, UndoneHour
<1>s. RowBack(i, StartOf(i)) /\ HourBack(i, HourAt(i))
  BY DEF BackInv, EntryBack
<1>3. ASSUME StartOf(i) \in DOMAIN short, audit[i].short # NoReading,
             Touching(StartOf(i)) \subseteq {i}, CarryKnown(StartOf(i))
      PROVE  DescribesReadings(StartOf(i))
  BY <1>1, <1>2, <1>3, <1>s, Zenon DEF RowBack, DescribesReadings
<1>4. ASSUME WholeHour(HourAt(i)), audit[i].hour # NoReading,
             \A x \in SubBuckets(HourAt(i)) : Touching(x) \subseteq {i} /\ CarryKnown(x)
      PROVE  hourly[HourAt(i)] = SummariseHourly([x \in DOMAIN Within(short, HourAt(i), HourAt(i) + Hour) |-> Rebuilt(states, x)])
  <2>1. TouchingHour(HourAt(i)) \subseteq {i}
    BY <1>4 DEF TouchingHour, Touching
  <2>2. \A x \in HourBuckets(HourAt(i)) : CarryKnownOf(states, x)
    BY <1>1, <1>4, EntryFacts, HourBucketsIn
  <2> QED
    BY <1>2, <1>4, <1>s, <2>1, <2>2, Zenon DEF HourBack, RebuiltHour, HourBuckets, WholeHour
<1> QED
  BY <1>3, <1>4, Zenon

\* A correction that was the only one to touch its bucket, made once the bucket
\* was compiled, leaves it as it found it when it is restored, whatever was
\* reported, compiled, purged, corrected and restored elsewhere in between;
\* and so does the only one of an hour that was compiled.
THEOREM RestoresPutRowsBack == Spec => []RestoredRowDescribesReadings
<1>1. Init => BucketsOK /\ BackInv
  BY DEF Init, BucketsOK, BackInv
<1>2. TypeInv /\ BucketsOK /\ BackInv /\ [Next]_vars => (BucketsOK /\ BackInv)'
  <2> SUFFICES ASSUME TypeInv, BucketsOK, BackInv, [Next]_vars PROVE BucketsOK' /\ BackInv'
    OBVIOUS
  <2>1. TypeInv'
    BY NextType
  <2>2. BucketsOK'
    BY NextBuckets DEF TypeInv
  <2> QED
    BY <2>1, <2>2, NextBack
<1>3. TypeInv /\ BackInv => RestoredRowDescribesReadings
  BY BackIsDescribed
<1> QED
  BY <1>1, <1>2, <1>3, TypeInvariant, PTL DEF Spec

=============================================================================
