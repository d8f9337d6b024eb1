------------------------- MODULE CounterStats_proofs -------------------------
(***************************************************************************)
(* The rows and totals of a counter, for any widths, readings and bounds.  *)
(***************************************************************************)
EXTENDS CounterStats, Tables_proofs

LEMMA BucketBounds ==
  ASSUME NEW ts \in Nat
  PROVE  /\ BucketStart(ts, Width) \in Nat
         /\ HourOf(ts) \in Nat /\ HourOf(ts) % Hour = 0
         /\ HourOf(ts) <= BucketStart(ts, Width)
  BY GridStart, GridNested, WidthsAssumption DEF BucketStart, HourOf

LEMMA SameHour ==
  ASSUME NEW f, NEW g, NEW h, Within(f, h, h + Hour) = Within(g, h, h + Hour)
  PROVE  (Covered(f, h) <=> Covered(g, h)) /\ LastOfHour(f, h) = LastOfHour(g, h)
  BY DEF Covered, LastOfHour

-----------------------------------------------------------------------------
(***************************************************************************)
(* What a rebuild writes: rows from the corrected bucket on, in both       *)
(* tables, and no row that was not there.                                  *)
(***************************************************************************)
LEMMA CascadeDomain ==
  ASSUME NEW meter, NEW state, NEW sum
  PROVE  DOMAIN CascadeSums(meter, state, sum) = DOMAIN meter
  BY Zenon DEF CascadeSums

LEMMA CascadeKeepsEarlier ==
  ASSUME NEW rows, NEW table, NEW from
  PROVE  /\ DOMAIN CascadeTable(rows, table, from) = DOMAIN table
         /\ \A y \in DOMAIN table : ~(from <= y) => CascadeTable(rows, table, from)[y] = table[y]
<1> DEFINE tail == Within(table, from, MaxTime)
           previous == Previous(table, from, Width)
           reading == LastReadingIn(rows, from, from + Width)
           meter == CorrectedMeter(tail, reading)
           chain == CascadeSums(meter, previous.state, previous.sum)
<1>1. CascadeTable(rows, table, from) = Updated(table, chain)
  BY Zenon DEF CascadeTable
<1>2. DOMAIN chain = DOMAIN tail
  <2>1. DOMAIN meter = DOMAIN tail
    BY Zenon DEF CorrectedMeter
  <2> QED
    BY <2>1, CascadeDomain, Zenon
<1>3. \A y \in DOMAIN tail : from <= y
  BY Zenon DEF Within
<1> HIDE DEF chain, tail
<1>4. \A y \in DOMAIN table : ~(from <= y) => y \notin DOMAIN chain
  BY <1>2, <1>3
<1> QED
  BY <1>1, <1>4, UpdatedRows

LEMMA HourlyIsRewritten ==
  ASSUME NEW table, NEW rows, NEW hour
  PROVE  /\ DOMAIN RecomputeHourly(table, rows, hour) = DOMAIN rows
         /\ \A h \in DOMAIN rows : ~(hour <= h) => RecomputeHourly(table, rows, hour)[h] = rows[h]
         /\ \A h \in DOMAIN rows :
              hour <= h /\ h < MaxTime /\ Covered(table, h)
                => RecomputeHourly(table, rows, hour)[h] = LastOfHour(table, h)
<1> DEFINE tail == Within(rows, hour, MaxTime)
           covered == {h \in DOMAIN tail : Covered(table, h)}
           fallback == [h \in DOMAIN tail \ covered |-> tail[h].state]
           previous == Previous(rows, hour, Hour)
           chain == CascadeSums(fallback, previous.state, previous.sum)
           new == [h \in DOMAIN tail |-> IF h \in covered THEN LastOfHour(table, h) ELSE chain[h]]
<1>1. RecomputeHourly(table, rows, hour) = Updated(rows, new)
  BY Zenon DEF RecomputeHourly
<1>2. DOMAIN new = DOMAIN tail
  OBVIOUS
<1>3. DOMAIN tail = {y \in DOMAIN rows : hour <= y /\ y < MaxTime}
  BY Zenon DEF Within
<1>4. \A h \in DOMAIN tail : Covered(table, h) => new[h] = LastOfHour(table, h)
  OBVIOUS
<1> HIDE DEF new, tail
<1> QED
  BY <1>1, <1>2, <1>3, <1>4, UpdatedRows

-----------------------------------------------------------------------------
(***************************************************************************)
(* The invariant.  An hour is compiled once all its buckets are, so that   *)
(* the bucket being compiled lies in no hour that has its row; and a       *)
(* rebuild begins at the hour of the corrected bucket, so that no          *)
(* 5-minute row it rewrites belongs to an earlier one.                     *)
(***************************************************************************)
ClockOK ==
  /\ now \in 0..MaxTime
  /\ compiled \in Nat /\ compiled % Width = 0 /\ compiled <= now

StartsOK ==
  /\ DOMAIN states \subseteq Nat
  /\ DOMAIN short \subseteq {s \in Nat : s < compiled}
  /\ \A h \in DOMAIN hourly : h \in Nat /\ h % Hour = 0 /\ h + Hour <= compiled

RowsInv == ClockOK /\ StartsOK /\ HourlyCopiesShort

LEMMA InitRows == Init => RowsInv
<1> SUFFICES ASSUME Init PROVE RowsInv
  OBVIOUS
<1>1. DOMAIN states = {} /\ DOMAIN short = {} /\ DOMAIN hourly = {}
  BY DEF Init
<1>2. 0 % Width = 0
  BY WidthsAssumption
<1> QED
  BY <1>1, <1>2, MaxTimeAssumption DEF Init, RowsInv, ClockOK, StartsOK, HourlyCopiesShort

\* The recorder's side: one more bucket is compiled into table, which holds
\* what short did of all earlier ones, and its hour with it when it is the last.
LEMMA CompiledRows ==
  ASSUME RowsInv, NEW table,
         compiled + Width <= now, compiled' = compiled + Width,
         now' = now, states' = states, short' = table,
         DOMAIN table \subseteq DOMAIN short \cup {compiled},
         \A y : y # compiled => (y \in DOMAIN short <=> y \in DOMAIN table),
         \A y \in DOMAIN short : y # compiled => table[y] = short[y],
         hourly' = HourCompiled(table, compiled)
  PROVE  RowsInv'
<1> USE DEF RowsInv
<1>w. Width \in Nat \ {0} /\ Hour \in Nat \ {0}
  BY WidthsAssumption
<1>c. compiled \in Nat /\ compiled % Width = 0
  BY DEF ClockOK
<1>1. ClockOK'
  BY <1>w, <1>c, NextOnGrid, MaxTimeAssumption DEF ClockOK
<1>2. /\ HourOf(compiled) \in Nat /\ HourOf(compiled) % Hour = 0
  BY <1>c, BucketBounds
<1>3. /\ DOMAIN hourly' \subseteq DOMAIN hourly \cup {HourOf(compiled)}
      /\ \A h \in DOMAIN hourly' :
           \/ h \in DOMAIN hourly /\ hourly'[h] = hourly[h]
           \/ h = HourOf(compiled) /\ h + Hour = compiled + Width /\ hourly'[h] = LastOfHour(table, h)
  BY Zenon DEF HourCompiled, Put
<1>4. StartsOK'
  <2>1. \A y \in DOMAIN table : y \in Nat /\ y < compiled + Width
    BY <1>w, <1>c DEF StartsOK
  <2>2. \A h \in DOMAIN hourly' : h \in Nat /\ h % Hour = 0 /\ h + Hour <= compiled + Width
    <3> TAKE h \in DOMAIN hourly'
    <3>1. CASE h \in DOMAIN hourly
      BY <3>1, <1>w, <1>c DEF StartsOK
    <3>2. CASE h = HourOf(compiled) /\ h + Hour = compiled + Width
      <4>1. h \in Nat /\ h % Hour = 0
        BY <3>2, <1>2, Zenon
      <4> QED
        BY <4>1, <3>2, <1>w, <1>c
    <3> QED
      BY <1>3, <3>1, <3>2, Zenon
  <2> QED
    BY <2>1, <2>2 DEF StartsOK
<1>5. HourlyCopiesShort'
  <2> SUFFICES ASSUME NEW h \in DOMAIN hourly', Covered(table, h)
               PROVE  hourly'[h] = LastOfHour(table, h)
    BY Zenon DEF HourlyCopiesShort
  <2>1. CASE h \in DOMAIN hourly /\ hourly'[h] = hourly[h]
    <3>1. h \in Nat /\ h + Hour <= compiled
      BY <2>1 DEF StartsOK
    <3>2. \A y \in DOMAIN short \cup DOMAIN table : y < h + Hour => y # compiled
      BY <3>1, <1>w, <1>c DEF StartsOK
    <3>3. Within(short, h, h + Hour) = Within(table, h, h + Hour)
      <4>1. \A y : h <= y /\ y < h + Hour => (y \in DOMAIN short <=> y \in DOMAIN table)
        BY <3>2
      <4>2. \A y \in DOMAIN short : h <= y /\ y < h + Hour => short[y] = table[y]
        BY <3>2
      <4> QED
        BY <4>1, <4>2, WithinSame
    <3>4. Covered(short, h) /\ LastOfHour(short, h) = LastOfHour(table, h)
      BY <3>3, SameHour
    <3>5. hourly[h] = LastOfHour(short, h)
      BY <2>1, <3>4, Zenon DEF HourlyCopiesShort
    <3> QED
      BY <2>1, <3>4, <3>5
  <2>2. CASE hourly'[h] = LastOfHour(table, h)
    BY <2>2
  <2> QED
    BY <1>3, <2>1, <2>2, Zenon
<1> QED
  BY <1>1, <1>4, <1>5

\* The add-on's side: a rebuild from an instant on.
LEMMA RebuiltRows ==
  ASSUME RowsInv, NEW rows, NEW ts \in Nat,
         now' = now, compiled' = compiled, DOMAIN states' \subseteq Nat,
         Recompute(rows, ts)
  PROVE  RowsInv'
<1> USE DEF RowsInv
<1> DEFINE table == CascadeTable(rows, short, BucketStart(ts, Width))
           hour == HourOf(ts)
<1>w. Width \in Nat \ {0} /\ Hour \in Nat \ {0}
  BY WidthsAssumption
<1>t. /\ hour \in Nat /\ hour % Hour = 0 /\ hour <= BucketStart(ts, Width)
      /\ BucketStart(ts, Width) \in Nat
  BY BucketBounds
<1>1. short' = table /\ hourly' = RecomputeHourly(table, hourly, hour)
  BY Zenon DEF Recompute
<1>2. /\ DOMAIN table = DOMAIN short
      /\ \A y \in DOMAIN short : ~(BucketStart(ts, Width) <= y) => table[y] = short[y]
  BY CascadeKeepsEarlier
<1> HIDE DEF table, hour
<1>3. /\ DOMAIN hourly' = DOMAIN hourly
      /\ \A h \in DOMAIN hourly : ~(hour <= h) => hourly'[h] = hourly[h]
      /\ \A h \in DOMAIN hourly :
           hour <= h /\ h < MaxTime /\ Covered(table, h) => hourly'[h] = LastOfHour(table, h)
  BY <1>1, HourlyIsRewritten
<1>4. ClockOK' /\ StartsOK'
  BY <1>1, <1>2, <1>3 DEF ClockOK, StartsOK
<1>5. HourlyCopiesShort'
  <2> SUFFICES ASSUME NEW h \in DOMAIN hourly, Covered(table, h)
               PROVE  hourly'[h] = LastOfHour(table, h)
    BY <1>1, <1>3, Zenon DEF HourlyCopiesShort
  <2>1. h \in Nat /\ h % Hour = 0 /\ h + Hour <= compiled /\ compiled \in Nat
        /\ compiled <= now /\ now \in 0..MaxTime
    BY DEF StartsOK, ClockOK
  <2>2. CASE hour <= h
    <3>1. h < MaxTime
      BY <2>1, <1>w, MaxTimeAssumption
    <3> QED
      BY <2>2, <3>1, <1>3, Zenon
  <2>3. CASE ~(hour <= h)
    <3>1. h + Hour <= hour
      BY <2>1, <2>3, <1>t, <1>w, GridGap
    <3>2. \A y \in DOMAIN short : y < h + Hour => ~(BucketStart(ts, Width) <= y)
      BY <2>1, <3>1, <1>t, <1>w DEF StartsOK
    <3>3. Within(short, h, h + Hour) = Within(table, h, h + Hour)
      <4>1. \A y \in DOMAIN short : h <= y /\ y < h + Hour => short[y] = table[y]
        BY <3>2, <1>2
      <4> QED
        BY <4>1, <1>2, WithinSame
    <3>4. Covered(short, h) /\ LastOfHour(short, h) = LastOfHour(table, h)
      BY <3>3, SameHour
    <3>5. hourly[h] = LastOfHour(short, h)
      BY <3>4, Zenon DEF HourlyCopiesShort
    <3> QED
      BY <2>3, <3>4, <3>5, <1>3
  <2> QED
    BY <2>2, <2>3
<1> QED
  BY <1>4, <1>5

\* A purge takes rows from the front: an hour that keeps one keeps its last.
LEMMA PurgedHour ==
  ASSUME RowsInv, NEW cut \in Nat, NEW h, Covered(Within(short, cut, MaxTime), h)
  PROVE  /\ Covered(short, h)
         /\ LastOfHour(Within(short, cut, MaxTime), h) = LastOfHour(short, h)
<1> DEFINE kept == Within(short, cut, MaxTime)
           A == Within(short, h, h + Hour)
           B == Within(kept, h, h + Hour)
<1>1. DOMAIN short \subseteq Nat /\ \A y \in DOMAIN short : y < MaxTime
  BY MaxTimeAssumption DEF RowsInv, ClockOK, StartsOK
<1>2. /\ DOMAIN kept = {y \in DOMAIN short : cut <= y /\ y < MaxTime}
      /\ \A y \in DOMAIN kept : kept[y] = short[y]
  BY Zenon DEF Within
<1>3. /\ DOMAIN A = {y \in DOMAIN short : h <= y /\ y < h + Hour}
      /\ \A y \in DOMAIN A : A[y] = short[y]
  BY Zenon DEF Within
<1>4. /\ DOMAIN B = {y \in DOMAIN kept : h <= y /\ y < h + Hour}
      /\ \A y \in DOMAIN B : B[y] = kept[y]
  BY Zenon DEF Within
<1>5. DOMAIN B # {} /\ Covered(short, h) = (DOMAIN A # {})
      /\ LastOfHour(kept, h) = B[Max(DOMAIN B)] /\ LastOfHour(short, h) = A[Max(DOMAIN A)]
  BY Zenon DEF Covered, LastOfHour, Last
<1> HIDE DEF A, B, kept
<1>6. PICK y0 \in DOMAIN B : y0 \in DOMAIN A /\ cut <= y0
  BY <1>2, <1>3, <1>4, <1>5
<1>7. DOMAIN A \subseteq 0..MaxTime
  BY <1>1, <1>3, MaxTimeAssumption
<1> DEFINE m == Max(DOMAIN A)
<1>8. m \in DOMAIN A /\ \A y \in DOMAIN A : m >= y
  BY <1>6, <1>7, MaxTimeAssumption, LastInstant
<1> HIDE DEF m
<1>9. m \in DOMAIN B
  <2>1. m \in 0..MaxTime /\ y0 \in 0..MaxTime /\ m >= y0
    BY <1>6, <1>7, <1>8
  <2>2. m \in DOMAIN short /\ h <= m /\ m < h + Hour /\ m < MaxTime
    BY <1>1, <1>3, <1>8
  <2>3. cut <= m
    BY <2>1, <1>6
  <2> QED
    BY <2>2, <2>3, <1>2, <1>4
<1>10. \A y \in DOMAIN B : y \in DOMAIN A
  BY <1>2, <1>3, <1>4
<1>11. Max(DOMAIN B) = m
  <2>1. DOMAIN B \in SUBSET Int
    BY <1>7, <1>10, MaxTimeAssumption
  <2> QED
    BY <2>1, <1>8, <1>9, <1>10, MaxIs
<1>12. B[m] = A[m]
  BY <1>2, <1>3, <1>4, <1>8, <1>9
<1> QED
  BY <1>5, <1>6, <1>11, <1>12 DEF m, kept

LEMMA PurgeRows == ASSUME RowsInv, NEW cut \in PurgeCuts, Purge(cut) PROVE RowsInv'
<1> USE DEF RowsInv
<1>1. now' = now /\ compiled' = compiled /\ hourly' = hourly
      /\ states' = Within(states, cut, MaxTime) /\ short' = Within(short, cut, MaxTime)
  BY DEF Purge
<1>2. ClockOK'
  BY <1>1 DEF ClockOK
<1>3. StartsOK'
  <2>1. DOMAIN Within(states, cut, MaxTime) \subseteq DOMAIN states
        /\ DOMAIN Within(short, cut, MaxTime) \subseteq DOMAIN short
    BY Zenon DEF Within
  <2> QED
    BY <2>1, <1>1 DEF StartsOK
<1>4. HourlyCopiesShort'
  <2> SUFFICES ASSUME NEW h \in DOMAIN hourly, Covered(Within(short, cut, MaxTime), h)
               PROVE  hourly[h] = LastOfHour(Within(short, cut, MaxTime), h)
    BY <1>1, Zenon DEF HourlyCopiesShort
  <2>1. cut \in Nat
    BY PurgeCutsAssumption
  <2>2. Covered(short, h) /\ LastOfHour(Within(short, cut, MaxTime), h) = LastOfHour(short, h)
    BY <2>1, PurgedHour
  <2> QED
    BY <2>2, Zenon DEF HourlyCopiesShort
<1> QED
  BY <1>2, <1>3, <1>4

LEMMA ReportRows == ASSUME RowsInv, NEW v, Report(v) PROVE RowsInv'
<1> USE DEF RowsInv
<1>1. now < MaxTime /\ now' = now + 1 /\ compiled' = compiled /\ short' = short /\ hourly' = hourly
      /\ (states' = states \/ states' = Put(states, now, v))
  BY DEF Report
<1>2. DOMAIN states' \subseteq DOMAIN states \cup {now}
  BY <1>1 DEF Put
<1>3. ClockOK' /\ StartsOK'
  BY <1>1, <1>2, MaxTimeAssumption DEF ClockOK, StartsOK
<1>4. HourlyCopiesShort'
  BY <1>1 DEF HourlyCopiesShort, Covered, LastOfHour
<1> QED
  BY <1>3, <1>4

LEMMA CompileRows == ASSUME RowsInv, Compile PROVE RowsInv'
<1> DEFINE table == IF DOMAIN ReadingsWith(states, compiled, compiled + Width) # {}
                      THEN Put(short, compiled, CompiledRow(compiled)) ELSE short
<1>1. /\ compiled + Width <= now /\ compiled' = compiled + Width
      /\ now' = now /\ states' = states
      /\ short' = table /\ hourly' = HourCompiled(table, compiled)
  BY Zenon DEF Compile
<1>2. /\ DOMAIN table \subseteq DOMAIN short \cup {compiled}
      /\ \A y : y # compiled => (y \in DOMAIN short <=> y \in DOMAIN table)
      /\ \A y \in DOMAIN short : y # compiled => table[y] = short[y]
  BY Zenon DEF Put
<1> HIDE DEF table
<1> QED
  BY <1>1, <1>2, CompiledRows, Zenon

LEMMA MissRows == ASSUME RowsInv, Miss PROVE RowsInv'
<1>1. /\ compiled + Width <= now /\ compiled' = compiled + Width
      /\ now' = now /\ states' = states
      /\ short' = short /\ hourly' = HourCompiled(short, compiled)
  BY Zenon DEF Miss
<1> QED
  BY <1>1, CompiledRows, Zenon

LEMMA CorrectRows == ASSUME RowsInv, NEW ts \in Times, NEW new, Correct(ts, new) PROVE RowsInv'
<1>1. ts \in Nat
  BY MaxTimeAssumption DEF Times
<1>2. /\ now' = now /\ compiled' = compiled /\ ts \in DOMAIN states
      /\ states' = Put(states, ts, new) /\ Recompute(states', ts)
  BY Zenon DEF Correct
<1>3. DOMAIN states' \subseteq Nat
  BY <1>1, <1>2 DEF RowsInv, StartsOK, Put
<1> QED
  BY <1>1, <1>2, <1>3, RebuiltRows

LEMMA RestoreRows == ASSUME RowsInv, NEW i \in DOMAIN audit, Restore(i) PROVE RowsInv'
<1>2. /\ now' = now /\ compiled' = compiled /\ audit[i].ts \in DOMAIN states
      /\ states' = Put(states, audit[i].ts, audit[i].orig) /\ Recompute(states', audit[i].ts)
  BY Zenon DEF Restore
<1>1. audit[i].ts \in Nat
  BY <1>2 DEF RowsInv, StartsOK
<1>3. DOMAIN states' \subseteq Nat
  BY <1>1, <1>2 DEF RowsInv, StartsOK, Put
<1> QED
  BY <1>1, <1>2, <1>3, RebuiltRows

LEMMA NextRows == RowsInv /\ [Next]_vars => RowsInv'
<1> SUFFICES ASSUME RowsInv, [Next]_vars PROVE RowsInv'
  OBVIOUS
<1>1. CASE \E v \in Readings \cup {Unavailable, Nothing} : Report(v)
  BY <1>1, ReportRows
<1>2. CASE Compile
  BY <1>2, CompileRows
<1>3. CASE Miss
  BY <1>3, MissRows
<1>4. CASE \E cut \in PurgeCuts : Purge(cut)
  BY <1>4, PurgeRows
<1>5. CASE \E ts \in Times, new \in Readings : Correct(ts, new)
  BY <1>5, CorrectRows
<1>6. CASE \E i \in DOMAIN audit : Restore(i)
  BY <1>6, RestoreRows
<1>7. CASE UNCHANGED vars
  BY <1>7 DEF vars, RowsInv, ClockOK, StartsOK, HourlyCopiesShort, Covered, LastOfHour
<1> QED
  BY <1>1, <1>2, <1>3, <1>4, <1>5, <1>6, <1>7 DEF Next

\* Whatever is reported, compiled, purged, corrected and restored, in whatever
\* order, every hourly row of a counter that still has a 5-minute row of its
\* hour is the last of them.
THEOREM HourlyRowsAreCopies == Spec => []HourlyCopiesShort
<1>1. RowsInv => HourlyCopiesShort
  BY DEF RowsInv
<1> QED
  BY <1>1, InitRows, NextRows, PTL DEF Spec

-----------------------------------------------------------------------------
(***************************************************************************)
(* Running totals.  Known are the buckets of a chain with a meter reading; *)
(* each of them adds what was consumed since the one before.               *)
(***************************************************************************)
Known(meter) == {s \in DOMAIN meter : meter[s] # Null}

RunningState(meter, p, s) ==
  IF {t \in Known(meter) : t < s} = {} THEN p ELSE meter[Max({t \in Known(meter) : t < s})]

Steps(meter, p, s) ==
  [t \in {u \in Known(meter) : u <= s} |-> Increase(meter[t], RunningState(meter, p, t))]

\* A meter with readings, or none, in some buckets.
MeterOK(meter, N) ==
  /\ N \in Nat /\ DOMAIN meter \subseteq 0..N
  /\ \A s \in DOMAIN meter : meter[s] \in Int \cup {Null}

LEMMA ChainDef ==
  ASSUME NEW meter, NEW p, NEW q
  PROVE  CascadeSums(meter, p, q)
           = [s \in DOMAIN meter |-> [state |-> meter[s], sum |-> q + Total(Steps(meter, p, s))]]
  BY Zenon DEF CascadeSums, Steps, RunningState, Known

LEMMA IncreaseType ==
  ASSUME NEW state \in Int, NEW previous \in Int \cup {Null}
  PROVE  Increase(state, previous) \in Int
  BY DEF Increase

LEMMA RunningStateType ==
  ASSUME NEW meter, NEW N, MeterOK(meter, N), NEW p \in Int \cup {Null}, NEW s
  PROVE  RunningState(meter, p, s) \in Int \cup {Null}
<1> DEFINE before == {t \in Known(meter) : t < s}
<1>1. CASE before = {}
  BY <1>1 DEF RunningState
<1>2. CASE before # {}
  <2>1. before \in SUBSET (0..N) /\ N \in Nat
    BY DEF MeterOK, Known
  <2>2. Max(before) \in before
    BY <1>2, <2>1, LastInstant
  <2>3. Max(before) \in DOMAIN meter
    BY <2>2 DEF Known
  <2>4. RunningState(meter, p, s) = meter[Max(before)]
    BY <1>2 DEF RunningState
  <2> QED
    BY <2>3, <2>4 DEF MeterOK
<1> QED
  BY <1>1, <1>2

LEMMA StepsType ==
  ASSUME NEW meter, NEW N, MeterOK(meter, N), NEW p \in Int \cup {Null}, NEW s
  PROVE  /\ DOMAIN Steps(meter, p, s) = {u \in Known(meter) : u <= s}
         /\ IsFiniteSet(DOMAIN Steps(meter, p, s))
         /\ \A t \in DOMAIN Steps(meter, p, s) :
              /\ Steps(meter, p, s)[t] = Increase(meter[t], RunningState(meter, p, t))
              /\ Steps(meter, p, s)[t] \in Int
<1>1. DOMAIN Steps(meter, p, s) = {u \in Known(meter) : u <= s}
  BY Zenon DEF Steps
<1>2. IsFiniteSet(DOMAIN Steps(meter, p, s))
  <2>1. {u \in Known(meter) : u <= s} \in SUBSET (0..N) /\ N \in Nat
    BY DEF MeterOK, Known
  <2>2. IsFiniteSet(0..N)
    BY <2>1, FS_Interval
  <2>3. IsFiniteSet({u \in Known(meter) : u <= s})
    BY <2>1, <2>2, FS_Subset
  <2> QED
    BY <1>1, <2>3
<1>3. ASSUME NEW t \in DOMAIN Steps(meter, p, s)
      PROVE  /\ Steps(meter, p, s)[t] = Increase(meter[t], RunningState(meter, p, t))
             /\ Steps(meter, p, s)[t] \in Int
  <2>1. t \in Known(meter) /\ Steps(meter, p, s)[t] = Increase(meter[t], RunningState(meter, p, t))
    BY <1>1, <1>3, Zenon DEF Steps
  <2>2. meter[t] \in Int
    BY <2>1 DEF Known, MeterOK
  <2> QED
    BY <2>1, <2>2, RunningStateType, IncreaseType
<1> QED
  BY <1>1, <1>2, <1>3

LEMMA ChainType ==
  ASSUME NEW meter, NEW N, MeterOK(meter, N), NEW p \in Int \cup {Null}, NEW q \in Int,
         NEW s \in DOMAIN meter
  PROVE  /\ CascadeSums(meter, p, q)[s] = [state |-> meter[s], sum |-> CascadeSums(meter, p, q)[s].sum]
         /\ CascadeSums(meter, p, q)[s].sum = q + Total(Steps(meter, p, s))
         /\ Total(Steps(meter, p, s)) \in Int
         /\ CascadeSums(meter, p, q)[s].sum \in Int
<1>1. CascadeSums(meter, p, q)[s] = [state |-> meter[s], sum |-> q + Total(Steps(meter, p, s))]
  BY ChainDef
<1>2. Total(Steps(meter, p, s)) \in Int
  BY StepsType, TotalType
<1>3. CascadeSums(meter, p, q)[s].sum = q + Total(Steps(meter, p, s))
  BY <1>1
<1>4. q + Total(Steps(meter, p, s)) \in Int
  BY <1>2
<1> QED
  BY <1>1, <1>2, <1>3, <1>4

\* The first known bucket of a chain is picked up from what was given.
LEMMA ChainFirst ==
  ASSUME NEW meter, NEW N, MeterOK(meter, N), NEW p \in Int \cup {Null}, NEW q \in Int,
         NEW s \in Known(meter), \A t \in Known(meter) : ~(t < s)
  PROVE  CascadeSums(meter, p, q)[s].sum = q + Increase(meter[s], p)
<1> DEFINE f == Steps(meter, p, s)
<1>0. s \in DOMAIN meter /\ s \in Int
  BY DEF Known, MeterOK
<1>1. DOMAIN f = {s}
  <2>1. \A u \in Known(meter) : u <= s <=> u = s
    BY <1>0 DEF Known, MeterOK
  <2>2. {u \in Known(meter) : u <= s} = {s}
    BY <2>1
  <2>3. DOMAIN f = {u \in Known(meter) : u <= s}
    BY StepsType
  <2> HIDE DEF f
  <2> QED
    BY <2>2, <2>3
<1>2. f[s] = Increase(meter[s], RunningState(meter, p, s)) /\ f[s] \in Int
      /\ IsFiniteSet(DOMAIN f) /\ \A t \in DOMAIN f : f[t] \in Int
  BY <1>1, StepsType
<1>3. RunningState(meter, p, s) = p
  BY DEF RunningState
<1> HIDE DEF f
<1>4. Total(f) = f[s] + Total(Without(f, s))
  BY <1>1, <1>2, TotalRemove
<1>5. DOMAIN Without(f, s) = {}
  BY <1>1, Zenon DEF Without
<1>6. Total(Without(f, s)) = 0
  BY <1>5, TotalEmpty
<1>7. Total(f) = f[s]
  BY <1>2, <1>4, <1>6
<1>8. CascadeSums(meter, p, q)[s].sum = q + Total(f)
  BY <1>0, ChainType DEF f
<1> QED
  BY <1>2, <1>3, <1>7, <1>8, Zenon

\* Every other one adds what was consumed since the known bucket before it.
LEMMA ChainStep ==
  ASSUME NEW meter, NEW N, MeterOK(meter, N), NEW p \in Int \cup {Null}, NEW q \in Int,
         NEW s \in Known(meter), NEW a \in Known(meter), a < s,
         \A t \in Known(meter) : t < s => t <= a
  PROVE  CascadeSums(meter, p, q)[s].sum = CascadeSums(meter, p, q)[a].sum + Increase(meter[s], meter[a])
<1> DEFINE f == Steps(meter, p, s)
           g == Steps(meter, p, a)
           before == {t \in Known(meter) : t < s}
<1>0. s \in DOMAIN meter /\ a \in DOMAIN meter /\ Known(meter) \subseteq Int
  BY DEF Known, MeterOK
<1>1. RunningState(meter, p, s) = meter[a]
  <2>1. before \in SUBSET Int /\ a \in before /\ \A y \in before : a >= y
    BY <1>0
  <2>2. Max(before) = a
    BY <2>1, MaxIs
  <2> QED
    BY <2>1, <2>2 DEF RunningState
<1>2. /\ DOMAIN f = {u \in Known(meter) : u <= s} /\ DOMAIN g = {u \in Known(meter) : u <= a}
      /\ IsFiniteSet(DOMAIN f) /\ \A t \in DOMAIN f : f[t] \in Int
      /\ f[s] = Increase(meter[s], meter[a])
  <2>1. /\ DOMAIN f = {u \in Known(meter) : u <= s} /\ DOMAIN g = {u \in Known(meter) : u <= a}
        /\ IsFiniteSet(DOMAIN f)
        /\ \A t \in DOMAIN f : f[t] = Increase(meter[t], RunningState(meter, p, t)) /\ f[t] \in Int
    BY StepsType
  <2>2. s \in {u \in Known(meter) : u <= s}
    BY <1>0
  <2> HIDE DEF f, g
  <2> QED
    BY <1>1, <2>1, <2>2
<1>3. Without(f, s) = g
  <2>1. {u \in Known(meter) : u <= s} \ {s} = {u \in Known(meter) : u <= a}
    BY <1>0
  <2>2. DOMAIN f \ {s} = DOMAIN g
    BY <1>2, <2>1
  <2>3. ASSUME NEW t \in DOMAIN g PROVE f[t] = g[t]
    <3>1. t \in DOMAIN f
      BY <2>2
    <3> QED
      BY <3>1, StepsType
  <2>4. Without(f, s) = [t \in DOMAIN g |-> f[t]]
    BY <2>2, Zenon DEF Without
  <2>5. g = [t \in DOMAIN g |-> g[t]]
    BY Zenon DEF Steps
  <2> HIDE DEF f, g
  <2> QED
    BY <2>3, <2>4, <2>5
<1>4. Total(f) = f[s] + Total(g)
  <2>1. s \in DOMAIN f
    BY <1>0, <1>2
  <2> HIDE DEF f, g
  <2> QED
    BY <1>2, <1>3, <2>1, TotalRemove
<1>5. /\ CascadeSums(meter, p, q)[s].sum = q + Total(f) /\ CascadeSums(meter, p, q)[a].sum = q + Total(g)
      /\ Total(g) \in Int /\ Total(f) \in Int
  BY <1>0, ChainType
<1>6. f[s] \in Int
  BY <1>0, <1>2
<1> HIDE DEF f, g
<1>7. q + (f[s] + Total(g)) = (q + Total(g)) + f[s]
  BY <1>5, <1>6
<1> QED
  BY <1>2, <1>4, <1>5, <1>7, Zenon

\* Where no reading is a reset from the one before, the totals differ by what
\* the readings do.
LEMMA ChainSmooth ==
  ASSUME NEW meter, NEW N, MeterOK(meter, N), NEW p \in Int \cup {Null}, NEW q \in Int,
         NEW a \in Known(meter), NEW s \in Known(meter), a <= s,
         \A t \in Known(meter) : a < t => ~IsReset(meter[t], RunningState(meter, p, t))
  PROVE  CascadeSums(meter, p, q)[s].sum = CascadeSums(meter, p, q)[a].sum + (meter[s] - meter[a])
<1> DEFINE sum(t) == CascadeSums(meter, p, q)[t].sum
           Bad == {t \in Known(meter) : a <= t /\ sum(t) # sum(a) + (meter[t] - meter[a])}
<1>0. /\ N \in Nat /\ Known(meter) \subseteq 0..N
      /\ \A t \in Known(meter) : meter[t] \in Int /\ sum(t) \in Int /\ t \in Nat /\ meter[t] # Null
  <2>1. N \in Nat /\ Known(meter) \subseteq 0..N
    BY DEF MeterOK, Known
  <2>2. ASSUME NEW t \in Known(meter) PROVE meter[t] \in Int /\ t \in DOMAIN meter /\ meter[t] # Null
    BY DEF MeterOK, Known
  <2>3. ASSUME NEW t \in Known(meter) PROVE sum(t) \in Int
    BY <2>2, ChainType
  <2> QED
    BY <2>1, <2>2, <2>3
<1> HIDE DEF sum
<1>1. ASSUME Bad # {} PROVE FALSE
  <2>1. PICK t \in Bad : \A u \in Bad : t <= u
    BY <1>0, <1>1, LeastExists
  <2>2. a # t
    BY <2>1, <1>0
  <2>3. t \in Known(meter) /\ a < t
    BY <2>1, <2>2, <1>0
  <2> DEFINE before == {u \in Known(meter) : u < t}
             b == Max(before)
  <2>4. b \in before /\ \A u \in before : b >= u
    <3>1. before \in SUBSET (0..N) /\ before # {}
      BY <1>0, <2>3
    <3> HIDE DEF before
    <3> QED
      BY <3>1, <1>0, LastInstant
  <2>5. RunningState(meter, p, t) = meter[b]
    BY <2>3 DEF RunningState
  <2> HIDE DEF b
  <2>6. b \in Known(meter) /\ b < t /\ a <= b /\ \A u \in Known(meter) : u < t => u <= b
    BY <2>3, <2>4, <1>0
  <2>7. sum(t) = sum(b) + Increase(meter[t], meter[b])
    BY <2>3, <2>6, ChainStep DEF sum
  <2>8. Increase(meter[t], meter[b]) = meter[t] - meter[b]
    BY <2>3, <2>5, <2>6, <1>0 DEF Increase
  <2>9. sum(b) = sum(a) + (meter[b] - meter[a])
    <3>1. b \notin Bad
      BY <2>1, <2>6, <1>0
    <3> QED
      BY <3>1, <2>6
  <2>10. /\ meter[t] \in Int /\ meter[b] \in Int /\ meter[a] \in Int
         /\ sum(t) \in Int /\ sum(b) \in Int /\ sum(a) \in Int
    BY <2>3, <2>6, <1>0
  <2>11. sum(t) # sum(a) + (meter[t] - meter[a])
    BY <2>1
  <2> HIDE DEF Bad
  <2> QED
    BY <2>7, <2>8, <2>9, <2>10, <2>11
<1> QED
  BY <1>1 DEF sum

-----------------------------------------------------------------------------
(***************************************************************************)
(* The readings of a bucket.                                               *)
(***************************************************************************)
Inside(rows, start) == {u \in DOMAIN rows : start <= u /\ u < start + Width /\ rows[u] \in Readings}

LEMMA CarriedFacts ==
  ASSUME NEW rows, NEW N \in Nat, DOMAIN rows \subseteq 0..N, NEW start
  PROVE  /\ \A c \in CarriedIn(rows, start) :
              /\ c \in DOMAIN rows /\ c < start /\ rows[c] \in Readings
              /\ CarriedIn(rows, start) = {c}
              /\ \A t \in DOMAIN rows : t < start /\ rows[t] \in Readings => t <= c
         /\ CarriedIn(rows, start) = {} => \A t \in DOMAIN rows : rows[t] \in Readings => ~(t < start)
<1> DEFINE before == {t \in DOMAIN rows : t < start /\ rows[t] \in Readings}
<1>1. CASE before = {}
  <2>1. CarriedIn(rows, start) = {}
    BY <1>1 DEF CarriedIn
  <2> QED
    BY <1>1, <2>1
<1>2. CASE before # {}
  <2>1. CarriedIn(rows, start) = {Max(before)}
    BY <1>2, Zenon DEF CarriedIn
  <2>2. Max(before) \in before /\ \A y \in before : Max(before) >= y
    <3>1. before \in SUBSET (0..N)
      OBVIOUS
    <3> HIDE DEF before
    <3> QED
      BY <3>1, <1>2, LastInstant
  <2> DEFINE m == Max(before)
  <2>3. \A t \in before : t \in Int /\ m \in Int
    BY <2>2
  <2>4. \A t \in DOMAIN rows : t < start /\ rows[t] \in Readings => t <= m
    BY <2>2, <2>3
  <2>5. m \in DOMAIN rows /\ m < start /\ rows[m] \in Readings
    BY <2>2
  <2> HIDE DEF m
  <2>6. CarriedIn(rows, start) = {m}
    BY <2>1 DEF m
  <2> QED
    BY <2>4, <2>5, <2>6
<1> QED
  BY <1>1, <1>2

LEMMA CarriedIs ==
  ASSUME NEW rows, NEW N \in Nat, DOMAIN rows \subseteq 0..N, NEW start, NEW c \in DOMAIN rows,
         c < start, rows[c] \in Readings, \A t \in DOMAIN rows : t < start /\ rows[t] \in Readings => t <= c
  PROVE  CarriedIn(rows, start) = {c}
<1>1. CarriedIn(rows, start) # {}
  BY CarriedFacts
<1>2. PICK d \in CarriedIn(rows, start) : TRUE
  BY <1>1
<1>3. /\ d \in DOMAIN rows /\ d < start /\ rows[d] \in Readings /\ CarriedIn(rows, start) = {d}
      /\ \A t \in DOMAIN rows : t < start /\ rows[t] \in Readings => t <= d
  BY <1>2, CarriedFacts
<1>4. c <= d /\ d <= c /\ c \in Int /\ d \in Int
  BY <1>3
<1> QED
  BY <1>3, <1>4

LEMMA BucketReadings ==
  ASSUME NEW rows, NEW start
  PROVE  /\ DOMAIN ReadingsWith(rows, start, start + Width) = CarriedIn(rows, start) \cup Inside(rows, start)
         /\ \A t \in CarriedIn(rows, start) \cup Inside(rows, start) :
              ReadingsWith(rows, start, start + Width)[t] = rows[t]
  BY Zenon DEF ReadingsWith, Inside

LEMMA BucketMeter ==
  ASSUME NEW rows, NEW N \in Nat, DOMAIN rows \subseteq 0..N, NEW start
  PROVE  /\ MeterOK(ReadingsWith(rows, start, start + Width), N)
         /\ Known(ReadingsWith(rows, start, start + Width)) = CarriedIn(rows, start) \cup Inside(rows, start)
         /\ \A t \in CarriedIn(rows, start) \cup Inside(rows, start) : t \in DOMAIN rows /\ rows[t] \in Readings
<1> DEFINE f == ReadingsWith(rows, start, start + Width)
           D == CarriedIn(rows, start) \cup Inside(rows, start)
<1>1. DOMAIN f = D /\ \A t \in D : f[t] = rows[t]
  BY BucketReadings
<1>2. ASSUME NEW t \in D PROVE t \in DOMAIN rows /\ rows[t] \in Readings
  BY CarriedFacts DEF Inside
<1> HIDE DEF f, D
<1>3. MeterOK(f, N)
  BY <1>1, <1>2, ReadingsAssumption DEF MeterOK
<1>4. Known(f) = D
  BY <1>1, <1>2, ReadingsAssumption, NullAssumption DEF Known
<1> QED
  BY <1>2, <1>3, <1>4 DEF f, D

\* The reading a bucket ends on.
LEMMA LastReading ==
  ASSUME NEW rows, NEW N \in Nat, DOMAIN rows \subseteq 0..N, NEW start \in Int
  PROVE  /\ LastReadingIn(rows, start, start + Width) = Null <=> Inside(rows, start) = {}
         /\ Inside(rows, start) # {} =>
              /\ LastReadingIn(rows, start, start + Width) = rows[Max(Inside(rows, start))]
              /\ Max(Inside(rows, start)) \in Inside(rows, start)
              /\ \A t \in Inside(rows, start) : t <= Max(Inside(rows, start))
              /\ Max(DOMAIN ReadingsWith(rows, start, start + Width)) = Max(Inside(rows, start))
              /\ LastReadingIn(rows, start, start + Width) \in Readings
<1> DEFINE f == ReadingsWith(rows, start, start + Width)
           C == CarriedIn(rows, start)
           I == Inside(rows, start)
           inside == Within(f, start, start + Width)
<1>1. DOMAIN f = C \cup I /\ \A t \in C \cup I : f[t] = rows[t]
  BY BucketReadings
<1>2. \A c \in C : c < start /\ c \in Int
  BY CarriedFacts
<1>3. \A t \in I : start <= t /\ t < start + Width /\ t \in 0..N /\ rows[t] \in Readings
  BY DEF Inside
<1>4. DOMAIN inside = {y \in DOMAIN f : start <= y /\ y < start + Width}
      /\ \A y \in DOMAIN inside : inside[y] = f[y]
  BY Zenon DEF Within
<1> HIDE DEF f, C, I
<1>5. DOMAIN inside = I
  BY <1>1, <1>2, <1>3, <1>4
<1>6. LastReadingIn(rows, start, start + Width) = IF I = {} THEN Null ELSE inside[Max(I)]
  BY <1>5, Zenon DEF LastReadingIn, Last, f
<1> HIDE DEF inside
<1>7. ASSUME I # {} PROVE Max(I) \in I /\ \A t \in I : t <= Max(I)
  <2>1. I \in SUBSET (0..N)
    BY <1>3
  <2>2. Max(I) \in I /\ \A t \in I : Max(I) >= t
    BY <2>1, <1>7, LastInstant
  <2> QED
    BY <2>1, <2>2
<1>8. ASSUME I # {} PROVE inside[Max(I)] = rows[Max(I)] /\ rows[Max(I)] \in Readings
  BY <1>1, <1>3, <1>4, <1>5, <1>7, <1>8
<1>9. ASSUME I # {} PROVE Max(DOMAIN f) = Max(I)
  <2> DEFINE m == Max(I)
  <2>1. m \in DOMAIN f /\ \A t \in I : t <= m /\ t \in Int
    BY <1>1, <1>3, <1>7, <1>9
  <2>2. start <= m /\ m \in Int
    BY <1>3, <1>7, <1>9
  <2> HIDE DEF m
  <2>3. DOMAIN f \in SUBSET Int /\ \A y \in DOMAIN f : m >= y
    BY <1>1, <1>2, <2>1, <2>2
  <2>4. Max(DOMAIN f) = m
    BY <2>1, <2>3, MaxIs
  <2> QED
    BY <2>4 DEF m
<1>10. \A r \in Readings : r # Null
  BY ReadingsAssumption, NullAssumption
<1> QED
  BY <1>6, <1>7, <1>8, <1>9, <1>10 DEF f, I

\* A row compiled from readings, of which there is one in the bucket.
LEMMA BucketRowType ==
  ASSUME NEW rows, NEW N \in Nat, DOMAIN rows \subseteq 0..N, NEW start \in Int,
         NEW p \in Int \cup {Null}, NEW q \in Int,
         DOMAIN ReadingsWith(rows, start, start + Width) # {}
  PROVE  Last(CascadeSums(ReadingsWith(rows, start, start + Width), p, q)) \in Row
<1> DEFINE f == ReadingsWith(rows, start, start + Width)
           D == CarriedIn(rows, start) \cup Inside(rows, start)
           m == Max(DOMAIN f)
<1>1. DOMAIN f = D /\ \A t \in D : f[t] = rows[t] /\ t \in DOMAIN rows /\ rows[t] \in Readings
  BY BucketReadings, BucketMeter
<1>2. MeterOK(f, N)
  BY BucketMeter
<1> HIDE DEF f, D
<1>3. m \in DOMAIN f
  <2>1. DOMAIN f \in SUBSET (0..N) /\ DOMAIN f # {}
    BY <1>1 DEF f
  <2> QED
    BY <2>1, LastInstant
<1> HIDE DEF m
<1>4. CascadeSums(f, p, q)[m] = [state |-> f[m], sum |-> CascadeSums(f, p, q)[m].sum]
      /\ CascadeSums(f, p, q)[m].sum \in Int
  BY <1>2, <1>3, ChainType
<1>5. f[m] \in Readings
  BY <1>1, <1>3
<1>6. Last(CascadeSums(f, p, q)) = CascadeSums(f, p, q)[m]
  BY CascadeDomain DEF Last, m
<1>7. CascadeSums(f, p, q)[m] \in Row
  BY <1>4, <1>5 DEF Row
<1> QED
  BY <1>6, <1>7 DEF f

\* A chain that goes through the readings of a bucket, from the reading
\* carried in, and ends there.
Across(g, c, start) ==
  /\ c \in Known(g) /\ g[c] = states[c]
  /\ \A t \in Known(g) : c < t <=> t \in Inside(states, start)
  /\ \A t \in Inside(states, start) : t \in Known(g) /\ g[t] = states[t]

\* Across a steady bucket its total grows by what the readings differ by that
\* the bucket starts and ends on.
LEMMA SteadyStep ==
  ASSUME NEW N \in Nat, DOMAIN states \subseteq 0..N, NEW start \in Int,
         NEW c \in CarriedIn(states, start), Inside(states, start) # {}, Steady(start),
         NEW g, MeterOK(g, N), NEW p \in Int \cup {Null}, NEW q \in Int,
         Across(g, c, start)
  PROVE  LET m == Max(Inside(states, start))
         IN  CascadeSums(g, p, q)[m].sum = CascadeSums(g, p, q)[c].sum + Increase(states[m], states[c])
<1> DEFINE f == ReadingsWith(states, start, start + Width)
           C == CarriedIn(states, start)
           I == Inside(states, start)
           m == Max(I)
           chain == CascadeSums(g, p, q)
<1> SUFFICES chain[m].sum = chain[c].sum + Increase(states[m], states[c])
  OBVIOUS
<1>1. /\ DOMAIN f = C \cup I
      /\ \A t \in C \cup I : f[t] = states[t] /\ states[t] \in Readings
  BY BucketReadings, BucketMeter
<1>2. C = {c} /\ c < start
  BY CarriedFacts
<1>3. m \in I /\ (\A t \in I : t <= m) /\ Max(DOMAIN f) = m
  BY LastReading
<1>4. \A t \in I : start <= t /\ t \in 0..N
  BY DEF Inside
<1>5. (\A t \in Known(g) : c < t <=> t \in I) /\ (\A t \in C \cup I : t \in Known(g) /\ g[t] = states[t])
  BY <1>2 DEF Across
<1> HIDE DEF f, C, I, m
<1>6. Known(g) \subseteq 0..N
  BY DEF MeterOK, Known
<1>7. c \in 0..N /\ c \in Known(g) /\ m \in Known(g) /\ c < m /\ g[c] = states[c] /\ g[m] = states[m]
  BY <1>2, <1>3, <1>5, <1>6
<1>8. states[m] \in Int /\ states[c] \in Int /\ states[c] # Null
  BY <1>1, <1>2, <1>3, ReadingsAssumption, NullAssumption
<1>9. CASE Cardinality({t \in DOMAIN f : start <= t}) = 1
  <2>1. {t \in DOMAIN f : start <= t} = I
    BY <1>1, <1>2, <1>4, <1>7
  <2>2. I = {m}
    <3>1. I \in SUBSET (0..N) /\ IsFiniteSet(0..N)
      BY <1>4, FS_Interval
    <3>2. IsFiniteSet(I)
      BY <3>1, FS_Subset
    <3>3. PICK x : I = {x}
      BY <1>9, <2>1, <3>2, FS_Singleton
    <3> QED
      BY <3>3, <1>3
  <2>3. \A t \in Known(g) : t < m => t <= c
    <3> SUFFICES ASSUME NEW t \in Known(g), t < m PROVE t <= c
      OBVIOUS
    <3>1. t # m /\ t \in Int /\ c \in Int
      BY <1>6, <1>7
    <3>2. ~(c < t)
      BY <1>5, <2>2, <3>1
    <3> QED
      BY <3>1, <3>2
  <2> QED
    BY <1>7, <2>3, ChainStep
<1>10. CASE /\ \E d \in C : ~IsReset(Last(f), states[d])
            /\ \A t \in DOMAIN f : start <= t => ~IsReset(f[t], f[Max({u \in DOMAIN f : u < t})])
  <2>1. ~IsReset(states[m], states[c])
    <3>1. Last(f) = states[m]
      BY <1>1, <1>3 DEF Last
    <3> QED
      BY <1>10, <1>2, <3>1
  <2>2. ASSUME NEW t \in Known(g), c < t PROVE ~IsReset(g[t], RunningState(g, p, t))
    <3> DEFINE before == {u \in DOMAIN f : u < t}
               b == Max(before)
    <3>1. t \in I /\ start <= t /\ t \in DOMAIN f /\ t \in 0..N
      BY <2>2, <1>1, <1>4, <1>5
    <3>2. before \subseteq 0..N /\ c \in before
      BY <1>1, <1>2, <1>4, <1>7, <2>2
    <3>3. b \in before /\ \A u \in before : u <= b
      BY <3>2, LastInstant
    <3>4. b \in Known(g) /\ g[b] = f[b] /\ b < t
      BY <1>1, <1>5, <3>3
    <3>5. \A u \in {w \in Known(g) : w < t} : u <= b
      <4> SUFFICES ASSUME NEW u \in Known(g), u < t PROVE u <= b
        OBVIOUS
      <4>1. CASE c < u
        <5>1. u \in before
          BY <1>1, <1>5, <4>1
        <5> QED
          BY <3>3, <5>1
      <4>2. CASE ~(c < u)
        <5>1. u \in Int /\ c \in Int /\ b \in Int /\ c <= b
          BY <1>6, <1>7, <3>2, <3>3
        <5> QED
          BY <4>2, <5>1
      <4> QED
        BY <4>1, <4>2
    <3> HIDE DEF b
    <3>6. Max({w \in Known(g) : w < t}) = b
      <4> DEFINE earlier == {w \in Known(g) : w < t}
      <4>1. earlier \in SUBSET Int /\ b \in earlier /\ b \in Int
        BY <1>6, <3>4
      <4>2. \A u \in earlier : b >= u
        BY <3>5, <4>1
      <4> HIDE DEF earlier
      <4>3. Max(earlier) = b
        BY <4>1, <4>2, MaxIs
      <4> QED
        BY <4>3 DEF earlier
    <3>7. RunningState(g, p, t) = g[b]
      BY <3>4, <3>6 DEF RunningState
    <3>8. ~IsReset(f[t], f[b])
      BY <1>10, <3>1 DEF b
    <3> QED
      BY <1>1, <1>5, <3>1, <3>4, <3>7, <3>8
  <2>3. c <= m
    BY <1>6, <1>7
  <2>4. chain[m].sum = chain[c].sum + (g[m] - g[c])
    BY <1>7, <2>2, <2>3, ChainSmooth
  <2>5. Increase(states[m], states[c]) = states[m] - states[c]
    BY <2>1, <1>8 DEF Increase
  <2> HIDE DEF chain
  <2> QED
    BY <1>7, <2>4, <2>5
<1> QED
  BY <1>9, <1>10, Zenon DEF Steady, f, C

\* What the recorder makes of a steady bucket is what a correction makes of
\* it: the difference of the readings it starts and ends on.
LEMMA SteadyRow ==
  ASSUME Readings \subseteq Nat, NEW N \in Nat, DOMAIN states \subseteq 0..N, NEW start \in Int,
         NEW c \in CarriedIn(states, start), NEW q \in Int,
         Inside(states, start) # {}, Steady(start)
  PROVE  LET r == LastReadingIn(states, start, start + Width)
         IN  Last(CascadeSums(ReadingsWith(states, start, start + Width), states[c], q))
               = [state |-> r, sum |-> q + Increase(r, states[c])]
<1> DEFINE f == ReadingsWith(states, start, start + Width)
           C == CarriedIn(states, start)
           I == Inside(states, start)
           p == states[c]
           m == Max(I)
           r == LastReadingIn(states, start, start + Width)
           chain == CascadeSums(f, p, q)
<1>1. /\ DOMAIN f = C \cup I /\ Known(f) = C \cup I /\ MeterOK(f, N)
      /\ \A t \in C \cup I : f[t] = states[t]
  BY BucketReadings, BucketMeter
<1>2. C = {c} /\ c < start /\ c \in DOMAIN states /\ p \in Readings
  BY CarriedFacts
<1>3. r = states[m] /\ m \in I /\ Max(DOMAIN f) = m
  BY LastReading
<1>4. \A t \in I : start <= t /\ t \in 0..N
  BY DEF Inside
<1>5. p \in Int /\ p \in Int \cup {Null}
  BY <1>2, ReadingsAssumption
<1> HIDE DEF f, C, I, p, m, r
<1>6. chain[c].sum = q
  <2>1. c \in Known(f) /\ \A t \in Known(f) : ~(t < c)
    BY <1>1, <1>2, <1>4
  <2>2. chain[c].sum = q + Increase(f[c], p)
    BY <1>1, <1>5, <2>1, ChainFirst
  <2>3. f[c] = p
    BY <1>1, <1>2 DEF p
  <2>4. Increase(p, p) = 0
    BY <1>2 DEF Increase, IsReset
  <2> HIDE DEF chain
  <2> QED
    BY <2>2, <2>3, <2>4
<1>7. chain[m].sum = chain[c].sum + Increase(states[m], p)
  <2>1. c \in Int /\ \A t \in Known(f) : c < t <=> t \in I
    BY <1>1, <1>2, <1>4
  <2>2. c \in Known(f) /\ f[c] = states[c] /\ \A t \in I : t \in Known(f) /\ f[t] = states[t]
    BY <1>1, <1>2
  <2>3. Across(f, c, start)
    BY <2>1, <2>2 DEF Across, I
  <2> QED
    BY <1>1, <1>5, <2>3, SteadyStep DEF m, p, I
<1>8. Last(chain) = chain[m]
  BY <1>3, CascadeDomain DEF Last
<1>9. chain[m] = [state |-> f[m], sum |-> chain[m].sum] /\ f[m] = r
  BY <1>1, <1>3, <1>5, ChainType
<1> HIDE DEF chain
<1>10. Last(chain) = [state |-> r, sum |-> q + Increase(r, p)]
  BY <1>3, <1>6, <1>7, <1>8, <1>9
<1> QED
  BY <1>10 DEF chain, f, p, r

-----------------------------------------------------------------------------
(***************************************************************************)
(* What a cascade makes of the rows of a table.                            *)
(***************************************************************************)
RowsOK(table) ==
  /\ DOMAIN table \subseteq Starts
  /\ \A s \in DOMAIN table : table[s] \in Row

LEMMA StartFacts ==
  ASSUME NEW s \in Starts
  PROVE  s \in Nat /\ s % Width = 0 /\ s < MaxTime /\ s \in 0..MaxTime
  BY MaxTimeAssumption DEF Starts, Times

LEMMA RowFacts ==
  ASSUME NEW row \in Row
  PROVE  /\ row.state \in Readings /\ row.sum \in Int
         /\ row.state \in Int /\ row.state # Null /\ row = [state |-> row.state, sum |-> row.sum]
  BY ReadingsAssumption, NullAssumption DEF Row

\* The only row of a short-term table a width before a start is the last one.
LEMMA PreviousIs ==
  ASSUME NEW table, DOMAIN table \subseteq Starts, NEW from \in Nat, from % Width = 0
  PROVE  /\ from - Width \in DOMAIN table => Previous(table, from, Width) = table[from - Width]
         /\ from - Width \notin DOMAIN table => Previous(table, from, Width) = NoRow
<1> DEFINE f == Within(table, from - Width, from)
           b == from - Width
<1>w. Width \in Nat \ {0}
  BY WidthsAssumption
<1>1. DOMAIN f = {y \in DOMAIN table : b <= y /\ y < from} /\ \A y \in DOMAIN f : f[y] = table[y]
  BY Zenon DEF Within
<1>2. \A y \in DOMAIN table : b <= y /\ y < from => y = b
  <2> TAKE y \in DOMAIN table
  <2> HAVE b <= y /\ y < from
  <2>1. y \in Nat /\ y % Width = 0
    BY StartFacts
  <2>2. y + Width <= from
    BY <2>1, <1>w, GridGap
  <2> QED
    BY <2>1, <2>2, <1>w
<1>3. Previous(table, from, Width) = LastRow(f)
  BY DEF Previous
<1> HIDE DEF f
<1>4. CASE b \in DOMAIN table
  <2>1. b \in Int /\ b < from /\ b <= b
    BY <1>w
  <2>2. DOMAIN f = {b}
    BY <1>1, <1>2, <1>4, <2>1
  <2>3. Max(DOMAIN f) = b
    BY <2>1, <2>2, MaxIs
  <2>4. LastRow(f) = f[b] /\ f[b] = table[b]
    BY <2>2, <2>3, <1>1 DEF LastRow, Last
  <2> QED
    BY <2>4, <1>3, <1>4
<1>5. CASE b \notin DOMAIN table
  <2>1. DOMAIN f = {}
    BY <1>1, <1>2, <1>5
  <2> QED
    BY <2>1, <1>3, <1>5 DEF LastRow
<1> QED
  BY <1>4, <1>5

LEMMA LastRowType ==
  ASSUME NEW f, NEW N \in Nat, DOMAIN f \subseteq 0..N, \A s \in DOMAIN f : f[s] \in Row
  PROVE  LastRow(f).state \in Int \cup {Null} /\ LastRow(f).sum \in Int
<1>1. CASE DOMAIN f = {}
  BY <1>1 DEF LastRow, NoRow
<1>2. CASE DOMAIN f # {}
  <2>1. Max(DOMAIN f) \in DOMAIN f
    BY <1>2, LastInstant
  <2>2. LastRow(f) = f[Max(DOMAIN f)]
    BY <1>2 DEF LastRow, Last
  <2> QED
    BY <2>1, <2>2, RowFacts
<1> QED
  BY <1>1, <1>2

LEMMA WithinRows ==
  ASSUME NEW f, NEW from, NEW to
  PROVE  /\ DOMAIN Within(f, from, to) = {y \in DOMAIN f : from <= y /\ y < to}
         /\ \A y \in DOMAIN Within(f, from, to) : Within(f, from, to)[y] = f[y]
  BY Zenon DEF Within

\* The rows from the corrected bucket on become one chain.
LEMMA CascadeChain ==
  ASSUME NEW table, RowsOK(table), NEW rows, NEW N \in Nat, DOMAIN rows \subseteq 0..N,
         NEW from \in Nat, from % Width = 0
  PROVE  LET new == CascadeTable(rows, table, from)
             reading == LastReadingIn(rows, from, from + Width)
         IN  /\ \A s \in DOMAIN table : new[s] \in Row
             /\ \A s \in DOMAIN table :
                  from < s /\ s - Width \in DOMAIN table
                    => /\ new[s].state = table[s].state
                       /\ new[s].sum = new[s - Width].sum + Increase(new[s].state, new[s - Width].state)
             /\ from \in DOMAIN table =>
                  /\ new[from].state = IF reading # Null THEN reading ELSE table[from].state
                  /\ from - Width \in DOMAIN table =>
                       new[from].sum = table[from - Width].sum
                                         + Increase(new[from].state, table[from - Width].state)
                  /\ from - Width \notin DOMAIN table => new[from].sum = 0
<1> DEFINE new == CascadeTable(rows, table, from)
           reading == LastReadingIn(rows, from, from + Width)
           tail == Within(table, from, MaxTime)
           previous == Previous(table, from, Width)
           meter == CorrectedMeter(tail, reading)
           p == previous.state
           q == previous.sum
           chain == CascadeSums(meter, p, q)
<1>w. Width \in Nat \ {0} /\ MaxTime \in Nat
  BY WidthsAssumption, MaxTimeAssumption
<1>s. \A s \in DOMAIN table : /\ s \in Nat /\ s % Width = 0 /\ s < MaxTime /\ s \in 0..MaxTime
                              /\ table[s] \in Row
  BY StartFacts DEF RowsOK
<1>r. reading \in Readings \cup {Null}
  <2>1. from \in Int
    OBVIOUS
  <2> QED
    BY <2>1, LastReading
<1>1. DOMAIN tail = {y \in DOMAIN table : from <= y} /\ \A y \in DOMAIN tail : tail[y] = table[y]
  <2>1. /\ DOMAIN tail = {y \in DOMAIN table : from <= y /\ y < MaxTime}
        /\ \A y \in DOMAIN tail : tail[y] = table[y]
    BY WithinRows
  <2> HIDE DEF tail
  <2> QED
    BY <1>s, <2>1
<1>2. p \in Int \cup {Null} /\ q \in Int
  <2>1. previous = NoRow \/ previous \in Row
    BY <1>s, PreviousIs DEF RowsOK
  <2> QED
    BY <2>1, RowFacts DEF NoRow
<1>3. new = Updated(table, chain)
  BY Zenon DEF CascadeTable
<1>4. /\ DOMAIN meter = DOMAIN tail
      /\ \A s \in DOMAIN tail :
           meter[s] = IF s = Min(DOMAIN tail) /\ reading # Null THEN reading ELSE tail[s].state
  BY Zenon DEF CorrectedMeter
<1> HIDE DEF tail, meter, reading, previous, p, q, new
<1>5. \A s \in DOMAIN tail : meter[s] \in Readings /\ meter[s] \in Int /\ meter[s] # Null
  <2> TAKE s \in DOMAIN tail
  <2>1. tail[s].state \in Readings
    BY <1>1, <1>s, RowFacts
  <2>2. meter[s] \in Readings
    BY <2>1, <1>4, <1>r
  <2> QED
    BY <2>2, ReadingsAssumption, NullAssumption
<1>6. MeterOK(meter, MaxTime) /\ Known(meter) = DOMAIN tail
  BY <1>1, <1>4, <1>5, <1>s, <1>w DEF MeterOK, Known
<1>7. DOMAIN chain = DOMAIN tail
  BY <1>4, CascadeDomain
<1>8. \A s \in DOMAIN tail :
        /\ chain[s].sum \in Int /\ chain[s] = [state |-> meter[s], sum |-> chain[s].sum]
        /\ chain[s].state = meter[s]
  <2> TAKE s \in DOMAIN tail
  <2>1. chain[s].sum \in Int /\ chain[s] = [state |-> meter[s], sum |-> chain[s].sum]
    BY <1>2, <1>4, <1>6, ChainType DEF chain
  <2> HIDE DEF chain
  <2> QED
    BY <2>1
<1> HIDE DEF chain
<1>9. \A s \in DOMAIN table : new[s] = IF from <= s THEN chain[s] ELSE table[s]
  BY <1>1, <1>3, <1>7, UpdatedRows
<1>10. \A s \in DOMAIN table : new[s] \in Row
  <2> TAKE s \in DOMAIN table
  <2>1. CASE from <= s
    <3>1. s \in DOMAIN tail
      BY <2>1, <1>1
    <3>2. chain[s].sum \in Int /\ meter[s] \in Readings /\ chain[s] = [state |-> meter[s], sum |-> chain[s].sum]
      BY <3>1, <1>5, <1>8
    <3>3. chain[s] \in Row
      BY <3>2 DEF Row
    <3> QED
      BY <2>1, <3>3, <1>9
  <2>2. CASE ~(from <= s)
    BY <2>2, <1>9, <1>s
  <2> QED
    BY <2>1, <2>2
<1>11. ASSUME NEW s \in DOMAIN table, from < s, s - Width \in DOMAIN table
       PROVE  /\ new[s].state = table[s].state
              /\ new[s].sum = new[s - Width].sum + Increase(new[s].state, new[s - Width].state)
  <2> DEFINE a == s - Width
  <2>1. s \in Nat /\ s % Width = 0 /\ a \in Nat /\ a % Width = 0
    BY <1>11, <1>s
  <2>2. from <= a /\ a < s
    <3>1. from + Width <= s
      BY <1>11, <1>w, <2>1, GridGap
    <3> QED
      BY <3>1, <2>1, <1>w
  <2>3. s \in DOMAIN tail /\ a \in DOMAIN tail
    BY <1>1, <1>11, <2>1, <2>2
  <2>4. \A t \in DOMAIN tail : t < s => t <= a
    <3> TAKE t \in DOMAIN tail
    <3> HAVE t < s
    <3>1. t \in Nat /\ t % Width = 0
      BY <1>1, <1>s
    <3>2. t + Width <= s
      BY <3>1, <2>1, <1>w, GridGap
    <3> QED
      BY <3>1, <3>2, <2>1, <1>w
  <2>5. s # Min(DOMAIN tail)
    <3>1. \E m \in DOMAIN tail : \A y \in DOMAIN tail : m <= y
      <4>1. DOMAIN tail \in SUBSET Nat /\ DOMAIN tail # {}
        BY <1>1, <1>s, <2>3
      <4> QED
        BY <4>1, LeastExists
    <3>2. \A y \in DOMAIN tail : Min(DOMAIN tail) <= y
      BY <3>1, Zenon DEF Min
    <3> QED
      BY <3>2, <2>1, <2>2, <2>3
  <2> HIDE DEF a
  <2>6. chain[s].sum = chain[a].sum + Increase(meter[s], meter[a])
    BY <1>2, <1>6, <2>2, <2>3, <2>4, ChainStep DEF chain
  <2>7. new[s] = chain[s] /\ new[a] = chain[a]
    BY <1>1, <1>9, <2>3
  <2>8. chain[s].state = meter[s] /\ chain[a].state = meter[a]
    BY <1>8, <2>3
  <2>9. meter[s] = table[s].state
    BY <1>1, <1>4, <2>3, <2>5
  <2>10. new[s].sum = new[a].sum + Increase(new[s].state, new[a].state)
    BY <2>6, <2>7, <2>8, Zenon
  <2> QED
    BY <2>7, <2>8, <2>9, <2>10 DEF a
<1>12. ASSUME from \in DOMAIN table
       PROVE  /\ new[from].state = IF reading # Null THEN reading ELSE table[from].state
              /\ new[from].sum = q + Increase(new[from].state, p)
  <2>1. from \in DOMAIN tail
    BY <1>1, <1>12
  <2>2. Min(DOMAIN tail) = from
    <3>1. from \in Int /\ \A y \in DOMAIN tail : y \in Int /\ from <= y
      BY <1>1, <1>s
    <3>2. Min(DOMAIN tail) \in DOMAIN tail /\ \A y \in DOMAIN tail : Min(DOMAIN tail) <= y
      BY <2>1, <3>1, Zenon DEF Min
    <3>3. Min(DOMAIN tail) <= from /\ from <= Min(DOMAIN tail) /\ Min(DOMAIN tail) \in Int
      BY <2>1, <3>1, <3>2
    <3> QED
      BY <3>1, <3>3
  <2>3. \A t \in DOMAIN tail : ~(t < from)
    BY <1>1, <1>s
  <2>4. chain[from].sum = q + Increase(meter[from], p)
    BY <1>2, <1>6, <2>1, <2>3, ChainFirst DEF chain
  <2>5. new[from] = chain[from] /\ chain[from].state = meter[from]
    BY <1>1, <1>8, <1>9, <2>1
  <2>6. meter[from] = IF reading # Null THEN reading ELSE table[from].state
    BY <1>1, <1>4, <2>1, <2>2
  <2>7. new[from].sum = q + Increase(new[from].state, p)
    BY <2>4, <2>5, Zenon
  <2> QED
    BY <2>5, <2>6, <2>7
<1>13. /\ from - Width \in DOMAIN table => p = table[from - Width].state /\ q = table[from - Width].sum
       /\ from - Width \notin DOMAIN table => p = Null /\ q = 0
  BY PreviousIs DEF p, q, previous, NoRow, RowsOK
<1>14. ASSUME from \in DOMAIN table, from - Width \notin DOMAIN table PROVE new[from].sum = 0
  BY <1>12, <1>13, <1>14 DEF Increase
<1> QED
  BY <1>10, <1>11, <1>12, <1>13, <1>14 DEF new, reading

-----------------------------------------------------------------------------
(***************************************************************************)
(* Type correctness: the sums are numbers, whatever is cascaded.           *)
(***************************************************************************)
StatesOK ==
  /\ DOMAIN states \subseteq Times
  /\ \A t \in DOMAIN states : states[t] \in Readings \cup {Unavailable}

HoursOK(rows) == DOMAIN rows \subseteq Hours /\ \A h \in DOMAIN rows : rows[h] \in Row

AuditOK ==
  /\ \E n \in 0..MaxCorrections : DOMAIN audit = 1..n
  /\ \A i \in DOMAIN audit : audit[i] \in Correction

TypeInv == RowsInv /\ StatesOK /\ RowsOK(short) /\ HoursOK(hourly) /\ AuditOK

LEMMA TypeInvImplies == TypeInv => TypeOK
<1> SUFFICES ASSUME TypeInv PROVE TypeOK
  OBVIOUS
<1>w. Hour \in Nat \ {0}
  BY WidthsAssumption
<1>1. /\ now \in 0..MaxTime /\ compiled \in Nat /\ compiled % Width = 0 /\ compiled <= now
      /\ \A s \in DOMAIN short : s < compiled
      /\ \A h \in DOMAIN hourly : h \in Nat /\ h + Hour <= compiled
  BY DEF TypeInv, RowsInv, ClockOK, StartsOK
<1>2. compiled \in {s \in 0..MaxTime : s % Width = 0}
  BY <1>1, MaxTimeAssumption
<1>3. \A h \in DOMAIN hourly : h < compiled
  BY <1>1, <1>w
<1>4. /\ DOMAIN short \subseteq {s \in Starts : s < compiled} /\ \A s \in DOMAIN short : short[s] \in Row
      /\ DOMAIN hourly \subseteq {h \in Hours : h < compiled} /\ \A h \in DOMAIN hourly : hourly[h] \in Row
  BY <1>1, <1>3 DEF TypeInv, RowsOK, HoursOK
<1> QED
  BY <1>1, <1>2, <1>4 DEF TypeInv, StatesOK, AuditOK, TypeOK, TablesOK

LEMMA LastOfHourType ==
  ASSUME NEW table, RowsOK(table), NEW h, Covered(table, h)
  PROVE  LastOfHour(table, h) \in Row
<1> DEFINE f == Within(table, h, h + Hour)
<1>1. DOMAIN f \subseteq DOMAIN table /\ \A y \in DOMAIN f : f[y] = table[y]
  BY Zenon DEF Within
<1>2. DOMAIN f # {}
  BY DEF Covered
<1>3. DOMAIN f \subseteq 0..MaxTime /\ MaxTime \in Nat
  BY <1>1, StartFacts, MaxTimeAssumption DEF RowsOK
<1> HIDE DEF f
<1>4. Max(DOMAIN f) \in DOMAIN f
  BY <1>2, <1>3, LastInstant
<1>5. f[Max(DOMAIN f)] \in Row
  BY <1>1, <1>4 DEF RowsOK
<1> QED
  BY <1>5 DEF LastOfHour, Last, f

LEMMA HourlyType ==
  ASSUME NEW table, RowsOK(table), NEW rows, HoursOK(rows), NEW hour
  PROVE  HoursOK(RecomputeHourly(table, rows, hour))
<1> DEFINE tail == Within(rows, hour, MaxTime)
           covered == {h \in DOMAIN tail : Covered(table, h)}
           fallback == [h \in DOMAIN tail \ covered |-> tail[h].state]
           previous == Previous(rows, hour, Hour)
           chain == CascadeSums(fallback, previous.state, previous.sum)
           new == [h \in DOMAIN tail |-> IF h \in covered THEN LastOfHour(table, h) ELSE chain[h]]
<1>1. RecomputeHourly(table, rows, hour) = Updated(rows, new)
  BY Zenon DEF RecomputeHourly
<1>2. \A h \in DOMAIN rows : h \in 0..MaxTime /\ rows[h] \in Row
  BY MaxTimeAssumption DEF HoursOK, Hours, Times
<1>3. DOMAIN tail \subseteq DOMAIN rows /\ \A h \in DOMAIN tail : tail[h] = rows[h]
  BY Zenon DEF Within
<1>4. previous.state \in Int \cup {Null} /\ previous.sum \in Int
  <2> DEFINE g == Within(rows, hour - Hour, hour)
  <2>1. DOMAIN g \subseteq DOMAIN rows /\ \A h \in DOMAIN g : g[h] = rows[h]
    BY Zenon DEF Within
  <2>2. previous = LastRow(g)
    BY DEF Previous
  <2> HIDE DEF g
  <2> QED
    BY <1>2, <2>1, <2>2, MaxTimeAssumption, LastRowType
<1>5. \A h \in DOMAIN tail : tail[h].state \in Readings /\ tail[h].state \in Int
  BY <1>2, <1>3, RowFacts
<1> HIDE DEF tail, previous
<1>6. MeterOK(fallback, MaxTime) /\ \A h \in DOMAIN fallback : fallback[h] \in Readings
  BY <1>2, <1>3, <1>5, MaxTimeAssumption DEF MeterOK
<1>7. \A h \in DOMAIN fallback : chain[h] \in Row
  <2> TAKE h \in DOMAIN fallback
  <2>1. chain[h] = [state |-> fallback[h], sum |-> chain[h].sum] /\ chain[h].sum \in Int
    BY <1>4, <1>6, ChainType
  <2>2. fallback[h] \in Readings
    BY <1>6
  <2> HIDE DEF chain, fallback
  <2> QED
    BY <2>1, <2>2 DEF Row
<1>8. \A h \in DOMAIN tail \ covered : h \in DOMAIN fallback
  OBVIOUS
<1>9. \A h \in covered : LastOfHour(table, h) \in Row
  BY LastOfHourType
<1> HIDE DEF chain, fallback
<1>10. DOMAIN new = DOMAIN tail /\ \A h \in DOMAIN tail : new[h] \in Row
  BY <1>7, <1>8, <1>9
<1> HIDE DEF new
<1>11. DOMAIN Updated(rows, new) = DOMAIN rows /\ \A h \in DOMAIN rows : Updated(rows, new)[h] \in Row
  BY <1>2, <1>10, UpdatedRows
<1> QED
  BY <1>1, <1>11 DEF HoursOK

LEMMA HourCompiledType ==
  ASSUME NEW table, RowsOK(table), HoursOK(hourly), NEW start \in Starts
  PROVE  HoursOK(HourCompiled(table, start))
<1>1. CASE start + Width = HourOf(start) + Hour /\ Covered(table, HourOf(start))
  <2> DEFINE h == HourOf(start)
  <2>1. h \in Hours
    <3>1. start \in Nat /\ start < MaxTime
      BY StartFacts
    <3>2. h \in Nat /\ h % Hour = 0 /\ h <= start
      BY <3>1, GridStart, WidthsAssumption DEF HourOf, BucketStart
    <3> QED
      BY <3>1, <3>2, MaxTimeAssumption DEF Hours, Times
  <2>2. LastOfHour(table, h) \in Row
    BY <1>1, LastOfHourType
  <2>3. HourCompiled(table, start) = Put(hourly, h, LastOfHour(table, h))
    BY <1>1 DEF HourCompiled
  <2> HIDE DEF h
  <2> DEFINE new == Put(hourly, h, LastOfHour(table, h))
  <2>4. DOMAIN new = DOMAIN hourly \cup {h} /\ new[h] = LastOfHour(table, h)
        /\ \A y \in DOMAIN hourly \ {h} : new[y] = hourly[y]
    BY Zenon DEF Put
  <2> HIDE DEF new
  <2>6. DOMAIN new \subseteq Hours
    BY <2>1, <2>4 DEF HoursOK
  <2>7. \A y \in DOMAIN new : new[y] \in Row
    BY <2>2, <2>4 DEF HoursOK
  <2>5. HoursOK(new)
    BY <2>6, <2>7, Zenon DEF HoursOK
  <2> QED
    BY <2>3, <2>5 DEF new, h
<1>2. CASE ~(start + Width = HourOf(start) + Hour /\ Covered(table, HourOf(start)))
  BY <1>2 DEF HourCompiled
<1> QED
  BY <1>1, <1>2

LEMMA LastTotalType ==
  ASSUME RowsOK(short), HoursOK(hourly)
  PROVE  LastTotal.state \in Int \cup {Null} /\ LastTotal.sum \in Int
<1>1. DOMAIN short \subseteq 0..MaxTime /\ DOMAIN hourly \subseteq 0..MaxTime
  BY StartFacts, MaxTimeAssumption DEF RowsOK, HoursOK, Hours, Times
<1>2. LastRow(short).state \in Int \cup {Null} /\ LastRow(short).sum \in Int
  BY <1>1, LastRowType, MaxTimeAssumption DEF RowsOK
<1>3. LastRow(hourly).state \in Int \cup {Null} /\ LastRow(hourly).sum \in Int
  BY <1>1, LastRowType, MaxTimeAssumption DEF HoursOK
<1> QED
  BY <1>2, <1>3 DEF LastTotal, LastRow

LEMMA StatesBounded == ASSUME StatesOK PROVE DOMAIN states \subseteq 0..MaxTime /\ MaxTime \in Nat
  BY MaxTimeAssumption DEF StatesOK, Times

LEMMA InitType == Init => TypeInv
<1> SUFFICES ASSUME Init PROVE TypeInv
  OBVIOUS
<1>1. DOMAIN states = {} /\ DOMAIN short = {} /\ DOMAIN hourly = {} /\ DOMAIN audit = {}
  BY DEF Init
<1>2. 0 \in 0..MaxCorrections /\ 1..0 = {}
  BY MaxCorrectionsAssumption
<1>3. AuditOK
  BY <1>1, <1>2 DEF AuditOK
<1> QED
  BY <1>1, <1>3, InitRows DEF TypeInv, StatesOK, RowsOK, HoursOK

\* The readings after a reading is replaced by another.
LEMMA PutReading ==
  ASSUME StatesOK, NEW ts \in DOMAIN states, NEW v \in Readings \cup {Unavailable},
         states' = Put(states, ts, v)
  PROVE  StatesOK' /\ DOMAIN states' = DOMAIN states
<1> DEFINE new == Put(states, ts, v)
<1>0. /\ DOMAIN new = DOMAIN states \cup {ts} /\ new[ts] = v
      /\ \A t \in DOMAIN states \ {ts} : new[t] = states[t]
  BY Zenon DEF Put
<1>1. states' = new
  OBVIOUS
<1> HIDE DEF new
<1>2. DOMAIN states' = DOMAIN states \cup {ts} /\ states'[ts] = v
      /\ \A t \in DOMAIN states \ {ts} : states'[t] = states[t]
  BY <1>0, <1>1
<1>3. \A t \in DOMAIN states : states'[t] \in Readings \cup {Unavailable}
  BY <1>2 DEF StatesOK
<1>4. DOMAIN states' = DOMAIN states
  BY <1>2
<1> QED
  BY <1>3, <1>4, Zenon DEF StatesOK

LEMMA RecomputeType ==
  ASSUME RowsOK(short), HoursOK(hourly), NEW rows, DOMAIN rows \subseteq 0..MaxTime, NEW ts \in Nat,
         Recompute(rows, ts)
  PROVE  RowsOK(short)' /\ HoursOK(hourly)'
<1> DEFINE from == BucketStart(ts, Width)
           table == CascadeTable(rows, short, from)
<1>1. short' = table /\ hourly' = RecomputeHourly(table, hourly, HourOf(ts))
  BY Zenon DEF Recompute
<1>2. from \in Nat /\ from % Width = 0
  BY GridStart, WidthsAssumption DEF BucketStart
<1> HIDE DEF from
<1>3. DOMAIN table = DOMAIN short
  BY CascadeKeepsEarlier
<1>4. \A s \in DOMAIN short : table[s] \in Row
  BY <1>2, MaxTimeAssumption, CascadeChain
<1> HIDE DEF table
<1>5. RowsOK(table)
  BY <1>3, <1>4 DEF RowsOK
<1>6. HoursOK(RecomputeHourly(table, hourly, HourOf(ts)))
  BY <1>5, HourlyType
<1> QED
  BY <1>1, <1>5, <1>6

LEMMA ReportType == ASSUME TypeInv, NEW v, Report(v) PROVE StatesOK'
<1>1. now < MaxTime /\ v \in Reported[now] /\ states' = IF v = Nothing THEN states ELSE Put(states, now, v)
  BY DEF Report
<1>2. now \in Times /\ v \in Readings \cup {Unavailable, Nothing}
  BY <1>1, MaxTimeAssumption, ReportedAssumption DEF TypeInv, RowsInv, ClockOK, Times
<1>3. CASE v = Nothing
  BY <1>1, <1>3 DEF TypeInv, StatesOK
<1>4. CASE v # Nothing
  <2> DEFINE new == Put(states, now, v)
  <2>1. /\ DOMAIN new = DOMAIN states \cup {now} /\ new[now] = v
        /\ \A t \in DOMAIN states \ {now} : new[t] = states[t]
    BY Zenon DEF Put
  <2>2. states' = new
    BY <1>1, <1>4
  <2> HIDE DEF new
  <2>3. DOMAIN new \subseteq Times
    BY <1>2, <2>1 DEF TypeInv, StatesOK
  <2>4. \A t \in DOMAIN new : new[t] \in Readings \cup {Unavailable}
    BY <1>2, <1>4, <2>1 DEF TypeInv, StatesOK
  <2> QED
    BY <2>2, <2>3, <2>4 DEF StatesOK
<1> QED
  BY <1>3, <1>4

\* The bucket the recorder compiles is one of the run's.
LEMMA CompiledStart == ASSUME RowsInv, compiled + Width <= now PROVE compiled \in Starts
  BY WidthsAssumption, MaxTimeAssumption DEF RowsInv, ClockOK, Starts, Times

LEMMA CompileType == ASSUME TypeInv, Compile PROVE RowsOK(short)' /\ HoursOK(hourly)'
<1> DEFINE heard == DOMAIN ReadingsWith(states, compiled, compiled + Width) # {}
           row == CompiledRow(compiled)
           table == IF heard THEN Put(short, compiled, row) ELSE short
<1>1. compiled + Width <= now /\ short' = table /\ hourly' = HourCompiled(table, compiled)
  BY Zenon DEF Compile
<1>2. compiled \in Starts
  BY <1>1, CompiledStart DEF TypeInv
<1>3. ASSUME heard PROVE row \in Row
  <2>1. LastTotal.state \in Int \cup {Null} /\ LastTotal.sum \in Int
    BY LastTotalType DEF TypeInv
  <2>2. DOMAIN states \subseteq 0..MaxTime /\ MaxTime \in Nat
    BY StatesBounded DEF TypeInv
  <2>3. compiled \in Int
    BY <1>2, StartFacts
  <2>4. Last(CascadeSums(ReadingsWith(states, compiled, compiled + Width), LastTotal.state, LastTotal.sum)) \in Row
    BY <1>3, <2>1, <2>2, <2>3, BucketRowType
  <2> QED
    BY <2>4, Zenon DEF CompiledRow
<1> HIDE DEF row
<1>4. RowsOK(table)
  <2>1. CASE heard
    <3> DEFINE new == Put(short, compiled, row)
    <3>1. /\ DOMAIN new = DOMAIN short \cup {compiled} /\ new[compiled] = row
          /\ \A t \in DOMAIN short \ {compiled} : new[t] = short[t]
      BY Zenon DEF Put
    <3>2. table = new
      BY <2>1
    <3> HIDE DEF new, table
    <3>3. DOMAIN new \subseteq Starts
      BY <1>2, <3>1 DEF TypeInv, RowsOK
    <3>4. \A t \in DOMAIN new : new[t] \in Row
      BY <1>3, <2>1, <3>1 DEF TypeInv, RowsOK
    <3> QED
      BY <3>2, <3>3, <3>4, Zenon DEF RowsOK
  <2>2. CASE ~heard
    <3>1. table = short
      BY <2>2
    <3> HIDE DEF table
    <3> QED
      BY <3>1 DEF TypeInv
  <2> QED
    BY <2>1, <2>2
<1> HIDE DEF table
<1>5. HoursOK(HourCompiled(table, compiled))
  BY <1>2, <1>4, HourCompiledType DEF TypeInv
<1> QED
  BY <1>1, <1>4, <1>5

LEMMA MissType == ASSUME TypeInv, Miss PROVE HoursOK(hourly)'
<1>1. compiled + Width <= now /\ hourly' = HourCompiled(short, compiled)
  BY Zenon DEF Miss
<1>2. compiled \in Starts
  BY <1>1, CompiledStart DEF TypeInv
<1>3. HoursOK(HourCompiled(short, compiled))
  BY <1>2, HourCompiledType DEF TypeInv
<1> QED
  BY <1>1, <1>3

LEMMA PurgeType == ASSUME TypeInv, NEW cut, Purge(cut) PROVE StatesOK' /\ RowsOK(short)'
<1>1. states' = Within(states, cut, MaxTime) /\ short' = Within(short, cut, MaxTime)
  BY DEF Purge
<1>2. \A f : /\ DOMAIN Within(f, cut, MaxTime) \subseteq DOMAIN f
             /\ \A t \in DOMAIN Within(f, cut, MaxTime) : Within(f, cut, MaxTime)[t] = f[t]
  BY Zenon DEF Within
<1>3. /\ DOMAIN states' \subseteq DOMAIN states /\ \A t \in DOMAIN states' : states'[t] = states[t]
      /\ DOMAIN short' \subseteq DOMAIN short /\ \A t \in DOMAIN short' : short'[t] = short[t]
  BY <1>1, <1>2
<1> QED
  BY <1>3 DEF TypeInv, StatesOK, RowsOK

LEMMA CorrectType ==
  ASSUME TypeInv, NEW ts \in Times, NEW new \in Readings, Correct(ts, new)
  PROVE  StatesOK' /\ RowsOK(short)' /\ HoursOK(hourly)' /\ AuditOK'
<1> DEFINE n == Cardinality(DOMAIN audit)
           entry == [ts |-> ts, orig |-> states[ts], corrected |-> new, restored |-> FALSE]
<1>1. /\ n < MaxCorrections /\ ts \in DOMAIN states
      /\ states' = Put(states, ts, new) /\ Recompute(states', ts)
      /\ audit' = Put(audit, n + 1, entry)
  BY Zenon DEF Correct
<1>2. StatesOK' /\ DOMAIN states' = DOMAIN states
  BY <1>1, PutReading DEF TypeInv
<1>3. RowsOK(short)' /\ HoursOK(hourly)'
  <2>1. DOMAIN states' \subseteq 0..MaxTime /\ ts \in Nat
    BY <1>2, StatesBounded, MaxTimeAssumption DEF TypeInv, Times
  <2> QED
    BY <1>1, <2>1, RecomputeType DEF TypeInv
<1>4. n \in Nat /\ DOMAIN audit = 1..n
  <2>1. PICK k \in 0..MaxCorrections : DOMAIN audit = 1..k
    BY DEF TypeInv, AuditOK
  <2>2. k \in Nat /\ 1 \in Int
    BY <2>1, MaxCorrectionsAssumption
  <2>3. Cardinality(1..k) = k
    BY <2>2, FS_Interval
  <2> QED
    BY <2>1, <2>2, <2>3
<1>5. entry \in Correction
  <2>1. states[ts] \in Readings \cup {Unavailable}
    BY <1>1 DEF TypeInv, StatesOK
  <2> QED
    BY <2>1 DEF Correction
<1> HIDE DEF n, entry
<1> DEFINE log == Put(audit, n + 1, entry)
<1>a. /\ DOMAIN log = DOMAIN audit \cup {n + 1} /\ log[n + 1] = entry
      /\ \A i \in DOMAIN audit \ {n + 1} : log[i] = audit[i]
  BY Zenon DEF Put
<1>b. audit' = log
  BY <1>1
<1> HIDE DEF log
<1>6. /\ DOMAIN audit' = DOMAIN audit \cup {n + 1} /\ audit'[n + 1] = entry
      /\ \A i \in DOMAIN audit \ {n + 1} : audit'[i] = audit[i]
  BY <1>a, <1>b
<1>7. n + 1 \in 0..MaxCorrections /\ DOMAIN audit' = 1..(n + 1)
  <2>1. n < MaxCorrections /\ n \in Nat
    BY <1>1, <1>4
  <2>2. n + 1 \in 0..MaxCorrections /\ 1..(n + 1) = (1..n) \cup {n + 1}
    BY <2>1, MaxCorrectionsAssumption
  <2>3. DOMAIN audit' = (1..n) \cup {n + 1}
    BY <1>4, <1>6
  <2> QED
    BY <2>2, <2>3
<1>8. \A i \in DOMAIN audit' : audit'[i] \in Correction
  BY <1>5, <1>6 DEF TypeInv, AuditOK
<1>9. AuditOK'
  BY <1>7, <1>8 DEF AuditOK
<1> QED
  BY <1>2, <1>3, <1>9

LEMMA RestoreType ==
  ASSUME TypeInv, NEW i \in DOMAIN audit, Restore(i)
  PROVE  StatesOK' /\ RowsOK(short)' /\ HoursOK(hourly)' /\ AuditOK'
<1> DEFINE ts == audit[i].ts
           v == audit[i].orig
<1>1. /\ ts \in DOMAIN states /\ states' = Put(states, ts, v) /\ Recompute(states', ts)
      /\ audit' = [audit EXCEPT ![i].restored = TRUE]
  BY Zenon DEF Restore
<1>2. audit[i] \in Correction
  BY DEF TypeInv, AuditOK
<1>3. ts \in Times /\ v \in Readings \cup {Unavailable}
  BY <1>2 DEF Correction
<1> HIDE DEF ts, v
<1>4. StatesOK' /\ DOMAIN states' = DOMAIN states
  BY <1>1, <1>3, PutReading DEF TypeInv
<1>5. RowsOK(short)' /\ HoursOK(hourly)'
  <2>1. DOMAIN states' \subseteq 0..MaxTime /\ ts \in Nat
    BY <1>3, <1>4, StatesBounded, MaxTimeAssumption DEF TypeInv, Times
  <2> QED
    BY <1>1, <2>1, RecomputeType DEF TypeInv
<1>6. DOMAIN audit' = DOMAIN audit /\ \A j \in DOMAIN audit : audit'[j] \in Correction
  <2>1. \A j \in DOMAIN audit : audit[j] \in Correction
    BY DEF TypeInv, AuditOK
  <2> QED
    BY <1>1, <2>1 DEF Correction
<1>7. AuditOK'
  BY <1>6 DEF TypeInv, AuditOK
<1> QED
  BY <1>4, <1>5, <1>7

LEMMA NextType == TypeInv /\ [Next]_vars => TypeInv'
<1> SUFFICES ASSUME TypeInv, [Next]_vars PROVE TypeInv'
  OBVIOUS
<1>0. RowsInv'
  BY NextRows DEF TypeInv
<1>1. CASE \E v \in Readings \cup {Unavailable, Nothing} : Report(v)
  <2>1. PICK v : Report(v)
    BY <1>1
  <2>2. UNCHANGED <<short, hourly, audit>>
    BY <2>1 DEF Report
  <2> QED
    BY <1>0, <2>1, <2>2, ReportType DEF TypeInv, RowsOK, HoursOK, AuditOK
<1>2. CASE Compile
  <2>1. UNCHANGED <<states, audit>>
    BY <1>2 DEF Compile
  <2> QED
    BY <1>0, <1>2, <2>1, CompileType DEF TypeInv, StatesOK, AuditOK
<1>3. CASE Miss
  <2>1. UNCHANGED <<states, short, audit>>
    BY <1>3 DEF Miss
  <2> QED
    BY <1>0, <1>3, <2>1, MissType DEF TypeInv, StatesOK, RowsOK, AuditOK
<1>4. CASE \E cut \in PurgeCuts : Purge(cut)
  <2>1. PICK cut \in PurgeCuts : Purge(cut)
    BY <1>4
  <2>2. UNCHANGED <<hourly, audit>>
    BY <2>1 DEF Purge
  <2> QED
    BY <1>0, <2>1, <2>2, PurgeType DEF TypeInv, HoursOK, AuditOK
<1>5. CASE \E ts \in Times, new \in Readings : Correct(ts, new)
  BY <1>0, <1>5, CorrectType DEF TypeInv
<1>6. CASE \E i \in DOMAIN audit : Restore(i)
  BY <1>0, <1>6, RestoreType DEF TypeInv
<1>7. CASE UNCHANGED vars
  BY <1>0, <1>7 DEF vars, TypeInv, StatesOK, RowsOK, HoursOK, AuditOK
<1> QED
  BY <1>1, <1>2, <1>3, <1>4, <1>5, <1>6, <1>7 DEF Next

LEMMA TypeInvariant == Spec => []TypeInv
  BY InitType, NextType, PTL DEF Spec

\* Whatever is purged, missing or NULL where a chain is picked up, every
\* total is a number and every meter reading one the sensor gave; and no
\* cascade adds a row.
THEOREM CounterTypes == Spec => []TypeOK
  BY TypeInvariant, TypeInvImplies, PTL

-----------------------------------------------------------------------------
(***************************************************************************)
(* The invariant behind the totals, row by row.  Where a bucket heard its  *)
(* sensor, a row that follows another ends on the bucket's last reading,   *)
(* and its total is the one before plus what the two meter readings say,   *)
(* when the earlier of them is the reading carried in.  A row without one  *)
(* before it promises neither: the reading of a corrected bucket that has  *)
(* no row was written to it.                                               *)
(***************************************************************************)
RowInv(s) ==
  Inside(states, s) # {} =>
    /\ s = 0 \/ s - Width \in DOMAIN short => short[s].state = LastReadingIn(states, s, s + Width)
    /\ Steady(s) =>
         /\ s = 0 => short[s].sum = 0
         /\ s - Width \in DOMAIN short /\ (\E c \in CarriedIn(states, s) : states[c] = short[s - Width].state)
              => short[s].sum = short[s - Width].sum + Increase(short[s].state, short[s - Width].state)

ChainInv == \A s \in DOMAIN short : RowInv(s)

\* Inside is what ReadingsWith holds from the start of the bucket on.
LEMMA InsideIs ==
  ASSUME NEW rows, NEW N \in Nat, DOMAIN rows \subseteq 0..N, NEW start \in Int
  PROVE  {t \in DOMAIN ReadingsWith(rows, start, start + Width) : start <= t} = Inside(rows, start)
<1>1. \A c \in CarriedIn(rows, start) : c < start /\ c \in Int
  BY CarriedFacts
<1>2. \A t \in Inside(rows, start) : start <= t
  BY DEF Inside
<1>3. DOMAIN ReadingsWith(rows, start, start + Width) = CarriedIn(rows, start) \cup Inside(rows, start)
  BY BucketReadings
<1> QED
  BY <1>1, <1>2, <1>3

\* A bucket whose readings stay, and whose carried reading stays or goes.
LEMMA KeptBucket ==
  ASSUME NEW s \in Int, NEW N \in Nat, DOMAIN states \subseteq 0..N, DOMAIN states' \subseteq 0..N,
         Inside(states', s) = Inside(states, s),
         \A t \in Inside(states, s) : states'[t] = states[t],
         \/ CarriedIn(states', s) = {}
         \/ /\ CarriedIn(states', s) = CarriedIn(states, s)
            /\ \A c \in CarriedIn(states, s) : states'[c] = states[c]
  PROVE  /\ Inside(states, s) # {} => LastReadingIn(states', s, s + Width) = LastReadingIn(states, s, s + Width)
         /\ Steady(s)' => Steady(s)
<1>1. ASSUME Inside(states, s) # {}
      PROVE  LastReadingIn(states', s, s + Width) = LastReadingIn(states, s, s + Width)
  <2> DEFINE m == Max(Inside(states, s))
  <2>1. LastReadingIn(states, s, s + Width) = states[m] /\ m \in Inside(states, s)
    BY <1>1, LastReading
  <2>2. LastReadingIn(states', s, s + Width) = states'[m]
    BY <1>1, LastReading
  <2> QED
    BY <2>1, <2>2
<1>2. ASSUME Steady(s)' PROVE Steady(s)
  <2> DEFINE f == ReadingsWith(states, s, s + Width)
             g == ReadingsWith(states', s, s + Width)
  <2>1. \/ Cardinality({t \in DOMAIN g : s <= t}) = 1
        \/ /\ \E c \in CarriedIn(states', s) : ~IsReset(Last(g), states'[c])
           /\ \A t \in DOMAIN g : s <= t => ~IsReset(g[t], g[Max({u \in DOMAIN g : u < t})])
    BY <1>2, Zenon DEF Steady
  <2>2. CASE Cardinality({t \in DOMAIN g : s <= t}) = 1
    <3>1. {t \in DOMAIN f : s <= t} = Inside(states, s) /\ {t \in DOMAIN g : s <= t} = Inside(states', s)
      BY InsideIs
    <3>2. Cardinality({t \in DOMAIN f : s <= t}) = 1
      BY <2>2, <3>1
    <3> QED
      BY <3>2, Zenon DEF Steady
  <2>3. CASE /\ \E c \in CarriedIn(states', s) : ~IsReset(Last(g), states'[c])
             /\ \A t \in DOMAIN g : s <= t => ~IsReset(g[t], g[Max({u \in DOMAIN g : u < t})])
    <3>1. CarriedIn(states', s) = CarriedIn(states, s) /\ \A c \in CarriedIn(states, s) : states'[c] = states[c]
      BY <2>3
    <3>2. g = f
      <4> DEFINE D == CarriedIn(states, s) \cup Inside(states, s)
      <4>1. f = [t \in D |-> states[t]]
        BY Zenon DEF ReadingsWith, Inside
      <4>2. g = [t \in CarriedIn(states', s) \cup Inside(states', s) |-> states'[t]]
        BY Zenon DEF ReadingsWith, Inside
      <4>3. CarriedIn(states', s) \cup Inside(states', s) = D /\ \A t \in D : states'[t] = states[t]
        BY <3>1
      <4> HIDE DEF f, g, D
      <4> QED
        BY <4>1, <4>2, <4>3
    <3> HIDE DEF f, g
    <3>3. \E c \in CarriedIn(states, s) : ~IsReset(Last(f), states[c])
      BY <2>3, <3>1, <3>2
    <3>4. \A t \in DOMAIN f : s <= t => ~IsReset(f[t], f[Max({u \in DOMAIN f : u < t})])
      BY <2>3, <3>2
    <3> QED
      BY <3>3, <3>4, Zenon DEF Steady, f
  <2> QED
    BY <2>1, <2>2, <2>3
<1> QED
  BY <1>1, <1>2

LEMMA KeptRow ==
  ASSUME NEW s \in Int, NEW N \in Nat, DOMAIN states \subseteq 0..N, DOMAIN states' \subseteq 0..N,
         Inside(states', s) = Inside(states, s),
         \A t \in Inside(states, s) : states'[t] = states[t],
         \/ CarriedIn(states', s) = {}
         \/ /\ CarriedIn(states', s) = CarriedIn(states, s)
            /\ \A c \in CarriedIn(states, s) : states'[c] = states[c],
         RowInv(s), short'[s] = short[s],
         s - Width \in DOMAIN short' => s - Width \in DOMAIN short /\ short'[s - Width] = short[s - Width]
  PROVE  RowInv(s)'
<1> SUFFICES ASSUME Inside(states, s) # {}
             PROVE  /\ s = 0 \/ s - Width \in DOMAIN short' => short'[s].state = LastReadingIn(states', s, s + Width)
                    /\ Steady(s)' =>
                         /\ s = 0 => short'[s].sum = 0
                         /\ s - Width \in DOMAIN short'
                            /\ (\E c \in CarriedIn(states', s) : states'[c] = short'[s - Width].state)
                              => short'[s].sum = short'[s - Width].sum
                                                   + Increase(short'[s].state, short'[s - Width].state)
  BY DEF RowInv
<1>1. LastReadingIn(states', s, s + Width) = LastReadingIn(states, s, s + Width) /\ (Steady(s)' => Steady(s))
  BY KeptBucket
<1>2. s = 0 \/ s - Width \in DOMAIN short' => short'[s].state = LastReadingIn(states', s, s + Width)
  BY <1>1 DEF RowInv
<1>3. ASSUME Steady(s)', s = 0 PROVE short'[s].sum = 0
  BY <1>1, <1>3 DEF RowInv
<1>4. ASSUME Steady(s)', s - Width \in DOMAIN short',
             \E c \in CarriedIn(states', s) : states'[c] = short'[s - Width].state
      PROVE  short'[s].sum = short'[s - Width].sum + Increase(short'[s].state, short'[s - Width].state)
  <2>1. Steady(s) /\ s - Width \in DOMAIN short /\ short'[s - Width] = short[s - Width]
    BY <1>1, <1>4
  <2>2. \E c \in CarriedIn(states, s) : states[c] = short[s - Width].state
    BY <1>4, <2>1
  <2>3. short[s].sum = short[s - Width].sum + Increase(short[s].state, short[s - Width].state)
    BY <2>1, <2>2 DEF RowInv
  <2> QED
    BY <2>1, <2>3
<1> QED
  BY <1>2, <1>3, <1>4

\* What a bucket is made of is decided by the readings before its end.
LEMMA ReadingsBefore ==
  ASSUME NEW rows, NEW new, NEW N \in Nat, DOMAIN rows \subseteq 0..N, DOMAIN new \subseteq 0..N,
         NEW start \in Int,
         \A t \in 0..N : t < start + Width => (t \in DOMAIN new <=> t \in DOMAIN rows),
         \A t \in DOMAIN rows : t < start + Width => new[t] = rows[t]
  PROVE  /\ Inside(new, start) = Inside(rows, start)
         /\ CarriedIn(new, start) = CarriedIn(rows, start)
         /\ \A t \in CarriedIn(rows, start) \cup Inside(rows, start) : new[t] = rows[t]
<1>w. Width \in Nat
  BY WidthsAssumption
<1>0. \A t \in DOMAIN rows \cup DOMAIN new : t \in 0..N /\ (t < start => t < start + Width)
  BY <1>w
<1>1. {t \in DOMAIN new : t < start /\ new[t] \in Readings} = {t \in DOMAIN rows : t < start /\ rows[t] \in Readings}
  BY <1>0
<1>2. CarriedIn(new, start) = CarriedIn(rows, start)
  BY <1>1, Zenon DEF CarriedIn
<1>3. Inside(new, start) = Inside(rows, start)
  BY <1>0 DEF Inside
<1>4. \A t \in CarriedIn(rows, start) : t \in DOMAIN rows /\ t < start
  BY CarriedFacts
<1>5. \A t \in Inside(rows, start) : t \in DOMAIN rows /\ t < start + Width
  BY DEF Inside
<1> QED
  BY <1>0, <1>2, <1>3, <1>4, <1>5

LEMMA ReportChain == ASSUME TypeInv, TypeInv', ChainInv, NEW v, Report(v) PROVE ChainInv'
<1>1. /\ short' = short /\ (states' = states \/ states' = Put(states, now, v))
  BY DEF Report
<1>2. DOMAIN states \subseteq 0..MaxTime /\ DOMAIN states' \subseteq 0..MaxTime /\ MaxTime \in Nat
  BY StatesBounded, MaxTimeAssumption DEF TypeInv, StatesOK, Times
<1>3. /\ \A t : t # now => (t \in DOMAIN states' <=> t \in DOMAIN states)
      /\ \A t \in DOMAIN states : t # now => states'[t] = states[t]
  BY <1>1, Zenon DEF Put
<1> SUFFICES ASSUME NEW s \in DOMAIN short PROVE RowInv(s)'
  BY <1>1 DEF ChainInv
<1>4. s \in Nat /\ s + Width <= now
  <2>1. s \in Nat /\ s % Width = 0
    BY StartFacts DEF TypeInv, RowsOK
  <2>2. s < compiled /\ compiled \in Nat /\ compiled % Width = 0 /\ compiled <= now /\ now \in Int
    BY DEF TypeInv, RowsInv, StartsOK, ClockOK
  <2>3. s + Width <= compiled
    BY <2>1, <2>2, WidthsAssumption, GridGap
  <2> QED
    BY <2>1, <2>2, <2>3, WidthsAssumption
<1>5. \A t \in 0..MaxTime : t < s + Width => t # now
  BY <1>4, WidthsAssumption DEF TypeInv, RowsInv, ClockOK
<1>6. /\ Inside(states', s) = Inside(states, s) /\ CarriedIn(states', s) = CarriedIn(states, s)
      /\ \A t \in CarriedIn(states, s) \cup Inside(states, s) : states'[t] = states[t]
  <2>1. \A t \in 0..MaxTime : t < s + Width => (t \in DOMAIN states' <=> t \in DOMAIN states)
    BY <1>3, <1>5
  <2>2. \A t \in DOMAIN states : t < s + Width => states'[t] = states[t]
    BY <1>2, <1>3, <1>5
  <2>3. s \in Int
    BY <1>4
  <2> QED
    BY <1>2, <2>1, <2>2, <2>3, ReadingsBefore
<1>7. RowInv(s) /\ s \in Int
  BY <1>4 DEF ChainInv
<1> QED
  BY <1>1, <1>2, <1>6, <1>7, KeptRow

LEMMA PurgeChain == ASSUME TypeInv, TypeInv', ChainInv, NEW cut \in PurgeCuts, Purge(cut) PROVE ChainInv'
<1>1. /\ states' = Within(states, cut, MaxTime) /\ short' = Within(short, cut, MaxTime)
      /\ \E t \in DOMAIN states : t < cut
  BY DEF Purge
<1>2. DOMAIN states \subseteq 0..MaxTime /\ DOMAIN states' \subseteq 0..MaxTime /\ MaxTime \in Nat
  BY StatesBounded, MaxTimeAssumption DEF TypeInv, StatesOK, Times
<1>3. /\ \A f : /\ DOMAIN Within(f, cut, MaxTime) = {y \in DOMAIN f : cut <= y /\ y < MaxTime}
                /\ \A t \in DOMAIN Within(f, cut, MaxTime) : Within(f, cut, MaxTime)[t] = f[t]
  BY Zenon DEF Within
<1>4. /\ DOMAIN states' = {t \in DOMAIN states : cut <= t /\ t < MaxTime}
      /\ \A t \in DOMAIN states' : states'[t] = states[t]
      /\ DOMAIN short' = {s \in DOMAIN short : cut <= s /\ s < MaxTime}
      /\ \A s \in DOMAIN short' : short'[s] = short[s]
  BY <1>1, <1>3
<1>5. cut \in Nat /\ cut # 0
  BY <1>1, <1>2, PurgeCutsAssumption
<1>6. \A t \in DOMAIN states : t \in Nat /\ t < MaxTime
  BY MaxTimeAssumption DEF TypeInv, StatesOK, Times
<1> SUFFICES ASSUME NEW s \in DOMAIN short' PROVE RowInv(s)'
  BY DEF ChainInv
<1>7. s \in DOMAIN short /\ s \in Int /\ cut <= s /\ RowInv(s) /\ short'[s] = short[s]
  BY <1>4, StartFacts DEF TypeInv, RowsOK, ChainInv
<1>8. Inside(states', s) = Inside(states, s) /\ \A t \in Inside(states, s) : states'[t] = states[t]
  <2>1. \A t \in DOMAIN states : s <= t => t \in DOMAIN states'
    BY <1>4, <1>5, <1>6, <1>7
  <2> QED
    BY <1>4, <2>1 DEF Inside
<1>9. \/ CarriedIn(states', s) = {}
      \/ /\ CarriedIn(states', s) = CarriedIn(states, s)
         /\ \A c \in CarriedIn(states, s) : states'[c] = states[c]
  <2> SUFFICES ASSUME NEW c \in CarriedIn(states', s)
               PROVE  /\ CarriedIn(states', s) = CarriedIn(states, s)
                      /\ \A d \in CarriedIn(states, s) : states'[d] = states[d]
    OBVIOUS
  <2>1. /\ c \in DOMAIN states' /\ c < s /\ states'[c] \in Readings /\ CarriedIn(states', s) = {c}
        /\ \A t \in DOMAIN states' : t < s /\ states'[t] \in Readings => t <= c
    BY <1>2, CarriedFacts
  <2>2. c \in DOMAIN states /\ states'[c] = states[c] /\ cut <= c
    BY <1>4, <2>1
  <2>3. \A t \in DOMAIN states : t < s /\ states[t] \in Readings => t <= c
    <3> TAKE t \in DOMAIN states
    <3> HAVE t < s /\ states[t] \in Readings
    <3>1. CASE cut <= t
      <4>1. t \in DOMAIN states' /\ states'[t] = states[t]
        BY <1>4, <1>6, <3>1
      <4> QED
        BY <4>1, <2>1
    <3>2. CASE ~(cut <= t)
      BY <1>5, <1>6, <2>2, <3>2
    <3> QED
      BY <3>1, <3>2
  <2>4. CarriedIn(states, s) = {c}
    BY <1>2, <2>1, <2>2, <2>3, CarriedIs
  <2> QED
    BY <2>1, <2>2, <2>4
<1>10. s - Width \in DOMAIN short' => s - Width \in DOMAIN short /\ short'[s - Width] = short[s - Width]
  BY <1>4
<1> QED
  BY <1>2, <1>7, <1>8, <1>9, <1>10, KeptRow

LEMMA MissChain == ASSUME TypeInv, ChainInv, Miss PROVE ChainInv'
<1>1. states' = states /\ short' = short
  BY DEF Miss
<1> QED
  BY <1>1 DEF ChainInv, RowInv, Steady

\* The recorder picks a bucket up from the row before it, when there is one.
LEMMA LastTotalIs ==
  ASSUME TypeInv
  PROVE  /\ compiled - Width \in DOMAIN short => LastTotal = short[compiled - Width]
         /\ compiled = 0 => LastTotal = NoRow
<1>w. Width \in Nat \ {0} /\ Hour \in Nat \ {0}
  BY WidthsAssumption
<1>1. compiled \in Nat /\ compiled % Width = 0
  BY DEF TypeInv, RowsInv, ClockOK
<1>2. ASSUME compiled - Width \in DOMAIN short PROVE LastTotal = short[compiled - Width]
  <2> DEFINE b == compiled - Width
  <2>1. \A s \in DOMAIN short : s \in Int /\ s <= b
    <3> TAKE s \in DOMAIN short
    <3>1. s \in Nat /\ s % Width = 0 /\ s < compiled
      BY StartFacts DEF TypeInv, RowsOK, RowsInv, StartsOK
    <3>2. s + Width <= compiled
      BY <1>1, <1>w, <3>1, GridGap
    <3> QED
      BY <3>1, <3>2, <1>1, <1>w
  <2>2. b \in DOMAIN short /\ b \in Int
    BY <1>1, <1>2, <1>w
  <2> HIDE DEF b
  <2>3. DOMAIN short \in SUBSET Int /\ \A y \in DOMAIN short : b >= y
    BY <2>1, <2>2
  <2>4. Max(DOMAIN short) = b
    BY <2>2, <2>3, MaxIs
  <2> QED
    BY <2>2, <2>4 DEF LastTotal, Last, b
<1>3. ASSUME compiled = 0 PROVE LastTotal = NoRow
  <2>1. DOMAIN short = {}
    BY <1>3 DEF TypeInv, RowsInv, StartsOK
  <2>2. DOMAIN hourly = {}
    <3> SUFFICES ASSUME NEW h \in DOMAIN hourly PROVE FALSE
      OBVIOUS
    <3>1. h \in Nat /\ h + Hour <= compiled
      BY DEF TypeInv, RowsInv, StartsOK
    <3> QED
      BY <3>1, <1>3, <1>w
  <2> QED
    BY <2>1, <2>2 DEF LastTotal, LastRow
<1> QED
  BY <1>2, <1>3

\* The row compiled of a bucket that heard its sensor ends on its last reading.
LEMMA CompiledState ==
  ASSUME NEW N \in Nat, DOMAIN states \subseteq 0..N, NEW start \in Int,
         NEW p \in Int \cup {Null}, NEW q \in Int, Inside(states, start) # {}
  PROVE  Last(CascadeSums(ReadingsWith(states, start, start + Width), p, q)).state
           = LastReadingIn(states, start, start + Width)
<1> DEFINE f == ReadingsWith(states, start, start + Width)
           m == Max(Inside(states, start))
<1>1. /\ LastReadingIn(states, start, start + Width) = states[m] /\ m \in Inside(states, start)
      /\ Max(DOMAIN f) = m
  BY LastReading
<1>2. DOMAIN f = CarriedIn(states, start) \cup Inside(states, start)
      /\ \A t \in CarriedIn(states, start) \cup Inside(states, start) : f[t] = states[t]
  BY BucketReadings
<1>3. MeterOK(f, N)
  BY BucketMeter
<1> HIDE DEF f, m
<1>4. m \in DOMAIN f /\ f[m] = states[m]
  BY <1>1, <1>2
<1>5. CascadeSums(f, p, q)[m] = [state |-> f[m], sum |-> CascadeSums(f, p, q)[m].sum]
  BY <1>3, <1>4, ChainType
<1>6. Last(CascadeSums(f, p, q)) = CascadeSums(f, p, q)[m]
  BY <1>1, CascadeDomain DEF Last
<1>7. CascadeSums(f, p, q)[m].state = f[m]
  BY <1>5
<1> QED
  BY <1>1, <1>4, <1>6, <1>7 DEF f

\* The first bucket of all has nothing carried in; steady, it holds one
\* reading, and nothing is consumed by it.
LEMMA FirstRow ==
  ASSUME NEW N \in Nat, DOMAIN states \subseteq 0..N, Inside(states, 0) # {}, Steady(0)
  PROVE  /\ CarriedIn(states, 0) = {} /\ \E m : Inside(states, 0) = {m}
         /\ Last(CascadeSums(ReadingsWith(states, 0, 0 + Width), Null, 0)).sum = 0
<1> DEFINE f == ReadingsWith(states, 0, 0 + Width)
           I == Inside(states, 0)
<1>1. CarriedIn(states, 0) = {}
  <2> SUFFICES ASSUME NEW c \in CarriedIn(states, 0) PROVE FALSE
    OBVIOUS
  <2>1. c \in DOMAIN states /\ c < 0
    BY CarriedFacts
  <2> QED
    BY <2>1
<1>2. {t \in DOMAIN f : 0 <= t} = I
  BY InsideIs
<1>3. Cardinality(I) = 1
  BY <1>1, <1>2, Zenon DEF Steady
<1>4. I \in SUBSET (0..N)
  BY DEF Inside
<1>5. PICK m : I = {m}
  <2>1. IsFiniteSet(0..N)
    BY FS_Interval
  <2>2. IsFiniteSet(I)
    BY <1>4, <2>1, FS_Subset
  <2> QED
    BY <1>3, <2>2, FS_Singleton
<1>6. MeterOK(f, N) /\ Known(f) = I /\ DOMAIN f = I /\ f[m] = states[m] /\ states[m] \in Readings
  <2>1. MeterOK(f, N) /\ Known(f) = CarriedIn(states, 0) \cup I
    BY BucketMeter
  <2>2. DOMAIN f = CarriedIn(states, 0) \cup I /\ f[m] = states[m]
    BY <1>5, BucketReadings
  <2>3. states[m] \in Readings
    BY <1>5 DEF Inside
  <2> HIDE DEF f, I
  <2> QED
    BY <1>1, <2>1, <2>2, <2>3
<1> HIDE DEF f, I
<1>7. m \in Int /\ \A t \in Known(f) : ~(t < m)
  <2>1. m \in 0..N
    BY <1>4, <1>5
  <2>2. m \in Int /\ ~(m < m)
    BY <2>1
  <2>3. Known(f) = {m}
    BY <1>5, <1>6
  <2> QED
    BY <2>2, <2>3
<1>8. CascadeSums(f, Null, 0)[m].sum = 0 + Increase(f[m], Null)
  <2>1. m \in Known(f) /\ MeterOK(f, N)
    BY <1>5, <1>6
  <2>2. Null \in Int \cup {Null} /\ 0 \in Int
    OBVIOUS
  <2>3. \A t \in Known(f) : ~(t < m)
    BY <1>7
  <2> QED
    BY <2>1, <2>2, <2>3, ChainFirst
<1>9. CascadeSums(f, Null, 0)[m].sum = 0
  BY <1>8 DEF Increase
<1>10. Max(DOMAIN f) = m
  <2>1. m \in Int /\ m >= m
    BY <1>7
  <2>2. DOMAIN f = {m}
    BY <1>5, <1>6
  <2>3. Max({m}) = m
    BY <2>1, MaxIs
  <2> QED
    BY <2>2, <2>3
<1>11. Last(CascadeSums(f, Null, 0)) = CascadeSums(f, Null, 0)[m]
  BY <1>10, CascadeDomain DEF Last
<1> QED
  BY <1>1, <1>5, <1>9, <1>11 DEF f, I

LEMMA CompileChain == ASSUME Readings \subseteq Nat, TypeInv, TypeInv', ChainInv, Compile PROVE ChainInv'
<1> DEFINE f == ReadingsWith(states, compiled, compiled + Width)
           row == CompiledRow(compiled)
           table == IF DOMAIN f # {} THEN Put(short, compiled, row) ELSE short
<1>1. compiled + Width <= now /\ states' = states /\ short' = table
  BY Zenon DEF Compile
<1>2. compiled \in Starts /\ compiled \in Int
  BY <1>1, CompiledStart, StartFacts DEF TypeInv
<1>3. DOMAIN states \subseteq 0..MaxTime /\ MaxTime \in Nat
  BY StatesBounded DEF TypeInv
<1>w. Width \in Nat \ {0}
  BY WidthsAssumption
<1>4. /\ \A s \in DOMAIN short' : s = compiled \/ s \in DOMAIN short
      /\ \A s \in DOMAIN short : s \in Nat /\ s < compiled /\ s \in DOMAIN short' /\ short'[s] = short[s]
      /\ compiled \in DOMAIN short' => short'[compiled] = row
  <2>1. \A s \in DOMAIN short : s \in Nat /\ s < compiled
    BY DEF TypeInv, RowsInv, StartsOK
  <2>2. CASE DOMAIN f # {}
    <3> DEFINE new == Put(short, compiled, row)
    <3>1. /\ DOMAIN new = DOMAIN short \cup {compiled} /\ new[compiled] = row
          /\ \A t \in DOMAIN short \ {compiled} : new[t] = short[t]
      BY Zenon DEF Put
    <3>2. short' = new
      BY <1>1, <2>2
    <3> HIDE DEF new, row, f
    <3> QED
      BY <1>2, <2>1, <3>1, <3>2
  <2>3. CASE ~(DOMAIN f # {})
    <3>1. short' = short
      BY <1>1, <2>3
    <3> HIDE DEF row, f, table
    <3> QED
      BY <1>2, <2>1, <3>1
  <2> QED
    BY <2>2, <2>3
<1> HIDE DEF table
<1> SUFFICES ASSUME NEW s \in DOMAIN short' PROVE RowInv(s)'
  BY DEF ChainInv
<1>5. CASE s # compiled
  <2>1. s \in DOMAIN short /\ s \in Nat /\ s < compiled
    BY <1>4, <1>5
  <2>2. s - Width # compiled
    BY <2>1, <1>2, <1>w
  <2>3. s - Width \in DOMAIN short' => s - Width \in DOMAIN short /\ short'[s - Width] = short[s - Width]
    BY <1>4, <2>2
  <2>4. RowInv(s) /\ s \in Int /\ short'[s] = short[s]
    BY <1>4, <2>1 DEF ChainInv
  <2>5. /\ Inside(states', s) = Inside(states, s) /\ CarriedIn(states', s) = CarriedIn(states, s)
        /\ \A t \in CarriedIn(states, s) \cup Inside(states, s) : states'[t] = states[t]
        /\ DOMAIN states' \subseteq 0..MaxTime
    BY <1>1, <1>3
  <2> QED
    BY <1>3, <2>3, <2>4, <2>5, KeptRow
<1>6. CASE s = compiled
  <2> SUFFICES ASSUME Inside(states, s) # {}
               PROVE  /\ short'[s].state = LastReadingIn(states, s, s + Width)
                      /\ Steady(s) =>
                           /\ s = 0 => short'[s].sum = 0
                           /\ s - Width \in DOMAIN short'
                              /\ (\E c \in CarriedIn(states, s) : states[c] = short'[s - Width].state)
                                => short'[s].sum = short'[s - Width].sum
                                                     + Increase(short'[s].state, short'[s - Width].state)
    BY <1>1 DEF RowInv, Steady
  <2>1. short'[s] = Last(CascadeSums(ReadingsWith(states, s, s + Width), LastTotal.state, LastTotal.sum))
    BY <1>4, <1>6, Zenon DEF CompiledRow
  <2>2. LastTotal.state \in Int \cup {Null} /\ LastTotal.sum \in Int
    BY LastTotalType DEF TypeInv
  <2>3. short'[s].state = LastReadingIn(states, s, s + Width)
    BY <1>2, <1>3, <1>6, <2>1, <2>2, CompiledState
  <2>4. ASSUME Steady(s), s = 0 PROVE short'[s].sum = 0
    <3>1. LastTotal = NoRow
      BY <1>6, <2>4, LastTotalIs
    <3>2. LastTotal.state = Null /\ LastTotal.sum = 0
      BY <3>1 DEF NoRow
    <3>3. Last(CascadeSums(ReadingsWith(states, 0, 0 + Width), Null, 0)).sum = 0
      BY <1>3, <2>4, FirstRow
    <3> QED
      BY <2>1, <2>4, <3>2, <3>3
  <2>5. ASSUME Steady(s), s - Width \in DOMAIN short', NEW c \in CarriedIn(states, s),
               states[c] = short'[s - Width].state
        PROVE  short'[s].sum = short'[s - Width].sum + Increase(short'[s].state, short'[s - Width].state)
    <3>1. s - Width \in DOMAIN short /\ short'[s - Width] = short[s - Width]
      <4>1. s - Width # compiled
        BY <1>2, <1>6, <1>w
      <4> QED
        BY <1>4, <2>5, <4>1
    <3>2. LastTotal = short[s - Width]
      BY <1>6, <3>1, LastTotalIs
    <3>3. short'[s] = [state |-> LastReadingIn(states, s, s + Width),
                       sum |-> LastTotal.sum + Increase(LastReadingIn(states, s, s + Width), states[c])]
      <4>1. LastTotal.state = states[c]
        BY <2>5, <3>1, <3>2
      <4>2. s \in Int
        BY <1>2, <1>6
      <4>3. Last(CascadeSums(ReadingsWith(states, s, s + Width), states[c], LastTotal.sum))
              = [state |-> LastReadingIn(states, s, s + Width),
                 sum |-> LastTotal.sum + Increase(LastReadingIn(states, s, s + Width), states[c])]
        BY <1>3, <2>2, <2>5, <4>2, SteadyRow
      <4> QED
        BY <2>1, <4>1, <4>3
    <3> QED
      BY <2>5, <3>1, <3>2, <3>3
  <2> QED
    BY <2>3, <2>4, <2>5
<1> QED
  BY <1>5, <1>6

\* A rebuild from the bucket of a reading that changed.
LEMMA RebuiltChain ==
  ASSUME TypeInv, TypeInv', ChainInv, NEW ts \in DOMAIN states, NEW v,
         states' = Put(states, ts, v), Recompute(states', ts)
  PROVE  ChainInv'
<1> DEFINE from == BucketStart(ts, Width)
           new == CascadeTable(states', short, from)
<1>w. Width \in Nat \ {0} /\ MaxTime \in Nat
  BY WidthsAssumption, MaxTimeAssumption
<1>1. DOMAIN states \subseteq 0..MaxTime /\ DOMAIN states' \subseteq 0..MaxTime
  BY StatesBounded, MaxTimeAssumption DEF TypeInv, StatesOK, Times
<1>2. ts \in Nat /\ from \in Nat /\ from % Width = 0 /\ from <= ts /\ ts < from + Width
  <2>1. ts \in 0..MaxTime
    BY <1>1
  <2>2. ts \in Nat
    BY <2>1, <1>w
  <2> QED
    BY <2>2, <1>w, GridStart DEF BucketStart
<1>3. short' = new
  BY Zenon DEF Recompute
<1>4. /\ \A t : t # ts => (t \in DOMAIN states' <=> t \in DOMAIN states)
      /\ \A t \in DOMAIN states : t # ts => states'[t] = states[t]
  BY Zenon DEF Put
<1> DEFINE reading == LastReadingIn(states', from, from + Width)
<1>5. /\ DOMAIN new = DOMAIN short
      /\ \A y \in DOMAIN short : ~(from <= y) => new[y] = short[y]
  BY CascadeKeepsEarlier
<1>6. /\ \A s \in DOMAIN short :
           from < s /\ s - Width \in DOMAIN short
             => /\ new[s].state = short[s].state
                /\ new[s].sum = new[s - Width].sum + Increase(new[s].state, new[s - Width].state)
      /\ from \in DOMAIN short =>
           /\ new[from].state = IF reading # Null THEN reading ELSE short[from].state
           /\ from - Width \in DOMAIN short =>
                new[from].sum = short[from - Width].sum + Increase(new[from].state, short[from - Width].state)
           /\ from - Width \notin DOMAIN short => new[from].sum = 0
  <2>1. RowsOK(short)
    BY DEF TypeInv
  <2>2. DOMAIN states' \subseteq 0..MaxTime /\ MaxTime \in Nat /\ from \in Nat /\ from % Width = 0
    BY <1>1, <1>2, <1>w
  <2> HIDE DEF from
  <2> QED
    BY <2>1, <2>2, CascadeChain
<1> HIDE DEF from, new, reading
<1>7. \A s \in DOMAIN short : s \in Nat /\ s % Width = 0
  BY StartFacts DEF TypeInv, RowsOK
<1> SUFFICES ASSUME NEW s \in DOMAIN short PROVE RowInv(s)'
  BY <1>3, <1>5 DEF ChainInv
<1>8. RowInv(s) /\ s \in Nat /\ s % Width = 0
  BY <1>7 DEF ChainInv
<1>9. CASE s < from
  <2>1. s + Width <= from
    BY <1>2, <1>8, <1>9, <1>w, GridGap
  <2>2. \A t \in 0..MaxTime : t < s + Width => t # ts
    BY <2>1, <1>2, <1>8, <1>w
  <2>3. /\ Inside(states', s) = Inside(states, s) /\ CarriedIn(states', s) = CarriedIn(states, s)
        /\ \A t \in CarriedIn(states, s) \cup Inside(states, s) : states'[t] = states[t]
    <3>1. \A t \in 0..MaxTime : t < s + Width => (t \in DOMAIN states' <=> t \in DOMAIN states)
      BY <1>4, <2>2
    <3>2. \A t \in DOMAIN states : t < s + Width => states'[t] = states[t]
      BY <1>1, <1>4, <2>2
    <3>3. s \in Int
      BY <1>8
    <3> QED
      BY <1>1, <1>w, <3>1, <3>2, <3>3, ReadingsBefore
  <2>4. short'[s] = short[s]
    BY <1>2, <1>3, <1>5, <1>8, <1>9
  <2>5. s - Width \in DOMAIN short' => s - Width \in DOMAIN short /\ short'[s - Width] = short[s - Width]
    <3>1. ~(from <= s - Width)
      BY <1>2, <1>8, <1>9, <1>w
    <3> QED
      BY <1>3, <1>5, <3>1
  <2>6. s \in Int
    BY <1>8
  <2> QED
    BY <1>1, <1>8, <1>w, <2>3, <2>4, <2>5, <2>6, KeptRow
<1>10. CASE from < s
  <2>1. from + Width <= s
    BY <1>2, <1>8, <1>10, <1>w, GridGap
  <2>2. \A t : s <= t => t # ts
    BY <2>1, <1>2, <1>8, <1>w
  <2>3. Inside(states', s) = Inside(states, s) /\ \A t \in Inside(states, s) : states'[t] = states[t]
    BY <1>4, <2>2 DEF Inside
  <2>4. ASSUME Inside(states', s) # {}, s - Width \in DOMAIN short'
        PROVE  /\ short'[s].state = LastReadingIn(states', s, s + Width)
               /\ short'[s].sum = short'[s - Width].sum + Increase(short'[s].state, short'[s - Width].state)
    <3> DEFINE m == Max(Inside(states, s))
    <3>1. s - Width \in DOMAIN short
      BY <2>4, <1>3, <1>5
    <3>2. new[s].state = short[s].state
          /\ new[s].sum = new[s - Width].sum + Increase(new[s].state, new[s - Width].state)
      BY <1>6, <1>10, <3>1
    <3>3. short[s].state = LastReadingIn(states, s, s + Width)
      BY <1>8, <2>3, <2>4, <3>1 DEF RowInv
    <3>4. s \in Int
      BY <1>8
    <3>5. LastReadingIn(states, s, s + Width) = states[m] /\ m \in Inside(states, s)
      BY <1>1, <1>w, <2>3, <2>4, <3>4, LastReading
    <3>6. LastReadingIn(states', s, s + Width) = states'[m]
      BY <1>1, <1>w, <2>3, <2>4, <3>4, LastReading
    <3> QED
      BY <1>3, <2>3, <3>2, <3>3, <3>5, <3>6
  <2>5. s # 0
    BY <1>2, <1>10
  <2> QED
    BY <2>4, <2>5 DEF RowInv
<1>11. CASE s = from
  <2> SUFFICES ASSUME Inside(states', s) # {}
               PROVE  /\ short'[s].state = LastReadingIn(states', s, s + Width)
                      /\ s = 0 => short'[s].sum = 0
                      /\ s - Width \in DOMAIN short' =>
                           short'[s].sum = short'[s - Width].sum
                                             + Increase(short'[s].state, short'[s - Width].state)
    BY DEF RowInv
  <2>1. LastReadingIn(states', s, s + Width) # Null
    <3>1. s \in Int
      BY <1>8
    <3> QED
      BY <1>1, <1>w, <3>1, LastReading
  <2>2. short'[s].state = LastReadingIn(states', s, s + Width)
    BY <1>3, <1>6, <1>11, <2>1 DEF reading
  <2>3. ASSUME s = 0 PROVE short'[s].sum = 0
    <3>1. s - Width \notin DOMAIN short
      BY <1>7, <2>3, <1>w
    <3> QED
      BY <1>3, <1>6, <1>11, <3>1
  <2>4. ASSUME s - Width \in DOMAIN short'
        PROVE  short'[s].sum = short'[s - Width].sum + Increase(short'[s].state, short'[s - Width].state)
    <3>1. s - Width \in DOMAIN short /\ short'[s - Width] = short[s - Width]
      <4>1. ~(from <= s - Width)
        BY <1>2, <1>8, <1>11, <1>w
      <4> QED
        BY <1>3, <1>5, <2>4, <4>1
    <3> QED
      BY <1>3, <1>6, <1>11, <3>1
  <2> QED
    BY <2>2, <2>3, <2>4
<1>12. s < from \/ from < s \/ s = from
  BY <1>2, <1>8
<1> QED
  BY <1>9, <1>10, <1>11, <1>12

LEMMA InitChain == Init => ChainInv
<1> SUFFICES ASSUME Init PROVE ChainInv
  OBVIOUS
<1>1. DOMAIN short = {}
  BY DEF Init
<1> QED
  BY <1>1 DEF ChainInv

LEMMA NextChain == ASSUME Readings \subseteq Nat, TypeInv, TypeInv', ChainInv, [Next]_vars PROVE ChainInv'
<1>1. CASE \E v \in Readings \cup {Unavailable, Nothing} : Report(v)
  BY <1>1, ReportChain
<1>2. CASE Compile
  BY <1>2, CompileChain
<1>3. CASE Miss
  BY <1>3, MissChain
<1>4. CASE \E cut \in PurgeCuts : Purge(cut)
  BY <1>4, PurgeChain
<1>5. ASSUME NEW ts \in Times, NEW new \in Readings, Correct(ts, new) PROVE ChainInv'
  <2>1. ts \in DOMAIN states /\ states' = Put(states, ts, new) /\ Recompute(states', ts)
    BY <1>5, Zenon DEF Correct
  <2> QED
    BY <2>1, RebuiltChain
<1>6. ASSUME NEW i \in DOMAIN audit, Restore(i) PROVE ChainInv'
  <2>1. /\ audit[i].ts \in DOMAIN states /\ states' = Put(states, audit[i].ts, audit[i].orig)
        /\ Recompute(states', audit[i].ts)
    BY <1>6, Zenon DEF Restore
  <2> QED
    BY <2>1, RebuiltChain
<1>7. CASE UNCHANGED vars
  <2>1. states' = states /\ short' = short
    BY <1>7 DEF vars
  <2> QED
    BY <2>1 DEF ChainInv, RowInv, Steady
<1> QED
  BY <1>1, <1>2, <1>3, <1>4, <1>5, <1>6, <1>7 DEF Next

\* The first row, and each row that follows one ending on the reading carried
\* in, say what the recorder would compile.
LEMMA ChainImpliesNeighbours ==
  ASSUME Readings \subseteq Nat, TypeInv, ChainInv
  PROVE  NeighboursFollowReadings
<1> SUFFICES ASSUME NEW s \in DOMAIN short, Plain(s), CarriedIn(states, s) # {},
                    Previous(short, s, Width).state = states[Max(CarriedIn(states, s))]
             PROVE  short[s] = Last(CascadeSums(ReadingsWith(states, s, s + Width),
                                                Previous(short, s, Width).state, Previous(short, s, Width).sum))
  BY Zenon DEF NeighboursFollowReadings
<1>1. DOMAIN states \subseteq 0..MaxTime /\ MaxTime \in Nat
  BY StatesBounded DEF TypeInv
<1>2. s \in Nat /\ s \in Int /\ s % Width = 0 /\ short[s] \in Row /\ DOMAIN short \subseteq Starts
  BY StartFacts DEF TypeInv, RowsOK
<1>3. PICK c \in CarriedIn(states, s) : TRUE
  OBVIOUS
<1>4. CarriedIn(states, s) = {c} /\ c \in DOMAIN states /\ states[c] \in Readings
  BY <1>1, CarriedFacts
<1>5. Max(CarriedIn(states, s)) = c
  <2>1. c \in Int
    BY <1>1, <1>4
  <2> QED
    BY <1>4, <2>1, MaxIs
<1>6. Previous(short, s, Width).state = states[c] /\ states[c] # Null
  BY <1>4, <1>5, ReadingsAssumption, NullAssumption
<1>7. s - Width \in DOMAIN short /\ Previous(short, s, Width) = short[s - Width]
  <2>1. s - Width \notin DOMAIN short => Previous(short, s, Width) = NoRow
    BY <1>2, PreviousIs
  <2>2. Previous(short, s, Width) # NoRow
    BY <1>6 DEF NoRow
  <2> QED
    BY <1>2, <2>1, <2>2, PreviousIs
<1>8. Steady(s) /\ Inside(states, s) # {}
  BY <1>1, <1>2, LastReading DEF Plain
<1>9. RowInv(s)
  BY DEF ChainInv
<1>10. /\ short[s].state = LastReadingIn(states, s, s + Width)
       /\ short[s].sum = short[s - Width].sum + Increase(short[s].state, short[s - Width].state)
  BY <1>6, <1>7, <1>8, <1>9 DEF RowInv
<1>11. short[s - Width].sum \in Int
  BY <1>7, RowFacts DEF TypeInv, RowsOK
<1>12. Last(CascadeSums(ReadingsWith(states, s, s + Width), states[c], short[s - Width].sum))
         = [state |-> LastReadingIn(states, s, s + Width),
            sum |-> short[s - Width].sum + Increase(LastReadingIn(states, s, s + Width), states[c])]
  BY <1>1, <1>2, <1>8, <1>11, SteadyRow
<1>13. short[s] = [state |-> short[s].state, sum |-> short[s].sum]
  BY <1>2, RowFacts
<1>14. short[s - Width].state = states[c]
  BY <1>6, <1>7
<1> QED
  BY <1>6, <1>7, <1>10, <1>12, <1>13, <1>14

LEMMA ChainInvariant == ASSUME Readings \subseteq Nat PROVE Spec => []ChainInv
<1>1. TypeInv /\ TypeInv' /\ ChainInv /\ [Next]_vars => ChainInv'
  BY NextChain
<1> QED
  BY <1>1, InitChain, TypeInvariant, PTL DEF Spec

\* Whatever is corrected, restored, purged and compiled in between, two
\* neighbouring rows of a meter without negative readings differ by what was
\* consumed between them, when the earlier one ends on the reading carried
\* into the later.
THEOREM CounterNeighbours == ASSUME Readings \subseteq Nat PROVE Spec => []NeighboursFollowReadings
<1>1. TypeInv /\ ChainInv => NeighboursFollowReadings
  BY ChainImpliesNeighbours
<1> QED
  BY <1>1, TypeInvariant, ChainInvariant, PTL

-----------------------------------------------------------------------------
(***************************************************************************)
(* The totals the recorder would make of all readings.                     *)
(***************************************************************************)
Heard(before) == {t \in DOMAIN states : t < before /\ states[t] \in Readings}

\* The total at a reading depends on no later one.
LEMMA ChainPrefix ==
  ASSUME NEW f, NEW g, NEW N, MeterOK(f, N), MeterOK(g, N), NEW p, NEW q, NEW s \in Known(f),
         \A t : t \in Known(g) <=> t \in Known(f) /\ t <= s,
         \A t \in Known(g) : f[t] = g[t]
  PROVE  CascadeSums(f, p, q)[s].sum = CascadeSums(g, p, q)[s].sum
<1>1. N \in Nat /\ Known(f) \subseteq 0..N /\ Known(g) \subseteq 0..N /\ s \in 0..N /\ s \in Known(g)
  BY DEF Known, MeterOK
<1>2. {u \in Known(f) : u <= s} = Known(g) /\ {u \in Known(g) : u <= s} = Known(g)
  OBVIOUS
<1>3. ASSUME NEW t \in Known(g) PROVE RunningState(f, p, t) = RunningState(g, p, t)
  <2> DEFINE before == {u \in Known(g) : u < t}
  <2>1. ASSUME NEW u \in Known(f), u < t PROVE u \in Known(g)
    <3>1. u \in 0..N /\ t \in 0..N /\ t <= s
      BY <1>1
    <3>2. u <= s
      BY <1>1, <2>1, <3>1
    <3> QED
      BY <3>2
  <2>2. {u \in Known(f) : u < t} = before
    <3>1. {u \in Known(f) : u < t} \subseteq before
      BY <2>1
    <3>2. before \subseteq {u \in Known(f) : u < t}
      OBVIOUS
    <3> QED
      BY <3>1, <3>2, Zenon
  <2>3. before # {} => Max(before) \in before
    <3>1. before \in SUBSET (0..N)
      BY <1>1
    <3> QED
      BY <1>1, <3>1, LastInstant
  <2>4. before # {} => f[Max(before)] = g[Max(before)]
    BY <2>3
  <2> HIDE DEF before
  <2>5. RunningState(f, p, t) = IF before = {} THEN p ELSE f[Max(before)]
    BY <2>2 DEF RunningState
  <2>6. RunningState(g, p, t) = IF before = {} THEN p ELSE g[Max(before)]
    BY DEF RunningState, before
  <2> QED
    BY <2>4, <2>5, <2>6
<1>4. Steps(f, p, s) = Steps(g, p, s)
  <2>1. Steps(f, p, s) = [t \in Known(g) |-> Increase(f[t], RunningState(f, p, t))]
    BY <1>2, Zenon DEF Steps
  <2>2. Steps(g, p, s) = [t \in Known(g) |-> Increase(g[t], RunningState(g, p, t))]
    BY <1>2, Zenon DEF Steps
  <2>3. \A t \in Known(g) : Increase(f[t], RunningState(f, p, t)) = Increase(g[t], RunningState(g, p, t))
    BY <1>3
  <2> QED
    BY <2>1, <2>2, <2>3, Zenon
<1>5. s \in DOMAIN f /\ s \in DOMAIN g
  BY <1>1 DEF Known
<1>6. /\ CascadeSums(f, p, q)[s].sum = q + Total(Steps(f, p, s))
      /\ CascadeSums(g, p, q)[s].sum = q + Total(Steps(g, p, s))
  BY <1>5, ChainDef
<1> QED
  BY <1>4, <1>6

LEMMA AllReadings ==
  ASSUME NEW N \in Nat, DOMAIN states \subseteq 0..N, NEW before
  PROVE  /\ DOMAIN ReadingsWith(states, 0, before) = Heard(before)
         /\ Known(ReadingsWith(states, 0, before)) = Heard(before)
         /\ MeterOK(ReadingsWith(states, 0, before), N)
         /\ \A t \in Heard(before) : ReadingsWith(states, 0, before)[t] = states[t]
<1> DEFINE g == ReadingsWith(states, 0, before)
<1>1. CarriedIn(states, 0) = {}
  <2> SUFFICES ASSUME NEW c \in CarriedIn(states, 0) PROVE FALSE
    OBVIOUS
  <2>1. c \in DOMAIN states /\ c < 0
    BY CarriedFacts
  <2> QED
    BY <2>1
<1>2. {u \in DOMAIN states : 0 <= u /\ u < before /\ states[u] \in Readings} = Heard(before)
  BY DEF Heard
<1>3. DOMAIN g = Heard(before) /\ \A t \in Heard(before) : g[t] = states[t]
  BY <1>1, <1>2, Zenon DEF ReadingsWith
<1> HIDE DEF g
<1>4. \A t \in Heard(before) : g[t] \in Int /\ g[t] # Null /\ t \in 0..N
  BY <1>3, ReadingsAssumption, NullAssumption DEF Heard
<1>5. Known(g) = Heard(before) /\ MeterOK(g, N)
  BY <1>3, <1>4 DEF Known, MeterOK
<1> QED
  BY <1>3, <1>5 DEF g

LEMMA StartBefore ==
  ASSUME NEW s \in Nat, s % Width = 0, s # 0
  PROVE  s - Width \in Nat /\ (s - Width) % Width = 0
<1>1. Width \in Nat \ {0}
  BY WidthsAssumption
<1>2. s = Width * (s \div Width) /\ s \div Width \in Int
  BY <1>1, DivisionFacts
<1>3. Width * (s \div Width - 1) = s - Width
  BY <1>1, <1>2
<1>4. (s - Width) % Width = 0
  <2>1. (Width * (s \div Width - 1)) % Width = 0
    <3>1. s \div Width - 1 \in Int
      BY <1>2
    <3> QED
      BY <1>1, <3>1, MultipleOf
  <2> QED
    BY <1>3, <2>1
<1>5. 0 + Width <= s
  <2>1. 0 % Width = 0
    BY <1>1
  <2> QED
    BY <1>1, <2>1, GridGap
<1> QED
  BY <1>1, <1>4, <1>5

\* The total at the last reading of a bucket that heard its sensor.
LEMMA TotalThere ==
  ASSUME NEW N \in Nat, DOMAIN states \subseteq 0..N, NEW s \in Int, Inside(states, s) # {}
  PROVE  LET m == Max(Inside(states, s))
             g == ReadingsWith(states, 0, s + Width)
         IN  /\ m \in Heard(s + Width) /\ \A t \in Heard(s + Width) : t <= m
             /\ FromTheReadings(s + Width) = [state |-> states[m], sum |-> CascadeSums(g, Null, 0)[m].sum]
<1> DEFINE m == Max(Inside(states, s))
           g == ReadingsWith(states, 0, s + Width)
<1>1. /\ DOMAIN g = Heard(s + Width) /\ MeterOK(g, N)
      /\ \A t \in Heard(s + Width) : g[t] = states[t]
  BY AllReadings
<1>2. m \in Inside(states, s) /\ \A t \in Inside(states, s) : t <= m
  BY LastReading
<1> HIDE DEF m, g
<1>3. m \in Heard(s + Width) /\ m \in 0..N /\ s <= m
  BY <1>2 DEF Inside, Heard
<1>4. ASSUME NEW t \in Heard(s + Width) PROVE t <= m
  <2>1. t \in 0..N /\ t \in DOMAIN states /\ t < s + Width /\ states[t] \in Readings
    BY DEF Heard
  <2>2. CASE s <= t
    BY <1>2, <2>1, <2>2 DEF Inside
  <2>3. CASE ~(s <= t)
    BY <1>3, <2>1, <2>3
  <2> QED
    BY <2>2, <2>3
<1>5. Max(DOMAIN g) = m
  <2>1. Heard(s + Width) \in SUBSET Int
    BY DEF Heard
  <2>2. \A t \in Heard(s + Width) : m >= t
    BY <1>3, <1>4, <2>1
  <2> QED
    BY <1>1, <1>3, <2>1, <2>2, MaxIs
<1>6. FromTheReadings(s + Width) = CascadeSums(g, Null, 0)[m]
  BY <1>5, CascadeDomain DEF FromTheReadings, Last, g
<1>7. CascadeSums(g, Null, 0)[m] = [state |-> g[m], sum |-> CascadeSums(g, Null, 0)[m].sum]
  <2>1. m \in DOMAIN g /\ Null \in Int \cup {Null} /\ 0 \in Int
    BY <1>1, <1>3
  <2> QED
    BY <1>1, <2>1, ChainType
<1>8. g[m] = states[m]
  BY <1>1, <1>3
<1> QED
  BY <1>3, <1>4, <1>6, <1>7, <1>8 DEF m, g

\* Where the recorder has a row of every bucket it compiled, and heard its
\* sensor in each, the rows are what it would make of the readings as they are.
LEMMA TotalsFollow == ASSUME Readings \subseteq Nat, TypeInv, ChainInv PROVE TotalsAreTheRecorders
<1> SUFFICES ASSUME \A s \in Starts : s < compiled => Plain(s)
             PROVE  \A s \in DOMAIN short : short[s] = FromTheReadings(s + Width)
  BY DEF TotalsAreTheRecorders
<1> DEFINE Bad == {s \in DOMAIN short : short[s] # FromTheReadings(s + Width)}
<1> SUFFICES ASSUME Bad # {} PROVE FALSE
  OBVIOUS
<1>w. Width \in Nat \ {0}
  BY WidthsAssumption
<1>1. DOMAIN states \subseteq 0..MaxTime /\ MaxTime \in Nat
  BY StatesBounded DEF TypeInv
<1>2. ASSUME NEW s \in DOMAIN short
      PROVE  s \in Nat /\ s % Width = 0 /\ s \in Starts /\ s < compiled /\ short[s] \in Row
  <2>1. s \in Starts /\ s \in Nat /\ s % Width = 0
    BY StartFacts DEF TypeInv, RowsOK
  <2>2. s < compiled
    BY DEF TypeInv, RowsInv, StartsOK
  <2>3. short[s] \in Row
    BY DEF TypeInv, RowsOK
  <2> QED
    BY <2>1, <2>2, <2>3
<1>3. ASSUME NEW s \in Starts, s < compiled
      PROVE  s \in DOMAIN short /\ Steady(s) /\ Inside(states, s) # {}
  <2>1. Plain(s) /\ s \in Int
    BY <1>3 DEF Starts, Times
  <2> QED
    BY <1>1, <2>1, LastReading DEF Plain
<1>4. Bad \in SUBSET Nat
  BY <1>2
<1>5. PICK s \in Bad : \A t \in Bad : s <= t
  BY <1>4, LeastExists
<1>6. s \in DOMAIN short /\ short[s] # FromTheReadings(s + Width)
  OBVIOUS
<1>7. s \in Nat /\ s \in Int /\ s % Width = 0 /\ s < compiled /\ s \in Starts /\ short[s] \in Row
  BY <1>2, <1>6
<1>8. Steady(s) /\ Inside(states, s) # {}
  BY <1>3, <1>7
<1>b. s # 0 => /\ s - Width \in Nat /\ (s - Width) % Width = 0 /\ s - Width \in DOMAIN short
               /\ Inside(states, s - Width) # {}
  <2> SUFFICES ASSUME s # 0
               PROVE  /\ s - Width \in Nat /\ (s - Width) % Width = 0 /\ s - Width \in DOMAIN short
                      /\ Inside(states, s - Width) # {}
    OBVIOUS
  <2>1. s - Width \in Nat /\ (s - Width) % Width = 0
    BY <1>7, StartBefore
  <2>2. compiled \in Int
    BY DEF TypeInv, RowsInv, ClockOK
  <2>3. s - Width \in Starts /\ s - Width < compiled
    BY <1>7, <1>w, <2>1, <2>2, MaxTimeAssumption DEF Starts, Times
  <2> QED
    BY <1>3, <2>1, <2>3
<1> DEFINE m == Max(Inside(states, s))
           g == ReadingsWith(states, 0, s + Width)
           sum(t) == CascadeSums(g, Null, 0)[t].sum
<1>9. /\ FromTheReadings(s + Width) = [state |-> states[m], sum |-> sum(m)]
      /\ m \in Heard(s + Width)
  BY <1>1, <1>7, <1>8, TotalThere
<1>10. RowInv(s)
  BY <1>6 DEF ChainInv
<1>11. short[s].state = states[m] /\ short[s] = [state |-> short[s].state, sum |-> short[s].sum]
  <2>1. short[s].state = LastReadingIn(states, s, s + Width)
    BY <1>b, <1>8, <1>10 DEF RowInv
  <2>2. LastReadingIn(states, s, s + Width) = states[m]
    BY <1>1, <1>7, <1>8, LastReading
  <2> QED
    BY <1>7, <2>1, <2>2, RowFacts
<1>12. short[s].sum = sum(m)
  <2>1. CASE s = 0
    <3>1. Last(CascadeSums(ReadingsWith(states, 0, 0 + Width), Null, 0)).sum = 0
      BY <1>1, <1>8, <2>1, FirstRow
    <3>2. FromTheReadings(s + Width).sum = 0
      BY <2>1, <3>1 DEF FromTheReadings
    <3>3. short[s].sum = 0
      BY <1>8, <1>10, <2>1 DEF RowInv
    <3> HIDE DEF m, sum
    <3> QED
      BY <1>9, <3>2, <3>3
  <2>2. CASE s # 0
    <3> DEFINE a == s - Width
               c == Max(Inside(states, a))
               h == ReadingsWith(states, 0, a + Width)
    <3>1. a \in Nat /\ a \in Int /\ a + Width = s /\ a < s
      BY <1>b, <1>7, <1>w, <2>2
    <3>3. a \in DOMAIN short /\ Inside(states, a) # {}
      BY <1>b, <2>2
    <3> HIDE DEF a
    <3>4. short[a] = FromTheReadings(s)
      <4>1. a \notin Bad
        BY <1>5, <1>7, <3>1
      <4> QED
        BY <3>1, <3>3, <4>1
    <3>5. /\ c \in Heard(s) /\ \A t \in Heard(s) : t <= c
          /\ FromTheReadings(s) = [state |-> states[c], sum |-> CascadeSums(h, Null, 0)[c].sum]
      BY <1>1, <3>1, <3>3, TotalThere
    <3>6. /\ DOMAIN h = Heard(s) /\ Known(h) = Heard(s) /\ MeterOK(h, MaxTime)
          /\ \A t \in Heard(s) : h[t] = states[t]
      BY <1>1, <3>1, AllReadings
    <3>7. /\ DOMAIN g = Heard(s + Width) /\ Known(g) = Heard(s + Width) /\ MeterOK(g, MaxTime)
          /\ \A t \in Heard(s + Width) : g[t] = states[t]
      BY <1>1, AllReadings
    <3> HIDE DEF m, c, g, h, sum
    <3>8. CarriedIn(states, s) = {c} /\ c < s /\ c \in 0..MaxTime
      <4>1. c \in DOMAIN states /\ c < s /\ states[c] \in Readings
        BY <3>5 DEF Heard
      <4>2. \A t \in DOMAIN states : t < s /\ states[t] \in Readings => t <= c
        BY <3>5 DEF Heard
      <4> QED
        BY <1>1, <4>1, <4>2, CarriedIs
    <3>9. /\ \A t \in Heard(s + Width) : t < s <=> t \in Heard(s)
          /\ \A t \in Heard(s) : t \in Heard(s + Width)
          /\ \A t : t \in Inside(states, s) <=> t \in Heard(s + Width) /\ s <= t
      <4>1. \A t \in DOMAIN states : t \in 0..MaxTime /\ (t < s => t < s + Width)
        BY <1>1, <1>7, <1>w
      <4> QED
        BY <4>1 DEF Heard, Inside
    <3>10. sum(c) = CascadeSums(h, Null, 0)[c].sum
      <4>1. \A t : t \in Known(h) <=> t \in Known(g) /\ t <= c
        <5>1. ASSUME NEW t \in Heard(s + Width), t <= c PROVE t \in Heard(s)
          <6>1. t \in 0..MaxTime
            BY <1>1, <5>1 DEF Heard
          <6>2. t < s
            BY <1>7, <3>8, <5>1, <6>1
          <6> QED
            BY <3>9, <6>2
        <5> QED
          BY <3>5, <3>6, <3>7, <3>9, <5>1
      <4>2. c \in Known(g) /\ \A t \in Known(h) : g[t] = h[t]
        BY <3>5, <3>6, <3>7, <3>9
      <4>3. CascadeSums(g, Null, 0)[c].sum = CascadeSums(h, Null, 0)[c].sum
        BY <3>6, <3>7, <4>1, <4>2, ChainPrefix
      <4> QED
        BY <4>3 DEF sum
    <3>11. sum(m) = sum(c) + Increase(states[m], states[c])
      <4>1. /\ c \in Known(g) /\ g[c] = states[c]
            /\ \A t \in Inside(states, s) : t \in Known(g) /\ g[t] = states[t]
        BY <3>5, <3>7, <3>9
      <4>2. \A t \in Known(g) : c < t <=> t \in Inside(states, s)
        <5>1. ASSUME NEW t \in Heard(s + Width) PROVE c < t <=> s <= t
          <6>1. t \in 0..MaxTime /\ t \in Int /\ c \in Int
            BY <1>1, <3>8 DEF Heard
          <6>2. CASE s <= t
            BY <1>7, <3>8, <6>1, <6>2
          <6>3. CASE ~(s <= t)
            <7>1. t < s
              BY <1>7, <6>1, <6>3
            <7>2. t <= c
              BY <3>5, <3>9, <7>1
            <7> QED
              BY <6>1, <6>3, <7>2
          <6> QED
            BY <6>2, <6>3
        <5> QED
          BY <3>7, <3>9, <5>1
      <4>3. c \in CarriedIn(states, s)
        BY <3>8
      <4>4. Across(g, c, s)
        BY <4>1, <4>2 DEF Across
      <4> DEFINE last == Max(Inside(states, s))
      <4>5. \A p \in Int \cup {Null} : \A q \in Int :
               CascadeSums(g, p, q)[last].sum = CascadeSums(g, p, q)[c].sum + Increase(states[last], states[c])
        BY <1>1, <1>7, <1>8, <3>7, <4>3, <4>4, SteadyStep
      <4>6. CascadeSums(g, Null, 0)[last].sum
              = CascadeSums(g, Null, 0)[c].sum + Increase(states[last], states[c])
        <5>1. Null \in Int \cup {Null} /\ 0 \in Int
          OBVIOUS
        <5> HIDE DEF last
        <5> QED
          BY <4>5, <5>1, Zenon
      <4> QED
        BY <4>6 DEF m, sum
    <3>12. short[s].sum = short[a].sum + Increase(short[s].state, short[a].state)
      <4>1. s - Width = a
        BY DEF a
      <4>2. states[c] = short[a].state
        BY <3>4, <3>5
      <4> QED
        BY <1>8, <1>10, <3>3, <3>8, <4>1, <4>2 DEF RowInv
    <3>13. short[a].state = states[c] /\ short[a].sum = sum(c)
      BY <3>4, <3>5, <3>10
    <3> QED
      BY <1>11, <3>11, <3>12, <3>13 DEF m
  <2> QED
    BY <2>1, <2>2
<1> HIDE DEF m, sum
<1> QED
  BY <1>6, <1>9, <1>11, <1>12

\* While nothing is purged or missing and every bucket heard its sensor, any
\* sequence of corrections and restores, with the recorder compiling in
\* between, leaves every row of a meter without negative readings what the
\* recorder would have made of the readings as they now are.
THEOREM CounterTotals == ASSUME Readings \subseteq Nat PROVE Spec => []TotalsAreTheRecorders
<1>1. TypeInv /\ ChainInv => TotalsAreTheRecorders
  BY TotalsFollow
<1> QED
  BY <1>1, TypeInvariant, ChainInvariant, PTL

=============================================================================
