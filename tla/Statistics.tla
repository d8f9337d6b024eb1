------------------------------ MODULE Statistics ------------------------------
(***************************************************************************)
(* hr_statistics: Home Assistant's statistics arithmetic, as the add-on    *)
(* reimplements it to rebuild the buckets a correction touches.            *)
(*                                                                         *)
(* Time is counted in units; a short-term bucket is Width of them and an   *)
(* hourly bucket Hour.  Readings are a function from timestamps to values. *)
(* A mean is held as an integer, Scale times the real one, with Scale      *)
(* divisible by every denominator that can occur: the floats of the code   *)
(* without their rounding.                                                 *)
(***************************************************************************)
EXTENDS Integers, FiniteSets, FiniteSetsExt, Tables

CONSTANTS
  Width,   \* SHORT_TERM_SECONDS
  Hour,    \* HOURLY_SECONDS
  Scale,
  Null     \* None in Python, NULL in the statistics tables

ASSUME WidthsAssumption == Width \in Nat \ {0} /\ Hour \in Nat \ {0} /\ Hour % Width = 0
ASSUME NullAssumption == Null \notin Int
ASSUME ScaleAssumption ==
  /\ Scale \in Nat
  /\ \A spans \in 1..Width, buckets \in 1..(Hour \div Width) : Scale % (spans * buckets) = 0

BucketStart(ts, width) == (ts \div width) * width

HourOf(ts) == BucketStart(ts, Hour)

SubBuckets(hour) == {hour + Width * k : k \in 0..(Hour \div Width - 1)}

Larger(a, b) == IF a > b THEN a ELSE b

-----------------------------------------------------------------------------
\* Mutant: the reading carried in counts from when it was reported.
SinceReported(readings, start, t) == t

\* When the reading at t took effect within the window: readings before its
\* start count from the start, and a window nothing was in effect at the
\* start of opens at its first reading.
EffectiveFrom(readings, start, t) == Larger(t, Larger(Min(DOMAIN readings), start))

TimeWeightedMean(readings, start, end) ==
  LET from(t) == EffectiveFrom(readings, start, t)
      later(t) == {u \in DOMAIN readings : u > t}
      until(t) == IF later(t) = {} THEN end ELSE from(Min(later(t)))
      opens == from(Min(DOMAIN readings))
      accumulated == Total([t \in DOMAIN readings |-> readings[t] * (until(t) - from(t))])
  IN  IF end <= opens THEN Scale * readings[Max(DOMAIN readings)]
      ELSE (Scale * accumulated) \div (end - opens)

\* A bucket nothing was reported in or carried into.
NoReading == [mean |-> Null, min |-> Null, max |-> Null]

ValuesOf(f) == {f[t] : t \in DOMAIN f}

RecomputeShortTerm(readings, start) ==
  IF DOMAIN readings = {} THEN NoReading
  ELSE [mean |-> TimeWeightedMean(readings, start, start + Width),
        min |-> Min(ValuesOf(readings)),
        max |-> Max(ValuesOf(readings))]

\* buckets: short-term rows by their start.  The hourly mean is the plain
\* average of theirs, however few there are.
SummariseHourly(buckets) ==
  LET known == {s \in DOMAIN buckets : buckets[s].mean # Null}
  IN  IF known = {} THEN NoReading
      ELSE [mean |-> Total([s \in known |-> buckets[s].mean]) \div Cardinality(known),
            min |-> Min({buckets[s].min : s \in known}),
            max |-> Max({buckets[s].max : s \in known})]

-----------------------------------------------------------------------------
\* A reading below RESET_RATIO of the one before it.  total_increasing is a
\* parameter of is_reset that no caller of the add-on ever sets to False.
IsReset(state, previous) == previous # Null /\ 10 * state < 9 * previous

Increase(state, previous) ==
  IF previous = Null THEN 0
  ELSE IF IsReset(state, previous) THEN state
  ELSE state - previous

\* The running totals of buckets, given by their meter readings (Null for a
\* bucket without one), picked up at a known reading and total.
CascadeSums(meter, previousState, previousSum) ==
  LET known == {s \in DOMAIN meter : meter[s] # Null}
      before(s) == {t \in known : t < s}
      running(s) == IF before(s) = {} THEN previousState ELSE meter[Max(before(s))]
      consumed(s) == Total([t \in {u \in known : u <= s} |-> Increase(meter[t], running(t))])
  IN  [s \in DOMAIN meter |-> [state |-> meter[s], sum |-> previousSum + consumed(s)]]

-----------------------------------------------------------------------------
(***************************************************************************)
(* What time_weighted_mean's docstring says, unit of time by unit of time: *)
(* each reading counts "for as long as it was in effect", and the window   *)
(* begins at the first reading when nothing was in effect before.          *)
(***************************************************************************)
InEffect(readings, u) == readings[Max({t \in DOMAIN readings : t <= u})]

MeanByTheUnit(readings, start, end) ==
  LET units == {u \in start..(end - 1) : \E t \in DOMAIN readings : t <= u}
  IN  (Scale * Total([u \in units |-> InEffect(readings, u)])) \div Cardinality(units)

=============================================================================
