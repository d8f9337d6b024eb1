---------------------------- MODULE RecordedSensor ----------------------------
(***************************************************************************)
(* One sensor as Home Assistant's recorder keeps it: its states rows, its  *)
(* statistics_short_term and statistics rows, and the add-on's audit rows  *)
(* about it.  MeasurementStats and CounterStats add what the two kinds of  *)
(* sensor store in a statistics row and how a correction rebuilds it.  The *)
(* write transactions are atomic here (CorrectionTxn is about why).        *)
(***************************************************************************)
EXTENDS Statistics

CONSTANTS
  Readings,        \* numeric contents of states.state
  Unavailable,     \* the other kind: 'unavailable' and 'unknown'
  Nothing,         \* no state reported
  Reported,        \* what the sensor may report at each instant
  PurgeCuts,       \* instants the recorder may purge up to
  MaxTime,         \* bound on the clock
  MaxCorrections   \* bound on the audit table

ASSUME ReadingsAssumption == Readings \subseteq Int /\ Unavailable \notin Readings
ASSUME PurgeCutsAssumption == PurgeCuts \subseteq Nat
ASSUME MaxTimeAssumption == MaxTime \in Nat
ASSUME MaxCorrectionsAssumption == MaxCorrections \in Nat
ASSUME ReportedAssumption ==
  \A t \in 0..(MaxTime - 1) : Reported[t] \subseteq Readings \cup {Unavailable, Nothing}

VARIABLES
  now,        \* the clock; instants before it are over
  compiled,   \* the recorder has compiled the buckets that start before this
  states,     \* the sensor's states rows, by timestamp
  short,      \* its statistics_short_term rows, by start
  hourly,     \* its statistics rows, by start
  audit       \* its corrections, by id

vars == <<now, compiled, states, short, hourly, audit>>

Times == 0..(MaxTime - 1)
Starts == {t \in Times : t % Width = 0}
Hours == {t \in Times : t % Hour = 0}

\* The columns both kinds of sensor have; row is what their statistics hold.
\* No statistics row exists that the recorder has not compiled.
TablesOK(Row) ==
  /\ now \in 0..MaxTime
  /\ compiled \in {s \in 0..MaxTime : s % Width = 0}
  /\ DOMAIN states \subseteq Times /\ \A t \in DOMAIN states : states[t] \in Readings \cup {Unavailable}
  /\ DOMAIN short \subseteq {s \in Starts : s < compiled} /\ \A s \in DOMAIN short : short[s] \in Row
  /\ DOMAIN hourly \subseteq {h \in Hours : h < compiled} /\ \A h \in DOMAIN hourly : hourly[h] \in Row
  /\ DOMAIN audit \in {1..n : n \in 0..MaxCorrections}

Init ==
  /\ now = 0
  /\ compiled = 0
  /\ states = [t \in {} |-> Null]
  /\ short = [s \in {} |-> Null]
  /\ hourly = [h \in {} |-> Null]
  /\ audit = [i \in {} |-> Null]

-----------------------------------------------------------------------------
\* _readings_with: the numeric readings of a window and the last one before.
CarriedIn(rows, start) ==
  LET before == {t \in DOMAIN rows : t < start /\ rows[t] \in Readings}
  IN  IF before = {} THEN {} ELSE {Max(before)}

ReadingsWith(rows, start, end) ==
  [t \in CarriedIn(rows, start)
           \cup {u \in DOMAIN rows : start <= u /\ u < end /\ rows[u] \in Readings} |-> rows[t]]

\* The sensor reports a state, or does not, and the instant passes.
Report(v) ==
  /\ now < MaxTime
  /\ v \in Reported[now]
  /\ states' = IF v = Nothing THEN states ELSE Put(states, now, v)
  /\ now' = now + 1
  /\ UNCHANGED <<compiled, short, hourly, audit>>

\* The recorder purges what is older than its keep-days: states and
\* short-term rows, never hourly ones.
Purge(cut) ==
  /\ \E t \in DOMAIN states : t < cut
  /\ cut <= compiled
  /\ states' = Within(states, cut, MaxTime)
  /\ short' = Within(short, cut, MaxTime)
  /\ UNCHANGED <<now, compiled, hourly, audit>>

=============================================================================
