-------------------------- MODULE AdapterRequests --------------------------
(***************************************************************************)
(* What the three adapters have in common: the rows of the two tables a    *)
(* correction is about, the requests an adapter is given, and the reads    *)
(* with which it decides what a request comes to.                          *)
(***************************************************************************)
EXTENDS Tables, FiniteSets

CONSTANTS
  Rows,           \* primary keys of states; the recorder writes in time order
  Entities,
  EntityOf,       \* the entity a states row belongs to
  Values,         \* contents of states.state
  Numeric,        \* those validate_new_value accepts
  Requests,       \* what users ask for
  MaxBulkRows,    \* hr_db.MAX_BULK_ROWS
  MaxId,          \* bound on the audit table's AUTO_INCREMENT
  Absent, NoAudit, AnyValue, Interpolate

Ids == 1..MaxId

AuditRow == [row: Rows, orig: Values, corrected: Numeric,
             restored: BOOLEAN, dismissed: BOOLEAN]

ApplyRequest == [kind: {"apply"}, entity: Entities, row: Rows,
                 expected: Values \cup {AnyValue}, new: Numeric]
BulkRequest  == [kind: {"bulk"}, entity: Entities, range: SUBSET Rows,
                 new: Numeric \cup {Interpolate}]
UndoRequest  == [kind: {"restore", "dismiss"}, id: Ids]

ASSUME RowsAssumption == Rows \subseteq Nat /\ IsFiniteSet(Rows)
ASSUME EntityOfAssumption == EntityOf \in [Rows -> Entities]
ASSUME ValuesAssumption ==
  /\ Numeric \subseteq Values
  /\ Absent \notin Values
  /\ Interpolate \notin Numeric
  /\ NoAudit \notin AuditRow
ASSUME RequestsAssumption == Requests \subseteq ApplyRequest \cup BulkRequest \cup UndoRequest
ASSUME BoundsAssumption == MaxId \in Nat /\ MaxBulkRows \in Nat

-----------------------------------------------------------------------------
Cell == Values \cup {Absent}

RowsOf(e) == {r \in Rows : EntityOf[r] = e}

Recorded(tables, i) == tables.audit[i] # NoAudit
Active(tables, i) == Recorded(tables, i) /\ ~tables.audit[i].restored

-----------------------------------------------------------------------------
\* The rows a request will want audit ids for.
RowsToCorrect(q) ==
  CASE q.kind = "apply" -> {q.row} [] q.kind = "bulk" -> q.range [] OTHER -> {}

\* Mutant: already_corrected is not looked at.
AllInRange(tables, q) == {r \in q.range \cap RowsOf(q.entity) : tables.states[r] # Absent}

\* apply_bulk_correction reads its range with plain SELECTs: the rows there,
\* less those with a correction that has not been restored.
BulkTargets(tables, q) ==
  {r \in q.range \cap RowsOf(q.entity) :
     /\ tables.states[r] # Absent
     /\ \A i \in Ids : Active(tables, i) => tables.audit[i].row # r}

\* Interpolation needs a reading on both sides of the range that is not
\* unknown or unavailable, and a number; here every such reading is one.
Anchored(tables, q) ==
  LET numeric == {r \in RowsOf(q.entity) : tables.states[r] \in Numeric}
  IN  /\ \E r \in numeric : \A s \in q.range : r < s
      /\ \E r \in numeric : \A s \in q.range : r > s

\* The range is refused when it is too long or cannot be interpolated.
BulkRefused(tables, q) ==
  \/ Cardinality(BulkTargets(tables, q)) > MaxBulkRows
  \/ q.new = Interpolate /\ ~Anchored(tables, q)

\* The values a bulk correction may give its rows: any at all when they are
\* interpolated.
BulkPlans(tables, q) ==
  {new \in [BulkTargets(tables, q) -> Numeric] :
     q.new # Interpolate => \A r \in DOMAIN new : new[r] = q.new}

\* Mutant: neither the row nor the value the caller expects is checked.
RowOfEntity(tables, q, r) == EntityOf[r] = q.entity

\* What the row says against what the caller was told.
RowAccepted(tables, q, r) ==
  /\ tables.states[r] # Absent
  /\ EntityOf[r] = q.entity
  /\ q.kind = "apply" => q.expected \in {AnyValue, tables.states[r]}

\* The audit row of a correction.
NewEntry(tables, r, new) ==
  [row |-> r, orig |-> tables.states[r], corrected |-> new, restored |-> FALSE, dismissed |-> FALSE]

=============================================================================
