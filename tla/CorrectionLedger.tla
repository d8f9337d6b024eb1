-------------------------- MODULE CorrectionLedger --------------------------
(***************************************************************************)
(* What a database adapter promises about corrections, with every write    *)
(* transaction reduced to one atomic step: the states table, the audit     *)
(* table state_corrections, and the five ways they change.  The MariaDB    *)
(* and PostgreSQL adapters (CorrectionTxn) and the SQLite adapter          *)
(* (SqliteCorrections) are shown to implement it.                          *)
(*                                                                         *)
(* A value of states.state is a member of Values; the corrections the      *)
(* service layer lets through are members of Numeric (the original may     *)
(* well be 'unavailable').  A states row is named by its primary key.      *)
(***************************************************************************)
EXTENDS Integers, FiniteSets

CONSTANTS Rows,      \* the states rows the recorder has written
          Values,    \* contents of states.state
          Numeric,   \* those validate_new_value accepts
          MaxId,     \* bound on the audit table's AUTO_INCREMENT
          Absent,    \* a states row the recorder has purged
          NoAudit    \* an audit id that holds no row

ASSUME ValuesAssumption == Numeric \subseteq Values /\ Absent \notin Values
ASSUME MaxIdAssumption == MaxId \in Nat

Ids == 1..MaxId

\* One row of state_corrections: the columns that decide what a restore, a
\* dismissal or the orphan check does with it.
AuditRow == [row: Rows, orig: Values, corrected: Numeric,
             restored: BOOLEAN, dismissed: BOOLEAN]

ASSUME NoAuditAssumption == NoAudit \notin AuditRow

VARIABLES states,    \* [Rows -> Values \cup {Absent}]: the states table
          audit,     \* [Ids -> AuditRow \cup {NoAudit}]: state_corrections
          recorded,  \* history: what the recorder originally wrote in each row
          foreign    \* history: rows somebody other than the add-on rewrote

vars == <<states, audit, recorded, foreign>>

TypeOK ==
  /\ states \in [Rows -> Values \cup {Absent}]
  /\ audit \in [Ids -> AuditRow \cup {NoAudit}]
  /\ recorded \in [Rows -> Values]
  /\ foreign \subseteq Rows

Init ==
  /\ recorded \in [Rows -> Values]
  /\ states = recorded
  /\ audit = [i \in Ids |-> NoAudit]
  /\ foreign = {}

-----------------------------------------------------------------------------
Recorded(i) == audit[i] # NoAudit

\* restored_at IS NULL: what the audit list calls an active correction.
Active(i) == Recorded(i) /\ ~audit[i].restored

\* Mutant: the audit row is built after the UPDATE, from the value just written.
EntryOfWrittenRow(r, old, new) ==
  [row |-> r, orig |-> new, corrected |-> new, restored |-> FALSE, dismissed |-> FALSE]

NewEntry(r, old, new) ==
  [row |-> r, orig |-> old, corrected |-> new, restored |-> FALSE, dismissed |-> FALSE]

Unused == {i \in Ids : ~Recorded(i)}

\* Mutant: an UPDATE that matches no row goes unnoticed.
AnyRow == Rows

Present == {r \in Rows : states[r] # Absent}

Injections(S, T) == {f \in [S -> T] : \A a, b \in S : f[a] = f[b] => a = b}

\* A correction (one row) or a bulk correction (several): the distinct rows
\* at[i], i \in D, get the values new[i], each with its own audit row.
Correct(D, at, new) ==
  /\ audit' = [i \in Ids |-> IF i \in D THEN NewEntry(at[i], states[at[i]], new[i])
                                        ELSE audit[i]]
  /\ states' = [r \in Rows |-> IF \E i \in D : at[i] = r
                                 THEN new[CHOOSE i \in D : at[i] = r]
                                 ELSE states[r]]
  /\ UNCHANGED <<recorded, foreign>>

\* Mutant: the original is written back over whatever the row holds.
RestoreBlindly(i) ==
  /\ Active(i)
  /\ states[audit[i].row] # Absent
  /\ states' = [states EXCEPT ![audit[i].row] = audit[i].orig]
  /\ audit' = [audit EXCEPT ![i].restored = TRUE]
  /\ UNCHANGED <<recorded, foreign>>

\* Mutant: restored_at is never stamped.
RestoreUnmarked(i) ==
  /\ Active(i)
  /\ states[audit[i].row] = audit[i].corrected
  /\ states' = [states EXCEPT ![audit[i].row] = audit[i].orig]
  /\ UNCHANGED <<audit, recorded, foreign>>

\* restore_correction: refused unless the row still holds the corrected value.
Restore(i) ==
  /\ Active(i)
  /\ states[audit[i].row] = audit[i].corrected
  /\ states' = [states EXCEPT ![audit[i].row] = audit[i].orig]
  /\ audit' = [audit EXCEPT ![i].restored = TRUE]
  /\ UNCHANGED <<recorded, foreign>>

\* Mutant: restored_at is not looked at.
DismissAny(i) ==
  /\ Recorded(i)
  /\ ~audit[i].dismissed
  /\ audit' = [audit EXCEPT ![i].dismissed = TRUE]
  /\ UNCHANGED <<states, recorded, foreign>>

\* dismiss_correction: acknowledges an orphan without touching states.
Dismiss(i) ==
  /\ Active(i)
  /\ ~audit[i].dismissed
  /\ audit' = [audit EXCEPT ![i].dismissed = TRUE]
  /\ UNCHANGED <<states, recorded, foreign>>

\* The recorder's purge deletes a states row; its state_id is never reused.
Purge(r) ==
  /\ states[r] # Absent
  /\ states' = [states EXCEPT ![r] = Absent]
  /\ UNCHANGED <<audit, recorded, foreign>>

\* A backup restored over the states table, or another tool, rewrites a row.
Overwrite(r, v) ==
  /\ states[r] # Absent
  /\ states' = [states EXCEPT ![r] = v]
  /\ foreign' = foreign \cup {r}
  /\ UNCHANGED <<audit, recorded>>

Next ==
  \/ \E D \in (SUBSET Unused) \ {{}} :
       \E at \in Injections(D, Present), new \in [D -> Numeric] : Correct(D, at, new)
  \/ \E i \in Ids : Restore(i) \/ Dismiss(i)
  \/ \E r \in Rows : Purge(r) \/ \E v \in Values : Overwrite(r, v)

Spec == Init /\ [][Next]_vars

-----------------------------------------------------------------------------
\* find_orphaned_corrections: active, not dismissed, and the states row is
\* gone or no longer holds the corrected value.
Orphaned(i) ==
  /\ Active(i)
  /\ ~audit[i].dismissed
  /\ states[audit[i].row] # audit[i].corrected

\* The rows about which the add-on's own records must tell the whole story.
OwnRow(r) == r \notin foreign /\ states[r] # Absent

\* Seen as a graph on values, an active correction of r is an edge from the
\* value it replaced to the value it wrote.
Into(r, x)  == {i \in Ids : Active(i) /\ audit[i].row = r /\ audit[i].corrected = x}
OutOf(r, x) == {i \in Ids : Active(i) /\ audit[i].row = r /\ audit[i].orig = x}

One(p) == IF p THEN 1 ELSE 0

(***************************************************************************)
(* The active corrections of a row nobody else rewrote always form a path  *)
(* from the value the recorder wrote to the value the row holds, whatever  *)
(* order corrections and restores came in: every value is entered as often *)
(* as it is left, counting the recorder as an entry and the current value  *)
(* as an exit.  This is the inductive invariant of the ledger.             *)
(***************************************************************************)
Balance ==
  \A r \in Rows : OwnRow(r) =>
    \A x \in Values :
      Cardinality(Into(r, x)) + One(x = recorded[r])
        = Cardinality(OutOf(r, x)) + One(x = states[r])

(***************************************************************************)
(* ARCHITECTURE.md, section 4: "There is no window in which a change       *)
(* exists without its record."  If a row does not hold what the recorder   *)
(* wrote, and nobody else rewrote it, some correction that has not been    *)
(* restored wrote exactly the value it holds.                              *)
(***************************************************************************)
EveryChangeOnRecord ==
  \A r \in Rows : OwnRow(r) /\ states[r] # recorded[r] =>
    \E i \in Ids : Active(i) /\ audit[i].row = r /\ audit[i].corrected = states[r]

(***************************************************************************)
(* DOCS.md, "Undoing a correction": once every correction of a row has     *)
(* been restored, in whatever order the refusals allowed, the row holds    *)
(* what the recorder originally wrote.                                     *)
(***************************************************************************)
UndoneIsOriginal ==
  \A r \in Rows :
    OwnRow(r) /\ (\A i \in Ids : Recorded(i) /\ audit[i].row = r => audit[i].restored)
      => states[r] = recorded[r]

(***************************************************************************)
(* The orphan check exists to notice a restored backup.  An orphan whose   *)
(* row is still there and was rewritten by nobody else has another         *)
(* explanation: the row was corrected more than once.                      *)
(***************************************************************************)
OrphanIsExplained ==
  \A i \in Ids :
    Orphaned(i) /\ OwnRow(audit[i].row) /\ audit[i].orig # audit[i].corrected
      => \E j \in Ids \ {i} : Recorded(j) /\ audit[j].row = audit[i].row

(***************************************************************************)
(* The audit trail is a history: no step deletes an audit row, changes     *)
(* what it says happened, or takes back a restore or a dismissal; and a    *)
(* correction once restored is never restored again.                       *)
(***************************************************************************)
AuditIsHistory ==
  [][\A i \in Ids : Recorded(i) =>
       /\ audit'[i] # NoAudit
       /\ \A f \in {"row", "orig", "corrected"} : audit'[i][f] = audit[i][f]
       /\ audit[i].restored => audit'[i] = audit[i]
       /\ audit[i].dismissed => audit'[i].dismissed]_vars

=============================================================================
