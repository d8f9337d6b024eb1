----------------------- MODULE CorrectionLedger_proofs -----------------------
(***************************************************************************)
(* The ledger's invariants, for any number of rows, values and corrections.*)
(***************************************************************************)
EXTENDS CorrectionLedger, FiniteSetTheorems, TLAPS

(***************************************************************************)
(* The tables always hold what their columns allow.                        *)
(***************************************************************************)
LEMMA InitTypeOK == Init => TypeOK
  BY DEF Init, TypeOK

LEMMA NextTypeOK == TypeOK /\ [Next]_vars => TypeOK'
<1> SUFFICES ASSUME TypeOK, [Next]_vars PROVE TypeOK'
  OBVIOUS
<1> USE DEF TypeOK
<1>1. ASSUME NEW D \in SUBSET Unused, NEW at \in Injections(D, Present),
             NEW new \in [D -> Numeric], Correct(D, at, new)
      PROVE  TypeOK'
  <2>1. D \subseteq Ids /\ at \in [D -> Rows] /\ \A i \in D : states[at[i]] \in Values
    BY <1>1 DEF Unused, Injections, Present
  <2>2. \A i \in D : NewEntry(at[i], states[at[i]], new[i]) \in AuditRow
    BY <2>1, <1>1 DEF NewEntry, AuditRow
  <2>3. audit' \in [Ids -> AuditRow \cup {NoAudit}]
    BY <2>2, <1>1 DEF Correct
  <2>4. states' \in [Rows -> Values \cup {Absent}]
    <3> SUFFICES ASSUME NEW r \in Rows, \E i \in D : at[i] = r
                 PROVE  new[CHOOSE i \in D : at[i] = r] \in Values
      BY <1>1 DEF Correct
    <3> QED
      BY <1>1, ValuesAssumption
  <2> QED
    BY <2>3, <2>4, <1>1 DEF Correct
<1>2. ASSUME NEW i \in Ids, Restore(i) PROVE TypeOK'
  <2>1. audit[i] \in AuditRow
    BY <1>2 DEF Restore, Active, Recorded
  <2>2. [audit[i] EXCEPT !.restored = TRUE] \in AuditRow
    BY <2>1 DEF AuditRow
  <2> QED
    BY <1>2, <2>1, <2>2 DEF Restore, AuditRow
<1>3. ASSUME NEW i \in Ids, Dismiss(i) PROVE TypeOK'
  <2>1. audit[i] \in AuditRow
    BY <1>3 DEF Dismiss, Active, Recorded
  <2>2. [audit[i] EXCEPT !.dismissed = TRUE] \in AuditRow
    BY <2>1 DEF AuditRow
  <2> QED
    BY <1>3, <2>2 DEF Dismiss
<1>4. ASSUME NEW r \in Rows, Purge(r) PROVE TypeOK'
  BY <1>4 DEF Purge
<1>5. ASSUME NEW r \in Rows, NEW v \in Values, Overwrite(r, v) PROVE TypeOK'
  BY <1>5 DEF Overwrite
<1>6. CASE UNCHANGED vars
  BY <1>6 DEF vars
<1> QED
  BY <1>1, <1>2, <1>3, <1>4, <1>5, <1>6 DEF Next

THEOREM TypeCorrect == Spec => []TypeOK
  BY InitTypeOK, NextTypeOK, PTL DEF Spec

-----------------------------------------------------------------------------
(***************************************************************************)
(* Edges can be counted.                                                   *)
(***************************************************************************)
LEMMA EdgesFinite ==
  ASSUME NEW r, NEW x
  PROVE  /\ IsFiniteSet(Into(r, x)) /\ Cardinality(Into(r, x)) \in Nat
         /\ IsFiniteSet(OutOf(r, x)) /\ Cardinality(OutOf(r, x)) \in Nat
<1>1. IsFiniteSet(Ids)
  BY MaxIdAssumption, FS_Interval DEF Ids
<1>2. Into(r, x) \in SUBSET Ids /\ OutOf(r, x) \in SUBSET Ids
  BY DEF Into, OutOf
<1> QED
  BY <1>1, <1>2, FS_Subset, FS_CardinalityType

LEMMA OneIsInt == \A p \in BOOLEAN : One(p) \in Int
  BY DEF One

-----------------------------------------------------------------------------
(***************************************************************************)
(* Balance is inductive.  A step that leaves a row's value and its edges   *)
(* alone leaves its balance alone.                                         *)
(***************************************************************************)
LEMMA BalanceInit == Init => Balance
<1> SUFFICES ASSUME Init, NEW r \in Rows, NEW x \in Values
             PROVE  Cardinality(Into(r, x)) + One(x = recorded[r])
                      = Cardinality(OutOf(r, x)) + One(x = states[r])
  BY DEF Balance
<1>1. Into(r, x) = {} /\ OutOf(r, x) = {}
  BY DEF Init, Into, OutOf, Active, Recorded
<1> QED
  BY <1>1 DEF Init

LEMMA BalanceNext == TypeOK /\ Balance /\ [Next]_vars => Balance'
<1> SUFFICES ASSUME TypeOK, Balance, [Next]_vars, NEW r \in Rows, OwnRow(r)', NEW x \in Values
             PROVE  Cardinality(Into(r, x)') + One(x = recorded'[r])
                      = Cardinality(OutOf(r, x)') + One(x = states'[r])
  BY DEF Balance
<1>a. recorded' = recorded
  BY DEF Next, vars, Correct, Restore, Dismiss, Purge, Overwrite
<1>b. OwnRow(r) => Cardinality(Into(r, x)) + One(x = recorded[r])
                     = Cardinality(OutOf(r, x)) + One(x = states[r])
  BY DEF Balance
<1>c. /\ IsFiniteSet(Into(r, x)) /\ IsFiniteSet(OutOf(r, x))
      /\ One(x = recorded[r]) \in Int
      /\ Cardinality(Into(r, x)) \in Nat /\ Cardinality(OutOf(r, x)) \in Nat
  BY EdgesFinite, OneIsInt
<1>1. ASSUME NEW D \in SUBSET Unused, NEW at \in Injections(D, Present),
             NEW new \in [D -> Numeric], Correct(D, at, new)
      PROVE  Cardinality(Into(r, x)') + One(x = recorded'[r])
               = Cardinality(OutOf(r, x)') + One(x = states'[r])
  <2>0. /\ D \subseteq Ids /\ at \in [D -> Rows]
        /\ \A i \in D : ~Recorded(i) /\ states[at[i]] # Absent
        /\ \A i, j \in D : at[i] = at[j] => i = j
    BY <1>1 DEF Unused, Injections, Present
  <2>1. \A i \in Ids : audit'[i] = IF i \in D THEN NewEntry(at[i], states[at[i]], new[i])
                                              ELSE audit[i]
    BY <1>1 DEF Correct
  <2>2. \A i \in D : audit'[i] # NoAudit
    <3> SUFFICES ASSUME NEW i \in D PROVE NewEntry(at[i], states[at[i]], new[i]) \in AuditRow
      BY <2>0, <2>1, NoAuditAssumption
    <3> QED
      BY <2>0 DEF NewEntry, AuditRow, TypeOK
  <2>a. \A i \in D : /\ Active(i)' /\ ~Active(i)
                    /\ audit'[i].row = at[i]
                    /\ audit'[i].orig = states[at[i]]
                    /\ audit'[i].corrected = new[i]
    <3> SUFFICES ASSUME NEW i \in D
                 PROVE  /\ Active(i)' /\ ~Active(i)
                        /\ audit'[i].row = at[i]
                        /\ audit'[i].orig = states[at[i]]
                        /\ audit'[i].corrected = new[i]
      OBVIOUS
    <3>1. audit'[i] = [row |-> at[i], orig |-> states[at[i]], corrected |-> new[i],
                       restored |-> FALSE, dismissed |-> FALSE]
      BY <2>0, <2>1 DEF NewEntry
    <3>2. audit'[i].restored = FALSE
      BY <3>1
    <3>3. audit'[i] # NoAudit
      BY <2>2
    <3>4. ~Active(i) /\ Active(i)'
      BY <2>0, <3>2, <3>3 DEF Active, Recorded
    <3> QED
      BY <3>1, <3>4
  <2>b. \A i \in Ids \ D : (Active(i)' <=> Active(i)) /\ audit'[i] = audit[i]
    BY <2>1 DEF Active, Recorded
  <2>3. CASE \E k \in D : at[k] = r
    <3>1. PICK k \in D : at[k] = r
      BY <2>3
    <3>2. states'[r] = new[k]
      BY <3>1, <2>0, <1>1 DEF Correct
    <3>3. OwnRow(r)
      BY <3>1, <2>0, <1>1 DEF OwnRow, Correct
    <3>4. Into(r, x)' = IF x = new[k] THEN Into(r, x) \cup {k} ELSE Into(r, x)
      BY <3>1, <2>0, <2>a, <2>b DEF Into
    <3>5. OutOf(r, x)' = IF x = states[r] THEN OutOf(r, x) \cup {k} ELSE OutOf(r, x)
      BY <3>1, <2>0, <2>a, <2>b DEF OutOf
    <3>6. k \notin Into(r, x) /\ k \notin OutOf(r, x)
      BY <2>0 DEF Into, OutOf, Active
    <3>7. /\ Cardinality(Into(r, x)') = Cardinality(Into(r, x)) + One(x = new[k])
          /\ Cardinality(OutOf(r, x)') = Cardinality(OutOf(r, x)) + One(x = states[r])
      <4>1. /\ Cardinality(Into(r, x) \cup {k}) = Cardinality(Into(r, x)) + 1
            /\ Cardinality(OutOf(r, x) \cup {k}) = Cardinality(OutOf(r, x)) + 1
        BY <1>c, <3>6, FS_AddElement
      <4> QED
        BY <1>c, <3>4, <3>5, <4>1 DEF One
    <3> QED
      BY <1>a, <1>b, <1>c, <3>2, <3>3, <3>7 DEF One
  <2>4. CASE ~\E k \in D : at[k] = r
    <3>1. states'[r] = states[r]
      BY <2>4, <1>1 DEF Correct
    <3>2. OwnRow(r)
      BY <3>1, <1>1 DEF OwnRow, Correct
    <3>3. Into(r, x)' = Into(r, x) /\ OutOf(r, x)' = OutOf(r, x)
      BY <2>4, <2>0, <2>a, <2>b DEF Into, OutOf
    <3> QED
      BY <1>a, <1>b, <3>1, <3>2, <3>3
  <2> QED
    BY <2>3, <2>4
<1>2. ASSUME NEW k \in Ids, Restore(k)
      PROVE  Cardinality(Into(r, x)') + One(x = recorded'[r])
               = Cardinality(OutOf(r, x)') + One(x = states'[r])
  <2>0. audit[k] \in AuditRow /\ audit[k] # NoAudit /\ Active(k)
    BY <1>2 DEF Restore, Active, Recorded, TypeOK
  <2>1. /\ audit'[k] = [audit[k] EXCEPT !.restored = TRUE]
        /\ \A i \in Ids \ {k} : audit'[i] = audit[i]
    BY <1>2 DEF Restore, TypeOK
  <2>2. ~Active(k)' /\ \A i \in Ids \ {k} : Active(i)' <=> Active(i)
    BY <2>0, <2>1 DEF Active, Recorded, AuditRow
  <2>3. Into(r, x)' = Into(r, x) \ {k} /\ OutOf(r, x)' = OutOf(r, x) \ {k}
    BY <2>1, <2>2 DEF Into, OutOf
  <2>4. CASE audit[k].row = r
    <3>1. states[r] = audit[k].corrected /\ states'[r] = audit[k].orig
      BY <2>4, <1>2 DEF Restore, TypeOK
    <3>2. /\ k \in Into(r, x) <=> x = states[r]
          /\ k \in OutOf(r, x) <=> x = states'[r]
      BY <2>0, <2>4, <3>1 DEF Into, OutOf
    <3>3. OwnRow(r)
      BY <3>1, <2>0, <1>2, ValuesAssumption DEF OwnRow, Restore, AuditRow
    <3>4. /\ Cardinality(Into(r, x)') = Cardinality(Into(r, x)) - One(x = states[r])
          /\ Cardinality(OutOf(r, x)') = Cardinality(OutOf(r, x)) - One(x = states'[r])
      <4>1. /\ Cardinality(Into(r, x) \ {k})
                 = IF k \in Into(r, x) THEN Cardinality(Into(r, x)) - 1
                                       ELSE Cardinality(Into(r, x))
            /\ Cardinality(OutOf(r, x) \ {k})
                 = IF k \in OutOf(r, x) THEN Cardinality(OutOf(r, x)) - 1
                                        ELSE Cardinality(OutOf(r, x))
        BY <1>c, FS_RemoveElement
      <4> QED
        BY <1>c, <2>3, <3>2, <4>1 DEF One
    <3> QED
      BY <1>a, <1>b, <1>c, <3>3, <3>4 DEF One
  <2>5. CASE audit[k].row # r
    <3>1. states'[r] = states[r]
      BY <2>5, <1>2 DEF Restore, TypeOK
    <3>2. OwnRow(r)
      BY <3>1, <1>2 DEF OwnRow, Restore
    <3>3. k \notin Into(r, x) /\ k \notin OutOf(r, x)
      BY <2>5 DEF Into, OutOf
    <3> QED
      BY <1>a, <1>b, <2>3, <3>1, <3>2, <3>3
  <2> QED
    BY <2>4, <2>5
<1>3. ASSUME NEW k \in Ids, Dismiss(k)
      PROVE  Cardinality(Into(r, x)') + One(x = recorded'[r])
               = Cardinality(OutOf(r, x)') + One(x = states'[r])
  <2>0. audit[k] \in AuditRow /\ audit[k] # NoAudit
    BY <1>3 DEF Dismiss, Active, Recorded, TypeOK
  <2>1. /\ audit'[k] = [audit[k] EXCEPT !.dismissed = TRUE]
        /\ \A i \in Ids \ {k} : audit'[i] = audit[i]
    BY <1>3 DEF Dismiss, TypeOK
  <2>2. audit'[k] \in AuditRow
    BY <2>0, <2>1 DEF AuditRow
  <2>3. Into(r, x)' = Into(r, x) /\ OutOf(r, x)' = OutOf(r, x)
    BY <2>0, <2>1, <2>2, NoAuditAssumption DEF Into, OutOf, Active, Recorded, AuditRow
  <2> QED
    BY <1>3, <1>a, <1>b, <2>3 DEF Dismiss, OwnRow
<1>4. ASSUME NEW s \in Rows, Purge(s)
      PROVE  Cardinality(Into(r, x)') + One(x = recorded'[r])
               = Cardinality(OutOf(r, x)') + One(x = states'[r])
  <2>1. states'[r] = states[r] /\ OwnRow(r)
    BY <1>4 DEF Purge, OwnRow, TypeOK
  <2>2. Into(r, x)' = Into(r, x) /\ OutOf(r, x)' = OutOf(r, x)
    BY <1>4 DEF Purge, Into, OutOf, Active, Recorded
  <2> QED
    BY <1>a, <1>b, <2>1, <2>2
<1>5. ASSUME NEW s \in Rows, NEW v \in Values, Overwrite(s, v)
      PROVE  Cardinality(Into(r, x)') + One(x = recorded'[r])
               = Cardinality(OutOf(r, x)') + One(x = states'[r])
  <2>1. states'[r] = states[r] /\ OwnRow(r)
    BY <1>5 DEF Overwrite, OwnRow, TypeOK
  <2>2. Into(r, x)' = Into(r, x) /\ OutOf(r, x)' = OutOf(r, x)
    BY <1>5 DEF Overwrite, Into, OutOf, Active, Recorded
  <2> QED
    BY <1>a, <1>b, <2>1, <2>2
<1>6. CASE UNCHANGED vars
  <2>1. Into(r, x)' = Into(r, x) /\ OutOf(r, x)' = OutOf(r, x) /\ OwnRow(r)
    BY <1>6 DEF vars, Into, OutOf, Active, Recorded, OwnRow
  <2> QED
    BY <1>6, <1>b, <2>1 DEF vars
<1> QED
  BY <1>1, <1>2, <1>3, <1>4, <1>5, <1>6 DEF Next

(***************************************************************************)
(* Every row's active corrections form a path from what the recorder wrote *)
(* to what the row holds.                                                  *)
(***************************************************************************)
THEOREM BalanceHolds == Spec => []Balance
  BY InitTypeOK, NextTypeOK, BalanceInit, BalanceNext, PTL DEF Spec

-----------------------------------------------------------------------------
(***************************************************************************)
(* There is no change without its record: a value the recorder did not     *)
(* write is entered once more often than it is left, so by some active     *)
(* correction.                                                             *)
(***************************************************************************)
LEMMA BalanceRecordsChanges == TypeOK /\ Balance => EveryChangeOnRecord
<1> SUFFICES ASSUME TypeOK, Balance, NEW r \in Rows, OwnRow(r), states[r] # recorded[r]
             PROVE  Into(r, states[r]) # {}
  BY DEF EveryChangeOnRecord, Into
<1>1. states[r] \in Values
  BY DEF TypeOK, OwnRow
<1>2. Cardinality(Into(r, states[r])) = Cardinality(OutOf(r, states[r])) + 1
  <2>1. /\ One(states[r] = recorded[r]) = 0 /\ One(states[r] = states[r]) = 1
        /\ Cardinality(Into(r, states[r])) \in Nat
        /\ Cardinality(OutOf(r, states[r])) \in Nat
    BY EdgesFinite DEF One
  <2>2. Cardinality(Into(r, states[r])) + One(states[r] = recorded[r])
          = Cardinality(OutOf(r, states[r])) + One(states[r] = states[r])
    BY <1>1 DEF Balance
  <2> QED
    BY <2>1, <2>2
<1> QED
  <2>1. Cardinality(Into(r, states[r])) # 0
    BY <1>2, EdgesFinite
  <2> QED
    BY <2>1, FS_EmptySet

THEOREM ChangesAreRecorded == Spec => []EveryChangeOnRecord
  BY TypeCorrect, BalanceHolds, BalanceRecordsChanges, PTL

(***************************************************************************)
(* Every correction undone leaves what the recorder wrote: with no edges   *)
(* left, the path that starts at the recorded value also ends there.       *)
(***************************************************************************)
LEMMA BalanceUndoes == TypeOK /\ Balance => UndoneIsOriginal
<1> SUFFICES ASSUME TypeOK, Balance, NEW r \in Rows, OwnRow(r),
                    \A i \in Ids : Recorded(i) /\ audit[i].row = r => audit[i].restored
             PROVE  states[r] = recorded[r]
  BY DEF UndoneIsOriginal
<1>1. states[r] \in Values
  BY DEF TypeOK, OwnRow
<1>2. Into(r, states[r]) = {} /\ OutOf(r, states[r]) = {}
  BY DEF Into, OutOf, Active
<1>3. One(states[r] = recorded[r]) = 1
  <2>1. Cardinality({}) + One(states[r] = recorded[r])
          = Cardinality({}) + One(states[r] = states[r])
    BY <1>1, <1>2 DEF Balance
  <2>2. Cardinality({}) = 0
    BY FS_EmptySet
  <2> QED
    BY <2>1, <2>2 DEF One
<1> QED
  BY <1>3 DEF One

THEOREM UndoingRestoresOriginals == Spec => []UndoneIsOriginal
  BY TypeCorrect, BalanceHolds, BalanceUndoes, PTL

(***************************************************************************)
(* An orphan on a row nobody else touched is not the row's only            *)
(* correction: were it, the path would be that one edge and end where the  *)
(* correction ended.                                                       *)
(***************************************************************************)
LEMMA BalanceExplainsOrphans == TypeOK /\ Balance => OrphanIsExplained
<1> SUFFICES ASSUME TypeOK, Balance, NEW i \in Ids, Orphaned(i), OwnRow(audit[i].row),
                    audit[i].orig # audit[i].corrected,
                    \A j \in Ids \ {i} : ~(Recorded(j) /\ audit[j].row = audit[i].row)
             PROVE  FALSE
  BY DEF OrphanIsExplained
<1> DEFINE r == audit[i].row
           x == audit[i].corrected
<1>1. Active(i) /\ audit[i] \in AuditRow
  BY DEF Orphaned, Active, Recorded, TypeOK
<1>2. r \in Rows /\ x \in Values
  BY <1>1, ValuesAssumption DEF AuditRow
<1>3. Into(r, x) = {i} /\ OutOf(r, x) = {}
  BY <1>1 DEF Into, OutOf, Active
<1>4. Cardinality({i}) = 1 /\ Cardinality({}) = 0
  BY FS_Singleton, FS_EmptySet
<1>5. 1 + One(x = recorded[r]) = 0 + One(x = states[r])
  BY <1>2, <1>3, <1>4 DEF Balance
<1>6. x = states[r]
  BY <1>5 DEF One
<1> QED
  BY <1>6 DEF Orphaned

THEOREM OrphansAreExplained == Spec => []OrphanIsExplained
  BY TypeCorrect, BalanceHolds, BalanceExplainsOrphans, PTL

-----------------------------------------------------------------------------
(***************************************************************************)
(* The audit trail only grows: what a row says happened stays, a restore   *)
(* and a dismissal are final, and nothing is restored twice.               *)
(***************************************************************************)
KeepsHistory(i) ==
  Recorded(i) =>
    /\ audit'[i] # NoAudit
    /\ \A f \in {"row", "orig", "corrected"} : audit'[i][f] = audit[i][f]
    /\ audit[i].restored => audit'[i] = audit[i]
    /\ audit[i].dismissed => audit'[i].dismissed

LEMMA StepKeepsHistory == TypeOK /\ [Next]_vars => \A i \in Ids : KeepsHistory(i)
<1> SUFFICES ASSUME TypeOK, [Next]_vars, NEW i \in Ids, Recorded(i)
             PROVE  KeepsHistory(i)
  BY DEF KeepsHistory
<1>0. audit[i] \in AuditRow /\ audit[i] # NoAudit
  BY DEF TypeOK, Recorded
<1>1. CASE audit'[i] = audit[i]
  BY <1>0, <1>1 DEF KeepsHistory
<1>2. CASE Restore(i)
  <2>1. audit'[i] = [audit[i] EXCEPT !.restored = TRUE] /\ ~audit[i].restored
    BY <1>2 DEF Restore, Active, TypeOK
  <2>2. audit'[i] \in AuditRow /\ audit'[i].dismissed = audit[i].dismissed
    BY <1>0, <2>1 DEF AuditRow
  <2>3. \A f \in {"row", "orig", "corrected"} : audit'[i][f] = audit[i][f]
    BY <1>0, <2>1 DEF AuditRow
  <2> QED
    BY <2>1, <2>2, <2>3, NoAuditAssumption DEF KeepsHistory
<1>3. CASE Dismiss(i)
  <2>1. audit'[i] = [audit[i] EXCEPT !.dismissed = TRUE] /\ ~audit[i].restored
    BY <1>3 DEF Dismiss, Active, TypeOK
  <2>2. audit'[i] \in AuditRow /\ audit'[i].dismissed
    BY <1>0, <2>1 DEF AuditRow
  <2>3. \A f \in {"row", "orig", "corrected"} : audit'[i][f] = audit[i][f]
    BY <1>0, <2>1 DEF AuditRow
  <2> QED
    BY <2>1, <2>2, <2>3, NoAuditAssumption DEF KeepsHistory
<1>4. ASSUME NEW D \in SUBSET Unused, NEW at, NEW new, Correct(D, at, new)
      PROVE  audit'[i] = audit[i]
  BY <1>4 DEF Correct, Unused
<1>5. ASSUME NEW k \in Ids \ {i}, Restore(k) \/ Dismiss(k) PROVE audit'[i] = audit[i]
  BY <1>5 DEF Restore, Dismiss, TypeOK
<1>6. ASSUME NEW r, NEW v, Purge(r) \/ Overwrite(r, v) PROVE audit'[i] = audit[i]
  BY <1>6 DEF Purge, Overwrite
<1>7. CASE UNCHANGED vars
  BY <1>1, <1>7 DEF vars
<1> QED
  BY <1>1, <1>2, <1>3, <1>4, <1>5, <1>6, <1>7 DEF Next

THEOREM AuditTrailIsHistory == Spec => AuditIsHistory
<1>1. TypeOK /\ [Next]_vars => [\A i \in Ids : KeepsHistory(i)]_vars
  BY StepKeepsHistory
<1>2. QED
  BY <1>1, TypeCorrect, PTL DEF Spec, AuditIsHistory, KeepsHistory

=============================================================================
