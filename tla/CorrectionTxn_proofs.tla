------------------------ MODULE CorrectionTxn_proofs ------------------------
(***************************************************************************)
(* The transactions of the MariaDB and PostgreSQL adapters implement the   *)
(* ledger: for any number of threads, rows, requests and corrections,      *)
(* whichever rows FOR UPDATE locks and whatever plain reads see.  And      *)
(* wherever a bucket belongs to one transaction at a time, its statistics  *)
(* are those of its readings.                                              *)
(***************************************************************************)
EXTENDS CorrectionTxn, Tables_proofs

Correcting(c) == req[c].kind \in {"apply", "bulk"}

LEMMA RequestKinds ==
  ASSUME NEW q \in Requests
  PROVE  /\ q.kind \in {"apply", "bulk", "restore", "dismiss"}
         /\ q.kind = "apply" => q \in ApplyRequest
         /\ q.kind = "bulk" => q \in BulkRequest
         /\ q.kind \in {"restore", "dismiss"} => q \in UndoRequest
  BY RequestsAssumption DEF ApplyRequest, BulkRequest, UndoRequest

\* Where a request can be, and what it has by then.
Progress(c) ==
  /\ pc[c] = "idle" => w[c] = NoWrites /\ plan[c] = EmptyFun
  /\ pc[c] # "idle" => req[c] \in Requests
  /\ pc[c] = "bulk" => req[c].kind = "bulk" /\ w[c] = NoWrites /\ plan[c] = EmptyFun
  /\ pc[c] \in {"lock", "correct"} => Correcting(c) /\ DOMAIN plan[c] # {}
  /\ pc[c] = "correct" => owner[<<"row", NextRow(c)>>] = c
  /\ pc[c] \in {"audit", "undo"} => w[c] = NoWrites /\ plan[c] = EmptyFun
  /\ pc[c] = "audit" => req[c].kind \in {"restore", "dismiss"}
  /\ pc[c] = "undo" => /\ req[c].kind = "restore"
                       /\ owner[<<"audit", req[c].id>>] = c
                       /\ Active(db, req[c].id)
  /\ pc[c] \in {"read", "write"} =>
       \/ req[c].kind = "restore" /\ DOMAIN w[c].audit = {req[c].id} /\ plan[c] = EmptyFun
       \/ Correcting(c) /\ DOMAIN w[c].audit \ DOMAIN w[c].kept # {}
  /\ pc[c] = "write" => rebuilt[c] # None

\* What the transaction of a correction is about to commit: new audit rows,
\* each with the value its row holds until then.
CorrectionWrites(c) ==
  /\ DOMAIN plan[c] \cap DOMAIN w[c].states = {}
  /\ DOMAIN w[c].kept \subseteq DOMAIN w[c].audit
  /\ DOMAIN w[c].states = {w[c].audit[i].row : i \in DOMAIN w[c].audit}
  /\ \A i \in DOMAIN w[c].audit :
       /\ ~Recorded(db, i)
       /\ ~w[c].audit[i].restored
       /\ ~w[c].audit[i].dismissed
       /\ w[c].audit[i].orig = db.states[w[c].audit[i].row]
       /\ w[c].audit[i].corrected = w[c].states[w[c].audit[i].row]
  /\ \A i, j \in DOMAIN w[c].audit : w[c].audit[i].row = w[c].audit[j].row => i = j

\* What a restore is about to commit, once it has found the corrected value.
RestoreWrites(c) ==
  LET i == req[c].id
      entry == db.audit[i]
  IN  DOMAIN w[c].audit # {} =>
        /\ Active(db, i)
        /\ db.states[entry.row] = entry.corrected
        /\ DOMAIN w[c].audit = {i}
        /\ w[c].audit[i] = [entry EXCEPT !.restored = TRUE]
        /\ DOMAIN w[c].states = {entry.row}
        /\ w[c].states[entry.row] = entry.orig

\* What a dismissal is about to commit.
DismissWrites(c) ==
  LET i == req[c].id
  IN  DOMAIN w[c].audit # {} =>
        /\ Active(db, i)
        /\ ~db.audit[i].dismissed
        /\ DOMAIN w[c].audit = {i}
        /\ w[c].audit[i] = [db.audit[i] EXCEPT !.dismissed = TRUE]

Uncommitted(c) ==
  /\ DOMAIN w[c].audit = {} => DOMAIN w[c].states = {}
  /\ pc[c] # "idle" /\ Correcting(c) => CorrectionWrites(c)
  /\ pc[c] # "idle" /\ req[c].kind = "restore" => RestoreWrites(c)
  /\ pc[c] # "idle" /\ req[c].kind = "dismiss" => DismissWrites(c) /\ DOMAIN w[c].states = {}

FreshIds ==
  \A i \in Ids : i >= nextId => ~Recorded(db, i) /\ owner[<<"audit", i>>] = Nobody

IInv ==
  /\ TypeOK
  /\ WritesAreLocked
  /\ FreshIds
  /\ \A c \in Clients : Progress(c) /\ Uncommitted(c)

-----------------------------------------------------------------------------
(***************************************************************************)
(* Partial functions laid over one another.                                *)
(***************************************************************************)
LEMMA OverType ==
  ASSUME NEW S, NEW T, NEW U, T \subseteq U, NEW f \in PartialFun(S, T), NEW g \in [S -> U]
  PROVE  /\ Over(f, g) \in [S -> U]
         /\ \A x \in S : Over(f, g)[x] = IF x \in DOMAIN f THEN f[x] ELSE g[x]
<1>1. f \in [DOMAIN f -> T] /\ DOMAIN f \subseteq S
  BY PartialFunDef
<1> QED
  BY <1>1 DEF Over

(***************************************************************************)
(* The oldest row still to be corrected is one of them.                    *)
(***************************************************************************)
LEMMA NextRowType ==
  ASSUME TypeOK, NEW c \in Clients, DOMAIN plan[c] # {}
  PROVE  NextRow(c) \in DOMAIN plan[c] /\ NextRow(c) \in Rows
<1>1. plan[c] \in PartialFun(Rows, Numeric)
  BY DEF TypeOK
<1>2. DOMAIN plan[c] \in SUBSET Rows
  BY <1>1, PartialFunDef
<1> QED
  BY <1>2, OldestType, RowsAssumption DEF NextRow

-----------------------------------------------------------------------------
(***************************************************************************)
(* A step of one thread, or of the recorder, leaves alone what the other   *)
(* threads rely on: their own variables and the items they have locked.    *)
(***************************************************************************)
Undisturbed(d) ==
  /\ pc'[d] = pc[d] /\ req'[d] = req[d] /\ plan'[d] = plan[d]
  /\ w'[d] = w[d] /\ rebuilt'[d] = rebuilt[d]
  /\ \A x \in Resources : owner[x] = d => owner'[x] = d
  /\ \A r \in Rows : owner[<<"row", r>>] = d => db'.states[r] = db.states[r]
  /\ \A i \in Ids : owner[<<"audit", i>>] = d => db'.audit[i] = db.audit[i]

LEMMA WriteDomains ==
  ASSUME TypeOK, NEW d \in Clients
  PROVE  /\ w[d].states \in PartialFun(Rows, Values)
         /\ w[d].audit \in PartialFun(Ids, AuditRow)
         /\ w[d].stats \in PartialFun(Entities, Bucket)
         /\ w[d].kept \in PartialFun(Ids, Bucket)
         /\ DOMAIN w[d].states \subseteq Rows
         /\ DOMAIN w[d].audit \subseteq Ids
         /\ DOMAIN w[d].stats \subseteq Entities
         /\ DOMAIN w[d].kept \subseteq Ids
<1>1. w[d] \in Writes
  BY DEF TypeOK
<1>2. /\ w[d].states \in PartialFun(Rows, Values)
      /\ w[d].audit \in PartialFun(Ids, AuditRow)
      /\ w[d].stats \in PartialFun(Entities, Bucket)
      /\ w[d].kept \in PartialFun(Ids, Bucket)
  BY <1>1 DEF Writes
<1> QED
  BY <1>2, PartialFunDef

LEMMA ResourceKinds ==
  /\ \A r \in Rows : <<"row", r>> \in Resources
  /\ \A e \in Entities : <<"meta", e>> \in Resources /\ <<"stats", e>> \in Resources
  /\ \A i \in Ids : <<"audit", i>> \in Resources
  BY DEF Resources

LEMMA OthersKeep ==
  ASSUME TypeOK, NEW d \in Clients, Undisturbed(d),
         HoldsItsWrites(d), Progress(d), Uncommitted(d)
  PROVE  HoldsItsWrites(d)' /\ Progress(d)' /\ Uncommitted(d)'
<1>1. /\ DOMAIN w[d].states \subseteq Rows
      /\ DOMAIN w[d].audit \subseteq Ids
      /\ DOMAIN w[d].stats \subseteq Entities
  BY WriteDomains
<1>2. /\ pc'[d] = pc[d] /\ req'[d] = req[d] /\ plan'[d] = plan[d]
      /\ w'[d] = w[d] /\ rebuilt'[d] = rebuilt[d]
  BY DEF Undisturbed
<1>3. HoldsItsWrites(d)'
  BY <1>1, <1>2, ResourceKinds DEF HoldsItsWrites, Undisturbed
<1>4. NextRow(d)' = NextRow(d) /\ Correcting(d)' = Correcting(d)
  BY <1>2 DEF NextRow, Correcting
<1>5. CASE pc[d] = "idle"
  <2>1. Progress(d)'
    BY <1>2, <1>5 DEF Progress
  <2>2. Uncommitted(d)'
    BY <1>2, <1>5 DEF Uncommitted
  <2> QED
    BY <1>3, <2>1, <2>2
<1>6. CASE pc[d] # "idle"
  <2>1. req[d] \in Requests
    BY <1>6 DEF Progress
  <2>2. Progress(d)'
    <3>1. pc[d] = "correct" => owner'[<<"row", NextRow(d)>>] = d
      <4>1. SUFFICES ASSUME pc[d] = "correct" PROVE owner'[<<"row", NextRow(d)>>] = d
        OBVIOUS
      <4>2. DOMAIN plan[d] # {} /\ owner[<<"row", NextRow(d)>>] = d
        BY <4>1 DEF Progress
      <4>3. NextRow(d) \in Rows
        BY <4>2, NextRowType
      <4> QED
        BY <4>2, <4>3, ResourceKinds DEF Undisturbed
    <3>2. pc[d] = "undo" => owner'[<<"audit", req[d].id>>] = d /\ Active(db, req[d].id)'
      <4>1. SUFFICES ASSUME pc[d] = "undo"
                     PROVE  owner'[<<"audit", req[d].id>>] = d /\ Active(db, req[d].id)'
        OBVIOUS
      <4>2. /\ req[d].kind = "restore"
            /\ owner[<<"audit", req[d].id>>] = d
            /\ Active(db, req[d].id)
        BY <4>1 DEF Progress
      <4>3. req[d].id \in Ids
        BY <2>1, <4>2, RequestKinds DEF UndoRequest
      <4>4. db'.audit[req[d].id] = db.audit[req[d].id]
        BY <4>2, <4>3 DEF Undisturbed
      <4> QED
        BY <1>2, <4>2, <4>3, <4>4, ResourceKinds DEF Undisturbed, Active, Recorded
    <3>3. pc'[d] = "undo" => Active(db, req[d].id)'
      BY <3>2, <1>2
    <3> QED
      BY <1>2, <1>4, <3>1, <3>2, <3>3 DEF Progress
  <2>3. CorrectionWrites(d) => CorrectionWrites(d)'
    <3>1. SUFFICES ASSUME CorrectionWrites(d) PROVE CorrectionWrites(d)'
      OBVIOUS
    <3>2. \A i \in DOMAIN w[d].audit :
             /\ db'.audit[i] = db.audit[i]
             /\ db'.states[w[d].audit[i].row] = db.states[w[d].audit[i].row]
      <4>1. TAKE i \in DOMAIN w[d].audit
      <4>2. i \in Ids /\ owner[<<"audit", i>>] = d
        BY <1>1 DEF HoldsItsWrites
      <4>3. w[d].audit[i].row \in DOMAIN w[d].states
        BY <3>1 DEF CorrectionWrites
      <4>4. owner[<<"row", w[d].audit[i].row>>] = d /\ w[d].audit[i].row \in Rows
        BY <1>1, <4>3 DEF HoldsItsWrites
      <4> QED
        BY <4>2, <4>4 DEF Undisturbed
    <3>3. \A i \in DOMAIN w[d].audit : Recorded(db, i)' <=> Recorded(db, i)
      BY <3>2 DEF Recorded
    <3> QED
      BY <1>2, <3>1, <3>2, <3>3 DEF CorrectionWrites
  <2>4. req[d].kind \in {"restore", "dismiss"} /\ DOMAIN w[d].audit = {req[d].id} =>
          /\ db'.audit[req[d].id] = db.audit[req[d].id]
          /\ Active(db, req[d].id)' <=> Active(db, req[d].id)
    <3>1. SUFFICES ASSUME DOMAIN w[d].audit = {req[d].id}
                   PROVE  /\ db'.audit[req[d].id] = db.audit[req[d].id]
                          /\ Active(db, req[d].id)' <=> Active(db, req[d].id)
      OBVIOUS
    <3>2. req[d].id \in Ids /\ owner[<<"audit", req[d].id>>] = d
      BY <1>1, <3>1 DEF HoldsItsWrites
    <3>3. db'.audit[req[d].id] = db.audit[req[d].id]
      BY <3>2 DEF Undisturbed
    <3> QED
      BY <1>2, <3>3 DEF Active, Recorded
  <2>5. req[d].kind = "restore" /\ RestoreWrites(d) => RestoreWrites(d)'
    <3>1. SUFFICES ASSUME req[d].kind = "restore", RestoreWrites(d), DOMAIN w[d].audit # {}
                   PROVE  RestoreWrites(d)'
      BY <1>2 DEF RestoreWrites
    <3> DEFINE i == req[d].id
    <3>2. /\ DOMAIN w[d].audit = {i}
          /\ DOMAIN w[d].states = {db.audit[i].row}
      BY <3>1 DEF RestoreWrites
    <3>3. db.audit[i].row \in Rows /\ owner[<<"row", db.audit[i].row>>] = d
      BY <1>1, <3>2 DEF HoldsItsWrites
    <3>4. db'.states[db.audit[i].row] = db.states[db.audit[i].row]
      BY <3>3 DEF Undisturbed
    <3> QED
      BY <1>2, <2>4, <3>1, <3>2, <3>4 DEF RestoreWrites
  <2>6. req[d].kind = "dismiss" /\ DismissWrites(d) => DismissWrites(d)'
    <3>1. SUFFICES ASSUME req[d].kind = "dismiss", DismissWrites(d), DOMAIN w[d].audit # {}
                   PROVE  DismissWrites(d)'
      BY <1>2 DEF DismissWrites
    <3>2. DOMAIN w[d].audit = {req[d].id}
      BY <3>1 DEF DismissWrites
    <3> QED
      BY <1>2, <2>4, <3>1, <3>2 DEF DismissWrites
  <2>7. Uncommitted(d)'
    BY <1>2, <1>4, <1>6, <2>3, <2>5, <2>6 DEF Uncommitted
  <2> QED
    BY <1>3, <2>2, <2>7
<1> QED
  BY <1>5, <1>6

-----------------------------------------------------------------------------
(***************************************************************************)
(* What a transaction sees: its own writes over a version of the tables.   *)
(***************************************************************************)
LEMMA MergeType ==
  ASSUME TypeOK, NEW c \in Clients, NEW tables \in Db
  PROVE  Merge(w[c], tables) \in Db
<1>1. /\ w[c].states \in PartialFun(Rows, Values)
      /\ w[c].audit \in PartialFun(Ids, AuditRow)
      /\ w[c].stats \in PartialFun(Entities, Bucket)
      /\ w[c].kept \in PartialFun(Ids, Bucket)
  BY WriteDomains
<1>2. /\ tables.states \in [Rows -> Cell]
      /\ tables.audit \in [Ids -> AuditRow \cup {NoAudit}]
      /\ tables.stats \in [Entities -> Bucket]
      /\ tables.kept \in [Ids -> Bucket \cup {None}]
  BY DEF Db
<1>3. Over(w[c].states, tables.states) \in [Rows -> Cell]
  <2>1. Values \subseteq Cell
    BY DEF Cell
  <2> QED
    BY <1>1, <1>2, <2>1, OverType
<1>4. Over(w[c].audit, tables.audit) \in [Ids -> AuditRow \cup {NoAudit}]
  <2>1. AuditRow \subseteq AuditRow \cup {NoAudit}
    OBVIOUS
  <2> QED
    BY <1>1, <1>2, <2>1, OverType
<1>5. Over(w[c].stats, tables.stats) \in [Entities -> Bucket]
  BY <1>1, <1>2, OverType
<1>6. Over(w[c].kept, tables.kept) \in [Ids -> Bucket \cup {None}]
  <2> DEFINE Kept == Bucket \cup {None}
  <2>1. Bucket \subseteq Kept /\ tables.kept \in [Ids -> Kept]
    BY <1>2
  <2> HIDE DEF Kept
  <2>2. Over(w[c].kept, tables.kept) \in [Ids -> Kept]
    BY <1>1, <2>1, OverType
  <2> QED
    BY <2>2 DEF Kept
<1> QED
  BY <1>3, <1>4, <1>5, <1>6 DEF Merge, Db

LEMMA LatestType ==
  ASSUME TypeOK, NEW c \in Clients
  PROVE  Latest(c) \in Db
<1>1. db \in Db
  BY DEF TypeOK
<1> QED
  BY <1>1, MergeType DEF Latest

LEMMA ViewType ==
  ASSUME TypeOK, NEW c \in Clients
  PROVE  View(c) \in Db
<1>1. db \in Db /\ snap[c] \in Db \cup {None}
  BY DEF TypeOK
<1>2. (IF snap[c] = None THEN db ELSE snap[c]) \in Db
  BY <1>1
<1> QED
  BY <1>2, MergeType DEF View

\* What Latest says of a row or an audit entry.
LEMMA LatestValues ==
  ASSUME TypeOK, NEW c \in Clients
  PROVE  /\ \A r \in Rows : Latest(c).states[r] =
              IF r \in DOMAIN w[c].states THEN w[c].states[r] ELSE db.states[r]
         /\ \A i \in Ids : Latest(c).audit[i] =
              IF i \in DOMAIN w[c].audit THEN w[c].audit[i] ELSE db.audit[i]
<1>1. db.states \in [Rows -> Cell] /\ db.audit \in [Ids -> AuditRow \cup {NoAudit}]
  BY DEF TypeOK, Db
<1>2. /\ Latest(c).states = Over(w[c].states, db.states)
      /\ Latest(c).audit = Over(w[c].audit, db.audit)
  BY DEF Latest, Merge
<1> QED
  BY <1>1, <1>2 DEF Over

LEMMA BucketOfType ==
  ASSUME NEW states \in [Rows -> Cell], NEW e
  PROVE  BucketOf(states, e) \in Bucket
<1>1. BucketOf(states, e) \in [RowsOf(e) -> Cell] /\ RowsOf(e) \subseteq Rows
  BY DEF BucketOf, RowsOf
<1> QED
  BY <1>1 DEF Bucket, PartialFun

LEMMA NoWritesType ==
  /\ NoWrites \in Writes
  /\ DOMAIN NoWrites.states = {}
  /\ DOMAIN NoWrites.audit = {}
  /\ DOMAIN NoWrites.stats = {}
  /\ DOMAIN NoWrites.kept = {}
<1>1. /\ EmptyFun \in PartialFun(Rows, Values)
      /\ EmptyFun \in PartialFun(Ids, AuditRow)
      /\ EmptyFun \in PartialFun(Entities, Bucket)
      /\ EmptyFun \in PartialFun(Ids, Bucket)
  BY EmptyFunType
<1>2. NoWrites \in Writes
  BY <1>1 DEF NoWrites, Writes
<1> QED
  BY <1>2, EmptyFunType DEF NoWrites

-----------------------------------------------------------------------------
(***************************************************************************)
(* The invariant, step by step.                                            *)
(***************************************************************************)
LEMMA StepKeeps ==
  ASSUME IInv, NEW c \in Clients, TypeOK', FreshIds',
         HoldsItsWrites(c)', Progress(c)', Uncommitted(c)',
         \A d \in Clients \ {c} : Undisturbed(d)
  PROVE  IInv'
<1>1. ASSUME NEW d \in Clients PROVE HoldsItsWrites(d)' /\ Progress(d)' /\ Uncommitted(d)'
  <2>1. CASE d = c
    BY <2>1
  <2>2. CASE d # c
    <3>1. TypeOK /\ HoldsItsWrites(d) /\ Progress(d) /\ Uncommitted(d)
      BY DEF IInv, WritesAreLocked
    <3> QED
      BY <2>2, <3>1, OthersKeep
  <2> QED
    BY <2>1, <2>2
<1> QED
  BY <1>1 DEF IInv, WritesAreLocked

LEMMA FinishKeeps ==
  ASSUME IInv, NEW c \in Clients, Finish(c), db' \in Db, UNCHANGED <<nextId, recorded, foreign>>,
         \A i \in Ids : i >= nextId => ~Recorded(db, i)',
         \A r \in Rows : owner[<<"row", r>>] # c => db'.states[r] = db.states[r],
         \A i \in Ids : owner[<<"audit", i>>] # c => db'.audit[i] = db.audit[i]
  PROVE  IInv'
<1> USE DEF Finish
<1>1. TypeOK
  BY DEF IInv
<1>2. TypeOK'
  <2>1. owner' \in [Resources -> Clients \cup {Nobody}]
    BY <1>1 DEF TypeOK
  <2>2. pc' \in [Clients -> Steps] /\ req' \in [Clients -> Requests \cup {None}]
    BY <1>1 DEF TypeOK, Steps
  <2>3. plan' \in [Clients -> PartialFun(Rows, Numeric)]
    BY <1>1, EmptyFunType DEF TypeOK
  <2>4. w' \in [Clients -> Writes]
    BY <1>1, NoWritesType DEF TypeOK
  <2>5. /\ snap' \in [Clients -> Db \cup {None}]
        /\ rebuilt' \in [Clients -> [now: Bucket, was: Bucket] \cup {None}]
    BY <1>1 DEF TypeOK
  <2> QED
    BY <1>1, <2>1, <2>2, <2>3, <2>4, <2>5 DEF TypeOK
<1>3. pc'[c] = "idle" /\ w'[c] = NoWrites /\ plan'[c] = EmptyFun
  BY <1>1 DEF TypeOK
<1>4. HoldsItsWrites(c)'
  BY <1>3, NoWritesType DEF HoldsItsWrites
<1>5. Progress(c)'
  BY <1>3 DEF Progress
<1>6. Uncommitted(c)'
  BY <1>3, NoWritesType DEF Uncommitted
<1>7. FreshIds'
  BY <1>1, ResourceKinds DEF IInv, FreshIds
<1>8. ASSUME NEW d \in Clients \ {c} PROVE Undisturbed(d)
  <2>1. /\ pc'[d] = pc[d] /\ req'[d] = req[d] /\ plan'[d] = plan[d]
        /\ w'[d] = w[d] /\ rebuilt'[d] = rebuilt[d]
    BY <1>1 DEF TypeOK
  <2>2. \A x \in Resources : owner[x] = d => owner'[x] = d
    OBVIOUS
  <2> QED
    BY <2>1, <2>2 DEF Undisturbed
<1> QED
  BY <1>2, <1>4, <1>5, <1>6, <1>7, <1>8, StepKeeps

LEMMA RollbackKeeps ==
  ASSUME IInv, NEW c \in Clients, Rollback(c)
  PROVE  IInv'
<1>1. /\ db' \in Db
      /\ \A i \in Ids : i >= nextId => ~Recorded(db, i)'
  BY DEF IInv, TypeOK, FreshIds, Recorded, Rollback
<1> QED
  BY <1>1, FinishKeeps DEF Rollback

LEMMA CommitKeeps ==
  ASSUME IInv, NEW c \in Clients, Commit(c)
  PROVE  IInv'
<1>1. TypeOK /\ HoldsItsWrites(c)
  BY DEF IInv, WritesAreLocked
<1>2. db' = Latest(c) /\ db' \in Db
  BY <1>1, LatestType DEF Commit
<1>3. \A i \in Ids : i >= nextId => ~Recorded(db, i)'
  <2>1. SUFFICES ASSUME NEW i \in Ids, i >= nextId PROVE ~Recorded(db, i)'
    OBVIOUS
  <2>2. ~Recorded(db, i) /\ owner[<<"audit", i>>] = Nobody
    BY <2>1 DEF IInv, FreshIds
  <2>3. i \notin DOMAIN w[c].audit
    BY <1>1, <2>2, NobodyAssumption DEF HoldsItsWrites
  <2>4. db'.audit[i] = db.audit[i]
    BY <1>1, <1>2, <2>3, LatestValues
  <2> QED
    BY <2>2, <2>4 DEF Recorded
<1>4. ASSUME NEW r \in Rows, owner[<<"row", r>>] # c PROVE db'.states[r] = db.states[r]
  BY <1>1, <1>2, <1>4, LatestValues DEF HoldsItsWrites
<1>5. ASSUME NEW i \in Ids, owner[<<"audit", i>>] # c PROVE db'.audit[i] = db.audit[i]
  BY <1>1, <1>2, <1>5, LatestValues DEF HoldsItsWrites
<1> QED
  BY <1>2, <1>3, <1>4, <1>5, FinishKeeps DEF Commit

LEMMA SubmitKeeps ==
  ASSUME IInv, NEW c \in Clients, NEW q \in Requests, Submit(c, q)
  PROVE  IInv'
<1> USE DEF Submit
<1>1. TypeOK /\ Progress(c)
  BY DEF IInv
<1>2. /\ q.kind \in {"apply", "bulk", "restore", "dismiss"}
      /\ q.kind = "apply" => q.row \in Rows /\ q.new \in Numeric
      /\ q.kind = "bulk" => q.range \subseteq Rows
  BY RequestKinds DEF ApplyRequest, BulkRequest
<1>3. (IF q.kind = "apply" THEN [r \in {q.row} |-> q.new] ELSE EmptyFun) \in PartialFun(Rows, Numeric)
  <2>1. CASE q.kind = "apply"
    <3>1. [r \in {q.row} |-> q.new] \in [{q.row} -> Numeric] /\ {q.row} \in SUBSET Rows
      BY <1>2, <2>1
    <3> QED
      BY <2>1, <3>1 DEF PartialFun
  <2>2. CASE q.kind # "apply"
    BY <2>2, EmptyFunType
  <2> QED
    BY <2>1, <2>2
<1>4. TypeOK'
  <2>1. pc' \in [Clients -> Steps]
    BY <1>1, <1>2 DEF TypeOK, Steps
  <2>2. req' \in [Clients -> Requests \cup {None}]
    BY <1>1 DEF TypeOK
  <2>3. plan' \in [Clients -> PartialFun(Rows, Numeric)]
    BY <1>1, <1>3 DEF TypeOK
  <2> QED
    BY <1>1, <2>1, <2>2, <2>3 DEF TypeOK
<1>5. /\ w'[c] = NoWrites
      /\ req'[c] = q
      /\ plan'[c] = IF q.kind = "apply" THEN [r \in {q.row} |-> q.new] ELSE EmptyFun
      /\ pc'[c] = CASE q.kind = "apply" -> "lock" [] q.kind = "bulk" -> "bulk" [] OTHER -> "audit"
  BY <1>1 DEF TypeOK, Progress
<1>6. Progress(c)'
  BY <1>2, <1>5 DEF Progress, Correcting
<1>7. HoldsItsWrites(c)' /\ Uncommitted(c)'
  BY <1>5, NoWritesType DEF HoldsItsWrites, Uncommitted, CorrectionWrites, RestoreWrites, DismissWrites
<1>8. FreshIds'
  BY DEF IInv, FreshIds, Recorded
<1>9. ASSUME NEW d \in Clients \ {c} PROVE Undisturbed(d)
  BY <1>1, <1>9 DEF TypeOK, Undisturbed
<1> QED
  BY <1>4, <1>6, <1>7, <1>8, <1>9, StepKeeps

LEMMA SnapshotType ==
  ASSUME TypeOK, NEW c \in Clients, TakeSnapshot(c)
  PROVE  snap' \in [Clients -> Db \cup {None}]
  BY DEF TypeOK, TakeSnapshot

LEMMA BulkReadKeeps ==
  ASSUME IInv, NEW c \in Clients, BulkRead(c)
  PROVE  IInv'
<1> DEFINE q == req[c]
           targets == BulkTargets(View(c), q)
<1>1. TypeOK /\ Progress(c)
  BY DEF IInv
<1>2. CASE Rollback(c)
  BY <1>2, RollbackKeeps
<1>3. CASE ~Rollback(c)
  <2>1. PICK new \in [targets -> Numeric] : plan' = [plan EXCEPT ![c] = new]
    BY <1>3 DEF BulkRead, BulkPlans
  <2>2. /\ pc[c] = "bulk"
        /\ pc' = [pc EXCEPT ![c] = IF targets = {} THEN "commit" ELSE "lock"]
        /\ TakeSnapshot(c)
        /\ UNCHANGED <<db, nextId, owner, req, w, rebuilt, recorded, foreign>>
    BY <1>3 DEF BulkRead
  <2> HIDE DEF targets
  <2>3. targets \subseteq Rows
    BY DEF targets, BulkTargets, RowsOf
  <2>4. new \in PartialFun(Rows, Numeric)
    BY <2>1, <2>3 DEF PartialFun
  <2>5. TypeOK'
    <3>1. pc' \in [Clients -> Steps] /\ plan' \in [Clients -> PartialFun(Rows, Numeric)]
      BY <1>1, <2>1, <2>2, <2>4 DEF TypeOK, Steps
    <3> QED
      BY <1>1, <2>2, <3>1, SnapshotType DEF TypeOK
  <2>6. /\ w'[c] = NoWrites
        /\ req'[c] = q /\ q \in Requests /\ q.kind = "bulk"
        /\ plan'[c] = new
        /\ pc'[c] = IF targets = {} THEN "commit" ELSE "lock"
    BY <1>1, <2>1, <2>2 DEF TypeOK, Progress
  <2>7. Progress(c)'
    BY <2>1, <2>6 DEF Progress, Correcting
  <2>8. HoldsItsWrites(c)' /\ Uncommitted(c)'
    BY <2>6, NoWritesType DEF HoldsItsWrites, Uncommitted, CorrectionWrites
  <2>9. FreshIds'
    BY <2>2 DEF IInv, FreshIds, Recorded
  <2>10. ASSUME NEW d \in Clients \ {c} PROVE Undisturbed(d)
    BY <1>1, <2>1, <2>2, <2>10 DEF TypeOK, Undisturbed
  <2> QED
    BY <2>5, <2>7, <2>8, <2>9, <2>10, StepKeeps
<1> QED
  BY <1>2, <1>3

LEMMA LockRowKeeps ==
  ASSUME IInv, NEW c \in Clients, LockRow(c)
  PROVE  IInv'
<1> DEFINE x == <<"row", NextRow(c)>>
<1>1. TypeOK /\ Progress(c) /\ HoldsItsWrites(c) /\ Uncommitted(c)
  BY DEF IInv, WritesAreLocked
<1>2. /\ pc[c] = "lock" /\ CanLock(c, x)
      /\ owner' = [owner EXCEPT ![x] = c]
      /\ pc' = [pc EXCEPT ![c] = "correct"]
      /\ UNCHANGED <<db, nextId, req, plan, w, snap, rebuilt, recorded, foreign>>
  BY DEF LockRow, Lock
<1>3. NextRow(c) \in Rows
  BY <1>1, <1>2, NextRowType DEF Progress
<1>4. x \in Resources
  BY <1>3, ResourceKinds
<1>5. TypeOK'
  BY <1>1, <1>2, <1>4 DEF TypeOK, Steps
<1>6. pc'[c] = "correct" /\ owner'[x] = c /\ NextRow(c)' = NextRow(c)
  BY <1>1, <1>2, <1>4 DEF TypeOK, NextRow, Oldest
<1>7. Progress(c)'
  BY <1>1, <1>2, <1>6 DEF Progress, Correcting
<1>8. \A y \in Resources, d \in Clients : owner[y] = d => owner'[y] = d
  <2>1. \A y \in Resources : owner'[y] = IF y = x THEN c ELSE owner[y]
    BY <1>1, <1>2, <1>4 DEF TypeOK
  <2> QED
    BY <1>2, <2>1, NobodyAssumption DEF CanLock
<1>9. HoldsItsWrites(c)'
  BY <1>1, <1>2, <1>8, ResourceKinds, WriteDomains DEF HoldsItsWrites
<1>10. Uncommitted(c)'
  BY <1>1, <1>2, <1>6 DEF Uncommitted, Correcting, CorrectionWrites, RestoreWrites, DismissWrites,
                         Active, Recorded
<1>11. FreshIds'
  <2>1. \A i \in Ids : owner'[<<"audit", i>>] = owner[<<"audit", i>>]
    BY <1>1, <1>2, ResourceKinds DEF TypeOK
  <2> QED
    BY <1>2, <2>1 DEF IInv, FreshIds, Recorded
<1>12. ASSUME NEW d \in Clients \ {c} PROVE Undisturbed(d)
  BY <1>1, <1>2, <1>8, <1>12 DEF TypeOK, Undisturbed
<1> QED
  BY <1>5, <1>7, <1>9, <1>10, <1>11, <1>12, StepKeeps

LEMMA CorrectRowKeeps ==
  ASSUME IInv, NEW c \in Clients, CorrectRow(c)
  PROVE  IInv'
<1> DEFINE r == NextRow(c)
           meta == <<"meta", EntityOf[r]>>
           old == Latest(c).states[r]
           entry == [row |-> r, orig |-> old, corrected |-> plan[c][r],
                     restored |-> FALSE, dismissed |-> FALSE]
           states1 == Put(w[c].states, r, plan[c][r])
           audit1 == Put(w[c].audit, nextId, entry)
<1>1. CASE Rollback(c)
  BY <1>1, RollbackKeeps
<1>2. CASE ~Rollback(c)
  <2>1. TypeOK /\ Progress(c) /\ HoldsItsWrites(c) /\ Uncommitted(c)
    BY DEF IInv, WritesAreLocked
  <2>2. /\ pc[c] = "correct"
        /\ MetaLock => CanLock(c, meta)
        /\ RowAccepted(Latest(c), req[c], r)
        /\ nextId \in Ids
        /\ nextId' = nextId + 1
        /\ owner' = [owner EXCEPT ![<<"audit", nextId>>] = c, ![meta] = IF MetaLock THEN c ELSE @]
        /\ w' = [w EXCEPT ![c].states = Put(@, r, plan[c][r]), ![c].audit = Put(@, nextId, entry)]
        /\ plan' = [plan EXCEPT ![c] = Without(@, r)]
        /\ pc' = [pc EXCEPT ![c] = IF EntityOf[r] \in Tracked THEN "read"
                                   ELSE IF DOMAIN plan[c] = {r} THEN "commit" ELSE "lock"]
        /\ UNCHANGED <<db, req, snap, rebuilt, recorded, foreign>>
    BY <1>2 DEF CorrectRow, NewEntry
  <2>3. /\ req[c] \in Requests /\ Correcting(c) /\ DOMAIN plan[c] # {}
        /\ owner[<<"row", r>>] = c
    BY <2>1, <2>2 DEF Progress
  <2>4. r \in DOMAIN plan[c] /\ r \in Rows
    BY <2>1, <2>3, NextRowType
  <2>5. CorrectionWrites(c)
    BY <2>1, <2>2, <2>3 DEF Uncommitted
  <2>6. plan[c] \in PartialFun(Rows, Numeric) /\ plan[c][r] \in Numeric
    <3>1. plan[c] \in PartialFun(Rows, Numeric)
      BY <2>1 DEF TypeOK
    <3> QED
      BY <2>4, <3>1, PartialFunDef
  <2>7. r \notin DOMAIN w[c].states /\ old = db.states[r]
    BY <2>1, <2>4, <2>5, LatestValues DEF CorrectionWrites
  <2>8. old \in Values
    BY <2>1, <2>2, <2>4, <2>7 DEF TypeOK, Db, Cell, RowAccepted
  <2>9. entry \in AuditRow
    BY <2>4, <2>6, <2>8 DEF AuditRow
  <2>10. /\ ~Recorded(db, nextId)
         /\ owner[<<"audit", nextId>>] = Nobody
         /\ nextId \notin DOMAIN w[c].audit
         /\ nextId \notin DOMAIN w[c].kept
    <3>1. nextId >= nextId
      BY <2>2 DEF Ids
    <3>2. ~Recorded(db, nextId) /\ owner[<<"audit", nextId>>] = Nobody
      BY <2>2, <3>1 DEF IInv, FreshIds
    <3>3. nextId \notin DOMAIN w[c].audit
      BY <2>1, <3>2, NobodyAssumption DEF HoldsItsWrites
    <3> QED
      BY <2>5, <3>2, <3>3 DEF CorrectionWrites
  <2> HIDE DEF r, old, entry, meta
  <2>11. states1 \in PartialFun(Rows, Values)
    <3>1. plan[c][r] \in Values
      BY <2>6, ValuesAssumption
    <3> QED
      BY <2>1, <2>4, <3>1, WriteDomains, PutType
  <2>12. audit1 \in PartialFun(Ids, AuditRow)
    BY <2>1, <2>2, <2>9, WriteDomains, PutType
  <2>13. w[c] \in Writes
    BY <2>1 DEF TypeOK
  <2> HIDE DEF states1, audit1
  <2>14. w'[c] = [w[c] EXCEPT !.states = states1, !.audit = audit1]
         /\ \A d \in Clients \ {c} : w'[d] = w[d]
    BY <2>1, <2>2, <2>13 DEF TypeOK, Writes, states1, audit1
  <2>15. /\ w'[c].states = states1 /\ w'[c].audit = audit1
         /\ w'[c].stats = w[c].stats /\ w'[c].kept = w[c].kept
         /\ w'[c] \in Writes
    BY <2>11, <2>12, <2>13, <2>14 DEF Writes
  <2>16. meta \in Resources
    BY <2>4, ResourceKinds, EntityOfAssumption, EntitiesAssumption DEF meta
  <2>17. \A y \in Resources :
            owner'[y] = IF y = <<"audit", nextId>> \/ (y = meta /\ MetaLock) THEN c ELSE owner[y]
    BY <2>1, <2>2, <2>16, ResourceKinds DEF TypeOK, meta
  <2>18. \A y \in Resources, d \in Clients : owner[y] = d => owner'[y] = d
    BY <2>2, <2>10, <2>17, NobodyAssumption DEF CanLock
  <2>19. TypeOK'
    <3>1. nextId' \in Ids \cup {MaxId + 1}
      BY <2>2, BoundsAssumption DEF Ids
    <3>2. owner' \in [Resources -> Clients \cup {Nobody}]
      BY <2>1, <2>2 DEF TypeOK
    <3>3. w' \in [Clients -> Writes]
      BY <2>1, <2>2, <2>14, <2>15 DEF TypeOK
    <3>4. plan' \in [Clients -> PartialFun(Rows, Numeric)]
      BY <2>1, <2>2, <2>6, WithoutType DEF TypeOK
    <3>5. pc' \in [Clients -> Steps]
      BY <2>1, <2>2 DEF TypeOK, Steps
    <3> QED
      BY <2>1, <2>2, <3>1, <3>2, <3>3, <3>4, <3>5 DEF TypeOK
  <2>20. /\ plan'[c] = Without(plan[c], r)
         /\ req'[c] = req[c]
         /\ pc'[c] = IF EntityOf[r] \in Tracked THEN "read"
                     ELSE IF DOMAIN plan[c] = {r} THEN "commit" ELSE "lock"
    BY <2>1, <2>2 DEF TypeOK
  <2>21. /\ DOMAIN plan'[c] = DOMAIN plan[c] \ {r}
         /\ DOMAIN states1 = DOMAIN w[c].states \cup {r}
         /\ states1[r] = plan[c][r]
         /\ \A s \in DOMAIN w[c].states : states1[s] = w[c].states[s]
         /\ DOMAIN audit1 = DOMAIN w[c].audit \cup {nextId}
         /\ audit1[nextId] = entry
         /\ \A i \in DOMAIN w[c].audit : audit1[i] = w[c].audit[i]
    <3>1. DOMAIN plan'[c] = DOMAIN plan[c] \ {r}
      BY <2>20 DEF Without
    <3>2. /\ DOMAIN states1 = DOMAIN w[c].states \cup {r}
          /\ states1[r] = plan[c][r]
          /\ \A s \in DOMAIN w[c].states : states1[s] = w[c].states[s]
      BY <2>7 DEF Put, states1
    <3>3. /\ DOMAIN audit1 = DOMAIN w[c].audit \cup {nextId}
          /\ audit1[nextId] = entry
          /\ \A i \in DOMAIN w[c].audit : audit1[i] = w[c].audit[i]
      BY <2>10 DEF Put, audit1
    <3> QED
      BY <3>1, <3>2, <3>3
  <2>22. /\ entry.row = r /\ entry.orig = db.states[r] /\ entry.corrected = plan[c][r]
         /\ ~entry.restored /\ ~entry.dismissed
    BY <2>7 DEF entry
  <2>23. CorrectionWrites(c)'
    <3>1. DOMAIN plan'[c] \cap DOMAIN states1 = {}
      BY <2>5, <2>21 DEF CorrectionWrites
    <3>2. DOMAIN w[c].kept \subseteq DOMAIN audit1
      BY <2>5, <2>21 DEF CorrectionWrites
    <3>3. DOMAIN states1 = {audit1[i].row : i \in DOMAIN audit1}
      BY <2>5, <2>21, <2>22 DEF CorrectionWrites
    <3>4. \A i \in DOMAIN audit1 :
            /\ ~Recorded(db, i)
            /\ ~audit1[i].restored
            /\ ~audit1[i].dismissed
            /\ audit1[i].orig = db.states[audit1[i].row]
            /\ audit1[i].corrected = states1[audit1[i].row]
      <4>1. TAKE i \in DOMAIN audit1
      <4>2. CASE i = nextId
        BY <2>10, <2>21, <2>22, <4>2
      <4>3. CASE i \in DOMAIN w[c].audit
        <5>1. w[c].audit[i].row \in DOMAIN w[c].states
          BY <2>5, <4>3 DEF CorrectionWrites
        <5> QED
          BY <2>5, <2>21, <4>3, <5>1 DEF CorrectionWrites
      <4> QED
        BY <2>21, <4>2, <4>3
    <3>5. \A i, j \in DOMAIN audit1 : audit1[i].row = audit1[j].row => i = j
      <4>1. \A i \in DOMAIN w[c].audit : audit1[i].row # r
        BY <2>5, <2>7, <2>21 DEF CorrectionWrites
      <4> QED
        BY <2>5, <2>21, <2>22, <4>1 DEF CorrectionWrites
    <3>6. \A i : Recorded(db, i)' <=> Recorded(db, i)
      BY <2>2 DEF Recorded
    <3> QED
      <4>1. db' = db /\ w'[c].states = states1 /\ w'[c].audit = audit1 /\ w'[c].kept = w[c].kept
        BY <2>2, <2>15
      <4> QED
        BY <3>1, <3>2, <3>3, <3>4, <3>5, <3>6, <4>1 DEF CorrectionWrites
  <2>24. Uncommitted(c)'
    <3>1. Correcting(c)' /\ req'[c].kind \notin {"restore", "dismiss"}
      BY <2>3, <2>20 DEF Correcting
    <3>2. DOMAIN w'[c].audit # {}
      BY <2>15, <2>21
    <3> QED
      BY <2>23, <3>1, <3>2 DEF Uncommitted
  <2>25. Progress(c)'
    <3>1. Correcting(c)' /\ req'[c] \in Requests
      BY <2>3, <2>20 DEF Correcting
    <3>2. DOMAIN w'[c].audit \ DOMAIN w'[c].kept # {}
      BY <2>10, <2>15, <2>21
    <3>3. pc'[c] = "lock" => DOMAIN plan'[c] # {}
      BY <2>4, <2>20, <2>21
    <3>4. pc'[c] \in {"read", "commit", "lock"}
      BY <2>20
    <3> QED
      BY <3>1, <3>2, <3>3, <3>4 DEF Progress
  <2>26. HoldsItsWrites(c)'
    <3>1. \A s \in DOMAIN states1 : owner'[<<"row", s>>] = c
      <4>1. owner'[<<"row", r>>] = c
        BY <2>3, <2>4, <2>18, ResourceKinds
      <4>2. \A s \in DOMAIN w[c].states : owner'[<<"row", s>>] = c
        BY <2>1, <2>18, ResourceKinds, WriteDomains DEF HoldsItsWrites
      <4> QED
        BY <2>21, <4>1, <4>2
    <3>2. \A i \in DOMAIN audit1 : owner'[<<"audit", i>>] = c
      <4>1. owner'[<<"audit", nextId>>] = c
        BY <2>2, <2>17, ResourceKinds
      <4>2. \A i \in DOMAIN w[c].audit : owner'[<<"audit", i>>] = c
        BY <2>1, <2>18, ResourceKinds, WriteDomains DEF HoldsItsWrites
      <4> QED
        BY <2>21, <4>1, <4>2
    <3>3. \A e \in DOMAIN w[c].stats : owner'[<<"stats", e>>] = c
      BY <2>1, <2>18, ResourceKinds, WriteDomains DEF HoldsItsWrites
    <3> QED
      BY <2>15, <3>1, <3>2, <3>3 DEF HoldsItsWrites
  <2>27. FreshIds'
    <3>1. SUFFICES ASSUME NEW i \in Ids, i >= nextId'
                   PROVE  ~Recorded(db, i)' /\ owner'[<<"audit", i>>] = Nobody
      BY DEF FreshIds
    <3>2. i >= nextId /\ i # nextId
      BY <2>2, <3>1 DEF Ids
    <3>3. ~Recorded(db, i) /\ owner[<<"audit", i>>] = Nobody
      BY <3>2 DEF IInv, FreshIds
    <3>4. owner'[<<"audit", i>>] = owner[<<"audit", i>>]
      BY <2>17, <3>2, ResourceKinds DEF meta
    <3> QED
      BY <2>2, <3>3, <3>4 DEF Recorded
  <2>28. ASSUME NEW d \in Clients \ {c} PROVE Undisturbed(d)
    BY <2>1, <2>2, <2>14, <2>18, <2>28 DEF TypeOK, Undisturbed
  <2> QED
    BY <2>19, <2>24, <2>25, <2>26, <2>27, <2>28, StepKeeps
<1> QED
  BY <1>1, <1>2

LEMMA ActiveType ==
  ASSUME TypeOK, NEW i \in Ids, Active(db, i)
  PROVE  /\ db.audit[i] \in AuditRow
         /\ db.audit[i].row \in Rows /\ db.audit[i].orig \in Values
         /\ EntityOf[db.audit[i].row] \in Entities
<1>1. db.audit[i] \in AuditRow
  BY DEF TypeOK, Db, Active, Recorded
<1> QED
  BY <1>1, EntityOfAssumption, EntitiesAssumption DEF AuditRow

LEMMA SubjectType ==
  ASSUME IInv, NEW c \in Clients, pc[c] \in {"read", "write"}
  PROVE  Subject(c) \in Entities
<1>1. TypeOK /\ Progress(c) /\ Uncommitted(c)
  BY DEF IInv
<1>2. req[c] \in Requests
  BY <1>1 DEF Progress
<1>3. CASE req[c].kind = "restore"
  <2>1. req[c].id \in Ids
    BY <1>2, <1>3, RequestKinds DEF UndoRequest
  <2>2. DOMAIN w[c].audit = {req[c].id}
    BY <1>1, <1>3 DEF Progress, Correcting
  <2>3. Active(db, req[c].id)
    BY <1>1, <1>3, <2>2 DEF Uncommitted, RestoreWrites
  <2> QED
    BY <1>1, <1>3, <2>1, <2>3, ActiveType DEF Subject
<1>4. CASE req[c].kind # "restore"
  <2>1. Correcting(c)
    BY <1>1, <1>4 DEF Progress
  <2> QED
    BY <1>2, <1>4, <2>1, RequestKinds DEF Correcting, ApplyRequest, BulkRequest, Subject
<1> QED
  BY <1>3, <1>4

LEMMA ReadBucketKeeps ==
  ASSUME IInv, NEW c \in Clients, ReadBucket(c)
  PROVE  IInv'
<1> DEFINE fresh == [now |-> BucketOf(View(c).states, Subject(c)), was |-> View(c).stats[Subject(c)]]
<1>1. TypeOK /\ Progress(c) /\ HoldsItsWrites(c) /\ Uncommitted(c)
  BY DEF IInv, WritesAreLocked
<1>2. /\ pc[c] = "read"
      /\ rebuilt' = [rebuilt EXCEPT ![c] = fresh]
      /\ pc' = [pc EXCEPT ![c] = "write"]
      /\ TakeSnapshot(c)
      /\ UNCHANGED <<db, nextId, owner, req, plan, w, recorded, foreign>>
  BY DEF ReadBucket
<1>3. fresh \in [now: Bucket, was: Bucket]
  <2>1. View(c) \in Db /\ Subject(c) \in Entities
    BY <1>1, <1>2, ViewType, SubjectType
  <2>2. View(c).states \in [Rows -> Cell] /\ View(c).stats \in [Entities -> Bucket]
    BY <2>1 DEF Db
  <2>3. BucketOf(View(c).states, Subject(c)) \in Bucket
    BY <2>2, BucketOfType
  <2> QED
    BY <2>1, <2>2, <2>3
<1> HIDE DEF fresh
<1>4. TypeOK'
  <2>1. rebuilt' \in [Clients -> [now: Bucket, was: Bucket] \cup {None}]
    BY <1>1, <1>2, <1>3 DEF TypeOK
  <2>2. pc' \in [Clients -> Steps]
    BY <1>1, <1>2 DEF TypeOK, Steps
  <2> QED
    BY <1>1, <1>2, <2>1, <2>2, SnapshotType DEF TypeOK
<1>5. pc'[c] = "write" /\ rebuilt'[c] = fresh
  BY <1>1, <1>2 DEF TypeOK
<1>6. fresh # None
  BY <1>2, <1>3, NoneAssumption
<1>7. Progress(c)'
  BY <1>1, <1>2, <1>5, <1>6 DEF Progress, Correcting
<1>8. HoldsItsWrites(c)'
  BY <1>1, <1>2 DEF HoldsItsWrites
<1>9. Uncommitted(c)'
  BY <1>1, <1>2, <1>5 DEF Uncommitted, Correcting, CorrectionWrites, RestoreWrites, DismissWrites,
                          Active, Recorded
<1>10. FreshIds'
  BY <1>2 DEF IInv, FreshIds, Recorded
<1>11. ASSUME NEW d \in Clients \ {c} PROVE Undisturbed(d)
  BY <1>1, <1>2, <1>11 DEF TypeOK, Undisturbed
<1> QED
  BY <1>4, <1>7, <1>8, <1>9, <1>10, <1>11, StepKeeps

LEMMA WriteBucketKeeps ==
  ASSUME IInv, NEW c \in Clients, WriteBucket(c)
  PROVE  IInv'
<1> DEFINE e == Subject(c)
           x == <<"stats", e>>
           inserted == CHOOSE i \in DOMAIN w[c].audit : i \notin DOMAIN w[c].kept
           stats1 == Put(w[c].stats, e, rebuilt[c].now)
           kept1 == IF req[c].kind = "restore" THEN w[c].kept
                    ELSE Put(w[c].kept, inserted, rebuilt[c].was)
<1>1. TypeOK /\ Progress(c) /\ HoldsItsWrites(c) /\ Uncommitted(c)
  BY DEF IInv, WritesAreLocked
<1>2. /\ pc[c] = "write"
      /\ CanLock(c, x)
      /\ owner' = [owner EXCEPT ![x] = c]
      /\ w' = [w EXCEPT ![c].stats = Put(@, e, rebuilt[c].now),
                        ![c].kept = IF req[c].kind = "restore" THEN @
                                    ELSE Put(@, inserted, rebuilt[c].was)]
      /\ rebuilt' = [rebuilt EXCEPT ![c] = None]
      /\ pc' = [pc EXCEPT ![c] = IF DOMAIN plan[c] = {} THEN "commit" ELSE "lock"]
      /\ UNCHANGED <<db, nextId, req, plan, snap, recorded, foreign>>
  BY DEF WriteBucket, Lock, Originals
<1>3. e \in Entities /\ x \in Resources
  BY <1>2, SubjectType, ResourceKinds
<1>4. rebuilt[c].now \in Bucket /\ rebuilt[c].was \in Bucket
  BY <1>1, <1>2 DEF TypeOK, Progress
<1>5. \/ req[c].kind = "restore" /\ DOMAIN w[c].audit = {req[c].id} /\ plan[c] = EmptyFun
      \/ /\ Correcting(c) /\ req[c].kind # "restore"
         /\ DOMAIN w[c].audit \ DOMAIN w[c].kept # {}
  BY <1>1, <1>2 DEF Progress, Correcting
<1>6. req[c].kind # "restore" => inserted \in DOMAIN w[c].audit
  BY <1>5
<1> HIDE DEF e, x, inserted
<1>7. stats1 \in PartialFun(Entities, Bucket) /\ DOMAIN stats1 = DOMAIN w[c].stats \cup {e}
  <2>1. stats1 \in PartialFun(Entities, Bucket)
    BY <1>1, <1>3, <1>4, WriteDomains, PutType
  <2> QED
    BY <2>1 DEF Put
<1>8. /\ kept1 \in PartialFun(Ids, Bucket)
      /\ req[c].kind # "restore" => DOMAIN kept1 = DOMAIN w[c].kept \cup {inserted}
  <2>1. CASE req[c].kind = "restore"
    BY <1>1, <2>1, WriteDomains
  <2>2. CASE req[c].kind # "restore"
    <3>1. inserted \in Ids
      BY <1>1, <1>6, <2>2, WriteDomains
    <3>2. kept1 = Put(w[c].kept, inserted, rebuilt[c].was)
      BY <2>2
    <3>3. kept1 \in PartialFun(Ids, Bucket)
      BY <1>1, <1>4, <3>1, <3>2, WriteDomains, PutType
    <3> QED
      BY <3>2, <3>3 DEF Put
  <2> QED
    BY <2>1, <2>2
<1>9. w[c] \in Writes
  BY <1>1 DEF TypeOK
<1>10. /\ w'[c] = [w[c] EXCEPT !.stats = stats1, !.kept = kept1]
       /\ \A d \in Clients \ {c} : w'[d] = w[d]
  BY <1>1, <1>2, <1>9 DEF TypeOK, Writes
<1> HIDE DEF stats1, kept1
<1>11. /\ w'[c].states = w[c].states /\ w'[c].audit = w[c].audit
       /\ w'[c].stats = stats1 /\ w'[c].kept = kept1
       /\ w'[c] \in Writes
  BY <1>7, <1>8, <1>9, <1>10 DEF Writes
<1>12. TypeOK'
  <2>1. owner' \in [Resources -> Clients \cup {Nobody}]
    BY <1>1, <1>2 DEF TypeOK
  <2>2. pc' \in [Clients -> Steps]
    BY <1>1, <1>2 DEF TypeOK, Steps
  <2>3. rebuilt' \in [Clients -> [now: Bucket, was: Bucket] \cup {None}]
    BY <1>1, <1>2 DEF TypeOK
  <2>4. w' \in [Clients -> Writes]
    BY <1>1, <1>2, <1>10, <1>11 DEF TypeOK
  <2> QED
    BY <1>1, <1>2, <2>1, <2>2, <2>3, <2>4 DEF TypeOK
<1>13. \A y \in Resources : owner'[y] = IF y = x THEN c ELSE owner[y]
  BY <1>1, <1>2, <1>3 DEF TypeOK
<1>14. \A y \in Resources, d \in Clients : owner[y] = d => owner'[y] = d
  BY <1>2, <1>13, NobodyAssumption DEF CanLock
<1>15. HoldsItsWrites(c)'
  <2>1. \A r \in DOMAIN w[c].states : owner'[<<"row", r>>] = c
    BY <1>1, <1>14, ResourceKinds, WriteDomains DEF HoldsItsWrites
  <2>2. \A i \in DOMAIN w[c].audit : owner'[<<"audit", i>>] = c
    BY <1>1, <1>14, ResourceKinds, WriteDomains DEF HoldsItsWrites
  <2>3. \A f \in DOMAIN w[c].stats : owner'[<<"stats", f>>] = c
    BY <1>1, <1>14, ResourceKinds, WriteDomains DEF HoldsItsWrites
  <2>4. owner'[<<"stats", e>>] = c
    BY <1>3, <1>13 DEF x
  <2> QED
    BY <1>7, <1>11, <2>1, <2>2, <2>3, <2>4 DEF HoldsItsWrites
<1>16. /\ pc'[c] = IF DOMAIN plan[c] = {} THEN "commit" ELSE "lock"
       /\ req'[c] = req[c] /\ plan'[c] = plan[c]
  BY <1>1, <1>2 DEF TypeOK
<1>17. Progress(c)'
  <2>1. req[c] \in Requests
    BY <1>1, <1>2 DEF Progress
  <2>2. pc'[c] = "lock" => Correcting(c) /\ DOMAIN plan[c] # {}
    BY <1>5, <1>16, EmptyFunType
  <2> QED
    BY <1>16, <2>1, <2>2 DEF Progress, Correcting
<1>18. Uncommitted(c)'
  <2>1. CASE req[c].kind = "restore"
    <3>1. RestoreWrites(c) /\ DOMAIN w[c].audit # {}
      BY <1>1, <1>2, <1>5, <2>1 DEF Uncommitted
    <3>2. RestoreWrites(c)'
      BY <1>2, <1>11, <3>1 DEF RestoreWrites, Active, Recorded
    <3> QED
      BY <1>11, <1>16, <2>1, <3>1, <3>2 DEF Uncommitted, Correcting
  <2>2. CASE req[c].kind # "restore"
    <3>1. Correcting(c) /\ CorrectionWrites(c) /\ DOMAIN w[c].audit # {}
      BY <1>1, <1>2, <1>5, <2>2 DEF Uncommitted
    <3>2. DOMAIN kept1 \subseteq DOMAIN w[c].audit
      BY <1>6, <1>8, <2>2, <3>1 DEF CorrectionWrites
    <3>3. db' = db /\ plan'[c] = plan[c]
      BY <1>2
    <3>4. CorrectionWrites(c)'
      BY <1>11, <3>1, <3>2, <3>3 DEF CorrectionWrites, Recorded
    <3> QED
      BY <1>11, <1>16, <3>1, <3>4 DEF Uncommitted, Correcting
  <2> QED
    BY <2>1, <2>2
<1>19. FreshIds'
  <2>1. \A i \in Ids : owner'[<<"audit", i>>] = owner[<<"audit", i>>]
    BY <1>13, ResourceKinds DEF x
  <2> QED
    BY <1>2, <2>1 DEF IInv, FreshIds, Recorded
<1>20. ASSUME NEW d \in Clients \ {c} PROVE Undisturbed(d)
  BY <1>1, <1>2, <1>10, <1>14, <1>20 DEF TypeOK, Undisturbed
<1> QED
  BY <1>12, <1>15, <1>17, <1>18, <1>19, <1>20, StepKeeps

LEMMA LockAuditKeeps ==
  ASSUME IInv, NEW c \in Clients, LockAudit(c)
  PROVE  IInv'
<1> DEFINE i == req[c].id
           x == <<"audit", i>>
           entry == db.audit[i]
           dismissal == req[c].kind = "dismiss"
           dismissed == [entry EXCEPT !.dismissed = TRUE]
           audit1 == Put(w[c].audit, i, dismissed)
<1>1. CASE Rollback(c)
  BY <1>1, RollbackKeeps
<1>2. CASE ~Rollback(c)
  <2>1. TypeOK /\ Progress(c) /\ HoldsItsWrites(c) /\ Uncommitted(c)
    BY DEF IInv, WritesAreLocked
  <2>2. /\ pc[c] = "audit" /\ CanLock(c, x)
        /\ Active(db, i) /\ (dismissal => ~entry.dismissed)
        /\ owner' = [owner EXCEPT ![x] = c]
        /\ pc' = [pc EXCEPT ![c] = IF dismissal THEN "commit" ELSE "undo"]
        /\ w' = IF dismissal THEN [w EXCEPT ![c].audit = Put(@, i, dismissed)] ELSE w
        /\ UNCHANGED <<db, nextId, req, plan, snap, rebuilt, recorded, foreign>>
    BY <1>2 DEF LockAudit, Lock
  <2>3. /\ req[c] \in Requests /\ req[c].kind \in {"restore", "dismiss"}
        /\ w[c] = NoWrites /\ plan[c] = EmptyFun
    BY <2>1, <2>2 DEF Progress
  <2>4. i \in Ids /\ x \in Resources
    BY <2>3, RequestKinds, ResourceKinds DEF UndoRequest
  <2>5. entry \in AuditRow /\ dismissed \in AuditRow
    <3>1. entry \in AuditRow
      BY <2>1, <2>2, <2>4, ActiveType
    <3> QED
      BY <3>1 DEF AuditRow
  <2>6. /\ audit1 \in PartialFun(Ids, AuditRow)
        /\ DOMAIN audit1 = {i} /\ audit1[i] = dismissed
    <3>1. audit1 \in PartialFun(Ids, AuditRow)
      BY <2>1, <2>4, <2>5, WriteDomains, PutType
    <3> QED
      BY <2>3, <3>1, NoWritesType DEF Put
  <2> HIDE DEF i, dismissed
  <2>7. w[c] \in Writes
    BY <2>1 DEF TypeOK
  <2>8. /\ w'[c] = IF dismissal THEN [w[c] EXCEPT !.audit = audit1] ELSE w[c]
        /\ \A d \in Clients \ {c} : w'[d] = w[d]
    BY <2>1, <2>2, <2>7 DEF TypeOK, Writes
  <2> HIDE DEF audit1
  <2>9. /\ w'[c].states = w[c].states /\ w'[c].stats = w[c].stats /\ w'[c].kept = w[c].kept
        /\ w'[c].audit = IF dismissal THEN audit1 ELSE w[c].audit
        /\ w'[c] \in Writes
    BY <2>6, <2>7, <2>8 DEF Writes
  <2>10. TypeOK'
    <3>1. owner' \in [Resources -> Clients \cup {Nobody}]
      BY <2>1, <2>2 DEF TypeOK
    <3>2. pc' \in [Clients -> Steps]
      BY <2>1, <2>2 DEF TypeOK, Steps
    <3>3. w' \in [Clients -> Writes]
      BY <2>1, <2>2, <2>8, <2>9 DEF TypeOK
    <3> QED
      BY <2>1, <2>2, <3>1, <3>2, <3>3 DEF TypeOK
  <2>11. \A y \in Resources : owner'[y] = IF y = x THEN c ELSE owner[y]
    BY <2>1, <2>2, <2>4 DEF TypeOK
  <2>12. \A y \in Resources, d \in Clients : owner[y] = d => owner'[y] = d
    BY <2>2, <2>11, NobodyAssumption DEF CanLock
  <2>13. HoldsItsWrites(c)'
    BY <2>3, <2>4, <2>6, <2>9, <2>11, NoWritesType DEF HoldsItsWrites
  <2>14. /\ pc'[c] = IF dismissal THEN "commit" ELSE "undo"
         /\ req'[c] = req[c] /\ plan'[c] = plan[c]
    BY <2>1, <2>2 DEF TypeOK
  <2>15. Progress(c)'
    <3>1. ~dismissal => w'[c] = NoWrites /\ owner'[x] = c /\ Active(db', i)
      BY <2>2, <2>3, <2>4, <2>11 DEF Active, Recorded
    <3>2. req'[c].id = i
      BY <2>14 DEF i
    <3> QED
      BY <2>3, <2>14, <3>1, <3>2 DEF Progress, Correcting, Active, Recorded
  <2>16. Uncommitted(c)'
    <3>1. CASE dismissal
      <4>1. DismissWrites(c)'
        BY <2>2, <2>6, <2>9, <2>14, <3>1 DEF DismissWrites, Active, Recorded, i, dismissed
      <4> QED
        BY <2>3, <2>9, <2>14, <3>1, <4>1, NoWritesType DEF Uncommitted, Correcting
    <3>2. CASE ~dismissal
      BY <2>3, <2>9, <2>14, <3>2, NoWritesType DEF Uncommitted, Correcting, RestoreWrites
    <3> QED
      BY <3>1, <3>2
  <2>17. FreshIds'
    <3>1. SUFFICES ASSUME NEW j \in Ids, j >= nextId
                   PROVE  ~Recorded(db, j)' /\ owner'[<<"audit", j>>] = Nobody
      BY <2>2 DEF FreshIds
    <3>2. ~Recorded(db, j) /\ owner[<<"audit", j>>] = Nobody
      BY <3>1 DEF IInv, FreshIds
    <3>3. j # i
      BY <2>2, <3>2 DEF Active
    <3> QED
      BY <2>2, <2>11, <3>2, <3>3, ResourceKinds DEF Recorded
  <2>18. ASSUME NEW d \in Clients \ {c} PROVE Undisturbed(d)
    BY <2>1, <2>2, <2>8, <2>12, <2>18 DEF TypeOK, Undisturbed
  <2> QED
    BY <2>10, <2>13, <2>15, <2>16, <2>17, <2>18, StepKeeps
<1> QED
  BY <1>1, <1>2

LEMMA UndoRowKeeps ==
  ASSUME IInv, NEW c \in Clients, UndoRow(c)
  PROVE  IInv'
<1> DEFINE i == req[c].id
           entry == db.audit[i]
           x == <<"row", entry.row>>
           kept == db.kept[i]
           restored == [entry EXCEPT !.restored = TRUE]
           states1 == Put(w[c].states, entry.row, entry.orig)
           audit1 == Put(w[c].audit, i, restored)
<1>1. CASE Rollback(c)
  BY <1>1, RollbackKeeps
<1>2. CASE ~Rollback(c)
  <2>1. TypeOK /\ Progress(c) /\ HoldsItsWrites(c) /\ Uncommitted(c)
    BY DEF IInv, WritesAreLocked
  <2>2. /\ pc[c] = "undo" /\ CanLock(c, x)
        /\ db.states[entry.row] = entry.corrected
        /\ owner' = [owner EXCEPT ![x] = c]
        /\ w' = [w EXCEPT ![c].states = Put(@, entry.row, entry.orig),
                          ![c].audit = Put(@, i, restored)]
        /\ UNCHANGED <<db, nextId, req, plan, snap, recorded, foreign>>
    BY <1>2 DEF UndoRow, Lock
  <2>3. \/ pc' = [pc EXCEPT ![c] = "commit"] /\ rebuilt' = rebuilt
        \/ pc' = [pc EXCEPT ![c] = "read"] /\ rebuilt' = rebuilt
        \/ /\ kept # None
           /\ pc' = [pc EXCEPT ![c] = "write"]
           /\ rebuilt' = [rebuilt EXCEPT ![c] = [now |-> kept, was |-> kept]]
    BY <1>2 DEF UndoRow
  <2>4. /\ req[c] \in Requests /\ req[c].kind = "restore"
        /\ w[c] = NoWrites /\ plan[c] = EmptyFun
        /\ owner[<<"audit", i>>] = c /\ Active(db, i)
    BY <2>1, <2>2 DEF Progress
  <2>5. i \in Ids
    BY <2>4, RequestKinds DEF UndoRequest
  <2>6. entry \in AuditRow /\ entry.row \in Rows /\ entry.orig \in Values
    BY <2>1, <2>4, <2>5, ActiveType
  <2>7. restored \in AuditRow
    BY <2>6 DEF AuditRow
  <2>8. x \in Resources
    BY <2>6, ResourceKinds
  <2>9. kept # None => [now |-> kept, was |-> kept] \in [now: Bucket, was: Bucket]
    BY <2>1, <2>5 DEF TypeOK, Db
  <2> HIDE DEF i, restored, kept
  <2>10. states1 \in PartialFun(Rows, Values) /\ audit1 \in PartialFun(Ids, AuditRow)
    <3>1. states1 \in PartialFun(Rows, Values)
      BY <2>1, <2>6, WriteDomains, PutType
    <3>2. audit1 \in PartialFun(Ids, AuditRow)
      BY <2>1, <2>5, <2>7, WriteDomains, PutType
    <3> QED
      BY <3>1, <3>2
  <2>11. /\ DOMAIN states1 = {entry.row} /\ states1[entry.row] = entry.orig
         /\ DOMAIN audit1 = {i} /\ audit1[i] = restored
    BY <2>4, NoWritesType DEF Put
  <2>12. w[c] \in Writes
    BY <2>1 DEF TypeOK
  <2>13. /\ w'[c] = [w[c] EXCEPT !.states = states1, !.audit = audit1]
         /\ \A d \in Clients \ {c} : w'[d] = w[d]
    BY <2>1, <2>2, <2>12 DEF TypeOK, Writes
  <2> HIDE DEF states1, audit1
  <2>14. /\ w'[c].states = states1 /\ w'[c].audit = audit1
         /\ w'[c].stats = w[c].stats /\ w'[c].kept = w[c].kept
         /\ w'[c] \in Writes
    BY <2>10, <2>12, <2>13 DEF Writes
  <2>15. TypeOK'
    <3>1. owner' \in [Resources -> Clients \cup {Nobody}]
      BY <2>1, <2>2 DEF TypeOK
    <3>2. pc' \in [Clients -> Steps]
      BY <2>1, <2>3 DEF TypeOK, Steps
    <3>3. w' \in [Clients -> Writes]
      BY <2>1, <2>2, <2>13, <2>14 DEF TypeOK
    <3>4. rebuilt' \in [Clients -> [now: Bucket, was: Bucket] \cup {None}]
      BY <2>1, <2>3, <2>9 DEF TypeOK
    <3> QED
      BY <2>1, <2>2, <3>1, <3>2, <3>3, <3>4 DEF TypeOK
  <2>16. \A y \in Resources : owner'[y] = IF y = x THEN c ELSE owner[y]
    BY <2>1, <2>2, <2>8 DEF TypeOK
  <2>17. \A y \in Resources, d \in Clients : owner[y] = d => owner'[y] = d
    BY <2>2, <2>16, NobodyAssumption DEF CanLock
  <2>18. HoldsItsWrites(c)'
    <3>1. owner'[x] = c /\ owner'[<<"audit", i>>] = c
      BY <2>4, <2>5, <2>8, <2>16, <2>17, ResourceKinds DEF i
    <3> QED
      BY <2>4, <2>11, <2>14, <3>1, NoWritesType DEF HoldsItsWrites
  <2>19. req'[c] = req[c] /\ plan'[c] = plan[c] /\ db' = db
    BY <2>2
  <2>20. /\ pc'[c] \in {"commit", "read", "write"}
         /\ pc'[c] = "write" => rebuilt'[c] # None
    BY <2>1, <2>3, <2>9, NoneAssumption DEF TypeOK
  <2>21. Progress(c)'
    <3>1. DOMAIN w'[c].audit = {req'[c].id} /\ plan'[c] = EmptyFun
      BY <2>4, <2>11, <2>14, <2>19 DEF i
    <3> QED
      BY <2>4, <2>19, <2>20, <3>1 DEF Progress, Correcting
  <2>22. Uncommitted(c)'
    <3>1. RestoreWrites(c)'
      BY <2>2, <2>4, <2>11, <2>14, <2>19 DEF RestoreWrites, Active, Recorded, i, restored
    <3>2. DOMAIN w'[c].audit # {}
      BY <2>11, <2>14
    <3> QED
      BY <2>4, <2>19, <3>1, <3>2 DEF Uncommitted, Correcting
  <2>23. FreshIds'
    <3>1. \A j \in Ids : owner'[<<"audit", j>>] = owner[<<"audit", j>>]
      BY <2>16, ResourceKinds
    <3> QED
      BY <2>2, <3>1 DEF IInv, FreshIds, Recorded
  <2>24. ASSUME NEW d \in Clients \ {c} PROVE Undisturbed(d)
    BY <2>1, <2>2, <2>3, <2>13, <2>17, <2>24 DEF TypeOK, Undisturbed
  <2> QED
    BY <2>15, <2>18, <2>21, <2>22, <2>23, <2>24, StepKeeps
<1> QED
  BY <1>1, <1>2

\* The recorder, and whoever else writes states, respect row locks.
LEMMA OutsideKeeps ==
  ASSUME IInv, NEW r \in Rows, NEW v \in Cell,
         owner[<<"row", r>>] = Nobody,
         db' = [db EXCEPT !.states[r] = v],
         foreign' \subseteq Rows,
         UNCHANGED <<nextId, owner, pc, req, plan, w, snap, rebuilt, recorded>>
  PROVE  IInv'
<1>1. TypeOK
  BY DEF IInv
<1>2. /\ db' \in Db
      /\ db'.audit = db.audit
      /\ \A s \in Rows \ {r} : db'.states[s] = db.states[s]
  BY <1>1 DEF TypeOK, Db
<1>3. TypeOK'
  BY <1>1, <1>2 DEF TypeOK
<1>4. FreshIds'
  BY <1>2 DEF IInv, FreshIds, Recorded
<1>5. ASSUME NEW d \in Clients PROVE HoldsItsWrites(d)' /\ Progress(d)' /\ Uncommitted(d)'
  <2>1. Undisturbed(d)
    BY <1>2, NobodyAssumption DEF Undisturbed
  <2>2. HoldsItsWrites(d) /\ Progress(d) /\ Uncommitted(d)
    BY DEF IInv, WritesAreLocked
  <2> QED
    BY <1>1, <2>1, <2>2, OthersKeep
<1> QED
  BY <1>3, <1>4, <1>5 DEF IInv, WritesAreLocked

-----------------------------------------------------------------------------
LEMMA InitEstablishes == Init => IInv
<1> SUFFICES ASSUME Init PROVE IInv
  OBVIOUS
<1>1. /\ recorded \in [Rows -> Values]
      /\ recorded \in [Rows -> Cell]
  BY DEF Init, Cell
<1>2. db \in Db
  <2>1. [e \in Entities |-> BucketOf(recorded, e)] \in [Entities -> Bucket]
    BY <1>1, BucketOfType
  <2> QED
    BY <1>1, <2>1 DEF Init, Db
<1>3. TypeOK
  <2>1. nextId \in Ids \cup {MaxId + 1}
    BY BoundsAssumption DEF Init, Ids
  <2>2. pc \in [Clients -> Steps] /\ owner \in [Resources -> Clients \cup {Nobody}]
    BY DEF Init, Steps
  <2>3. plan \in [Clients -> PartialFun(Rows, Numeric)] /\ w \in [Clients -> Writes]
    BY EmptyFunType, NoWritesType DEF Init
  <2> QED
    BY <1>1, <1>2, <2>1, <2>2, <2>3 DEF Init, TypeOK
<1>4. FreshIds
  BY ResourceKinds DEF Init, FreshIds, Recorded
<1>5. ASSUME NEW c \in Clients PROVE HoldsItsWrites(c) /\ Progress(c) /\ Uncommitted(c)
  <2>1. pc[c] = "idle" /\ w[c] = NoWrites /\ plan[c] = EmptyFun
    BY DEF Init
  <2> QED
    BY <2>1, NoWritesType DEF HoldsItsWrites, Progress, Uncommitted
<1> QED
  BY <1>3, <1>4, <1>5 DEF IInv, WritesAreLocked

LEMMA NextKeeps == IInv /\ [Next]_vars => IInv'
<1> SUFFICES ASSUME IInv, [Next]_vars PROVE IInv'
  OBVIOUS
<1>1. ASSUME NEW c \in Clients, Proceed(c) PROVE IInv'
  <2>1. CASE BulkRead(c)
    BY <2>1, BulkReadKeeps
  <2>2. CASE LockRow(c)
    BY <2>2, LockRowKeeps
  <2>3. CASE CorrectRow(c)
    BY <2>3, CorrectRowKeeps
  <2>4. CASE ReadBucket(c)
    BY <2>4, ReadBucketKeeps
  <2>5. CASE WriteBucket(c)
    BY <2>5, WriteBucketKeeps
  <2>6. CASE LockAudit(c)
    BY <2>6, LockAuditKeeps
  <2>7. CASE UndoRow(c)
    BY <2>7, UndoRowKeeps
  <2>8. CASE Commit(c)
    BY <2>8, CommitKeeps
  <2>9. CASE LockTimeout(c)
    BY <2>9, RollbackKeeps DEF LockTimeout
  <2> QED
    BY <1>1, <2>1, <2>2, <2>3, <2>4, <2>5, <2>6, <2>7, <2>8, <2>9 DEF Proceed
<1>2. ASSUME NEW c \in Clients, ConnectionLost(c) PROVE IInv'
  BY <1>2, RollbackKeeps DEF ConnectionLost
<1>3. ASSUME NEW c \in Clients, NEW q \in Requests, Submit(c, q) PROVE IInv'
  BY <1>3, SubmitKeeps
<1>4. ASSUME NEW r \in Rows, Purge(r) PROVE IInv'
  <2>1. foreign' \subseteq Rows
    BY <1>4 DEF Purge, IInv, TypeOK
  <2> QED
    BY <1>4, <2>1, OutsideKeeps DEF Purge, Cell
<1>5. ASSUME NEW r \in Rows, NEW v \in Values, Overwrite(r, v) PROVE IInv'
  <2>1. foreign' \subseteq Rows
    BY <1>5 DEF Overwrite, IInv, TypeOK
  <2> QED
    BY <1>5, <2>1, OutsideKeeps DEF Overwrite, Cell
<1>6. ASSUME UNCHANGED vars PROVE IInv'
  <2>1. ASSUME NEW d \in Clients PROVE Undisturbed(d)
    BY <1>6 DEF vars, Undisturbed
  <2>2. ASSUME NEW d \in Clients PROVE HoldsItsWrites(d)' /\ Progress(d)' /\ Uncommitted(d)'
    <3>1. TypeOK /\ HoldsItsWrites(d) /\ Progress(d) /\ Uncommitted(d)
      BY DEF IInv, WritesAreLocked
    <3> QED
      BY <2>1, <3>1, OthersKeep
  <2>3. TypeOK' /\ FreshIds'
    BY <1>6 DEF vars, IInv, TypeOK, FreshIds, Recorded
  <2> QED
    BY <2>2, <2>3 DEF IInv, WritesAreLocked
<1> QED
  BY <1>1, <1>2, <1>3, <1>4, <1>5, <1>6 DEF Next

LEMMA Invariance == Spec => []IInv
<1> QED
  BY InitEstablishes, NextKeeps, PTL DEF Spec

(***************************************************************************)
(* Every variable keeps its type: in particular no audit row ever records  *)
(* a reading that was not in the table, and no statistics row is written   *)
(* that was not read first.                                                *)
(***************************************************************************)
THEOREM TypeCorrect == Spec => []TypeOK
<1>1. IInv => TypeOK
  BY DEF IInv
<1> QED
  BY <1>1, Invariance, PTL

(***************************************************************************)
(* An item written and not yet committed is locked by its writer, so no    *)
(* other transaction, purge or outside write comes between the check a     *)
(* correction or an undo makes and its COMMIT.                             *)
(***************************************************************************)
THEOREM WritesStayLocked == Spec => []WritesAreLocked
<1>1. IInv => WritesAreLocked
  BY DEF IInv
<1> QED
  BY <1>1, Invariance, PTL

-----------------------------------------------------------------------------
(***************************************************************************)
(* Refinement.  A transaction takes effect at its COMMIT, as one step of   *)
(* the ledger; everything before it is a stutter.                          *)
(***************************************************************************)
LEMMA InitRefines == Init => Ledger!Init
  BY DEF Init, Ledger!Init, Ids, Ledger!Ids

LEMMA CommitOfCorrections ==
  ASSUME IInv, NEW c \in Clients, Commit(c), Correcting(c), DOMAIN w[c].audit # {}
  PROVE  Ledger!Next
<1> DEFINE D == DOMAIN w[c].audit
           at == [i \in D |-> w[c].audit[i].row]
           new == [i \in D |-> w[c].audit[i].corrected]
<1>1. TypeOK /\ CorrectionWrites(c)
  BY DEF IInv, Uncommitted, Commit
<1>2. db' = Latest(c) /\ UNCHANGED <<recorded, foreign>>
  BY DEF Commit
<1>3. D \subseteq Ids /\ \A i \in D : w[c].audit[i] \in AuditRow
  BY <1>1, WriteDomains, PartialFunDef
<1>4. D \in (SUBSET Ledger!Unused) \ {{}}
  BY <1>1, <1>3 DEF CorrectionWrites, Recorded, Ledger!Unused, Ledger!Recorded, Ids, Ledger!Ids
<1>5. at \in Ledger!Injections(D, Ledger!Present)
  <2>1. \A i \in D : w[c].audit[i].row \in Rows /\ db.states[w[c].audit[i].row] # Absent
    BY <1>1, <1>3, ValuesAssumption DEF CorrectionWrites, AuditRow
  <2>2. \A i \in D : w[c].audit[i].row \in Ledger!Present
    BY <2>1 DEF Ledger!Present
  <2>3. at \in [D -> Ledger!Present]
    BY <2>2
  <2> QED
    BY <1>1, <2>3 DEF Ledger!Injections, CorrectionWrites
<1>6. new \in [D -> Numeric]
  BY <1>3 DEF AuditRow
<1>7. db'.audit = [i \in Ledger!Ids |->
                     IF i \in D THEN Ledger!NewEntry(at[i], db.states[at[i]], new[i]) ELSE db.audit[i]]
  <2>1. \A i \in D : w[c].audit[i] = Ledger!NewEntry(at[i], db.states[at[i]], new[i])
    <3>1. SUFFICES ASSUME NEW i \in D
                   PROVE  w[c].audit[i] = Ledger!NewEntry(at[i], db.states[at[i]], new[i])
      OBVIOUS
    <3>2. w[c].audit[i].restored \in BOOLEAN /\ w[c].audit[i].dismissed \in BOOLEAN
      BY <1>3 DEF AuditRow
    <3>3. ~w[c].audit[i].restored /\ ~w[c].audit[i].dismissed
      BY <1>1 DEF CorrectionWrites
    <3>4. w[c].audit[i].restored = FALSE /\ w[c].audit[i].dismissed = FALSE
      BY <3>2, <3>3
    <3>5. w[c].audit[i].orig = db.states[at[i]]
      BY <1>1 DEF CorrectionWrites
    <3> QED
      BY <1>3, <3>4, <3>5 DEF AuditRow, Ledger!NewEntry
  <2>2. /\ db'.audit = [i \in Ids |-> db'.audit[i]]
        /\ \A i \in Ids : db'.audit[i] = IF i \in D THEN w[c].audit[i] ELSE db.audit[i]
    <3>1. db' \in Db
      BY <1>1, <1>2, LatestType
    <3> QED
      BY <1>1, <1>2, <3>1, LatestValues DEF Db
  <2> HIDE DEF at, new
  <2> QED
    BY <2>1, <2>2 DEF Ids, Ledger!Ids
<1>8. db'.states = [r \in Rows |-> IF \E i \in D : at[i] = r
                                   THEN new[CHOOSE i \in D : at[i] = r] ELSE db.states[r]]
  <2>1. /\ db'.states = [r \in Rows |-> db'.states[r]]
        /\ \A r \in Rows : db'.states[r] =
             IF r \in DOMAIN w[c].states THEN w[c].states[r] ELSE db.states[r]
    <3>1. db' \in Db
      BY <1>1, <1>2, LatestType
    <3> QED
      BY <1>1, <1>2, <3>1, LatestValues DEF Db
  <2>2. \A r \in Rows : (\E i \in D : at[i] = r) <=> r \in DOMAIN w[c].states
    BY <1>1 DEF CorrectionWrites
  <2>3. \A r \in Rows : r \in DOMAIN w[c].states =>
          w[c].states[r] = new[CHOOSE i \in D : at[i] = r]
    <3>1. SUFFICES ASSUME NEW r \in Rows, r \in DOMAIN w[c].states
                   PROVE  w[c].states[r] = new[CHOOSE i \in D : at[i] = r]
      OBVIOUS
    <3> DEFINE j == CHOOSE i \in D : at[i] = r
    <3>2. j \in D /\ at[j] = r
      BY <2>2, <3>1
    <3> HIDE DEF j
    <3>3. w[c].audit[j].row = r /\ w[c].audit[j].corrected = w[c].states[r]
      BY <1>1, <3>2 DEF CorrectionWrites
    <3>4. new[j] = w[c].states[r]
      BY <3>2, <3>3
    <3> QED
      BY <3>4 DEF j
  <2> HIDE DEF at, new
  <2> QED
    BY <2>1, <2>2, <2>3
<1> HIDE DEF D, at, new
<1>9. Ledger!Correct(D, at, new)
  BY <1>2, <1>7, <1>8 DEF Ledger!Correct
<1> QED
  BY <1>4, <1>5, <1>6, <1>9 DEF Ledger!Next

LEMMA CommitOfUndo ==
  ASSUME IInv, NEW c \in Clients, Commit(c), req[c].kind \in {"restore", "dismiss"},
         DOMAIN w[c].audit # {}
  PROVE  Ledger!Next
<1> DEFINE i == req[c].id
           entry == db.audit[i]
<1>1. TypeOK /\ Uncommitted(c)
  BY DEF IInv
<1>2. pc[c] = "commit" /\ db' = Latest(c) /\ UNCHANGED <<recorded, foreign>>
  BY DEF Commit
<1>3. Active(db, i) /\ DOMAIN w[c].audit = {i}
  BY <1>1, <1>2 DEF Uncommitted, RestoreWrites, DismissWrites
<1>4. i \in Ids
  BY <1>1, <1>3, WriteDomains
<1>5. entry \in AuditRow /\ entry.row \in Rows
  BY <1>1, <1>3, <1>4, ActiveType
<1>6. db \in Db /\ db' \in Db
  BY <1>1, <1>2, LatestType DEF TypeOK
<1>7. \A j \in Ids : db'.audit[j] = IF j = i THEN w[c].audit[i] ELSE db.audit[j]
  BY <1>1, <1>2, <1>3, LatestValues
<1>8. \A r \in Rows : db'.states[r] =
        IF r \in DOMAIN w[c].states THEN w[c].states[r] ELSE db.states[r]
  BY <1>1, <1>2, LatestValues
<1>9. Ledger!Active(i) /\ i \in Ledger!Ids
  BY <1>3, <1>4 DEF Active, Recorded, Ledger!Active, Ledger!Recorded, Ids, Ledger!Ids
<1> HIDE DEF i
<1>10. CASE req[c].kind = "restore"
  <2>1. /\ db.states[entry.row] = entry.corrected
        /\ w[c].audit[i] = [entry EXCEPT !.restored = TRUE]
        /\ DOMAIN w[c].states = {entry.row}
        /\ w[c].states[entry.row] = entry.orig
    BY <1>1, <1>2, <1>10 DEF Uncommitted, RestoreWrites, i
  <2>2. db'.states = [db.states EXCEPT ![entry.row] = entry.orig]
    BY <1>5, <1>6, <1>8, <2>1 DEF Db
  <2>3. db'.audit = [db.audit EXCEPT ![i].restored = TRUE]
    <3>1. db.audit \in [Ids -> AuditRow \cup {NoAudit}] /\ db'.audit \in [Ids -> AuditRow \cup {NoAudit}]
      BY <1>6 DEF Db
    <3> QED
      BY <1>4, <1>7, <2>1, <3>1
  <2> QED
    BY <1>2, <1>9, <2>1, <2>2, <2>3 DEF Ledger!Next, Ledger!Restore
<1>11. CASE req[c].kind = "dismiss"
  <2>1. /\ ~entry.dismissed
        /\ w[c].audit[i] = [entry EXCEPT !.dismissed = TRUE]
        /\ DOMAIN w[c].states = {}
    BY <1>1, <1>2, <1>11 DEF Uncommitted, DismissWrites, i
  <2>2. db'.states = db.states
    BY <1>6, <1>8, <2>1 DEF Db
  <2>3. db'.audit = [db.audit EXCEPT ![i].dismissed = TRUE]
    <3>1. db.audit \in [Ids -> AuditRow \cup {NoAudit}] /\ db'.audit \in [Ids -> AuditRow \cup {NoAudit}]
      BY <1>6 DEF Db
    <3> QED
      BY <1>4, <1>7, <2>1, <3>1
  <2> QED
    BY <1>2, <1>9, <2>1, <2>2, <2>3 DEF Ledger!Next, Ledger!Dismiss
<1> QED
  BY <1>10, <1>11

LEMMA CommitRefines ==
  ASSUME IInv, NEW c \in Clients, Commit(c)
  PROVE  [Ledger!Next]_(Ledger!vars)
<1>1. CASE DOMAIN w[c].audit = {}
  <2>1. TypeOK /\ DOMAIN w[c].states = {}
    BY <1>1 DEF IInv, Uncommitted
  <2>2. /\ db' = Latest(c) /\ UNCHANGED <<recorded, foreign>>
        /\ db \in Db /\ db' \in Db
    BY <2>1, LatestType DEF Commit, TypeOK
  <2>3. db'.states = db.states /\ db'.audit = db.audit
    <3>1. /\ db.states \in [Rows -> Cell] /\ db'.states \in [Rows -> Cell]
          /\ db.audit \in [Ids -> AuditRow \cup {NoAudit}]
          /\ db'.audit \in [Ids -> AuditRow \cup {NoAudit}]
      BY <2>2 DEF Db
    <3>2. \A r \in Rows : db'.states[r] = db.states[r]
      BY <2>1, <2>2, LatestValues
    <3>3. \A i \in Ids : db'.audit[i] = db.audit[i]
      BY <1>1, <2>1, <2>2, LatestValues
    <3>4. db'.states = db.states
      BY <3>1, <3>2
    <3>5. db'.audit = db.audit
      BY <3>1, <3>3
    <3> QED
      BY <3>4, <3>5
  <2> QED
    BY <2>2, <2>3 DEF Ledger!vars
<1>2. CASE DOMAIN w[c].audit # {}
  <2>1. req[c] \in Requests
    BY DEF IInv, Progress, Commit
  <2>2. CASE Correcting(c)
    BY <1>2, <2>2, CommitOfCorrections
  <2>3. CASE ~Correcting(c)
    BY <1>2, <2>1, <2>3, RequestKinds, CommitOfUndo DEF Correcting
  <2> QED
    BY <2>2, <2>3
<1> QED
  BY <1>1, <1>2

LEMMA NextRefines == IInv /\ [Next]_vars => [Ledger!Next]_(Ledger!vars)
<1> SUFFICES ASSUME IInv, [Next]_vars PROVE [Ledger!Next]_(Ledger!vars)
  OBVIOUS
<1>1. ASSUME NEW c \in Clients, Commit(c) PROVE [Ledger!Next]_(Ledger!vars)
  BY <1>1, CommitRefines
<1>2. ASSUME NEW r \in Rows, Purge(r) PROVE [Ledger!Next]_(Ledger!vars)
  <2>1. db \in Db
    BY DEF IInv, TypeOK
  <2>2. db'.states = [db.states EXCEPT ![r] = Absent] /\ db'.audit = db.audit
    BY <1>2, <2>1 DEF Purge, Db
  <2>3. Ledger!Purge(r)
    BY <1>2, <2>2 DEF Purge, Ledger!Purge
  <2> QED
    BY <2>3 DEF Ledger!Next
<1>3. ASSUME NEW r \in Rows, NEW v \in Values, Overwrite(r, v) PROVE [Ledger!Next]_(Ledger!vars)
  <2>1. db \in Db
    BY DEF IInv, TypeOK
  <2>2. db'.states = [db.states EXCEPT ![r] = v] /\ db'.audit = db.audit
    BY <1>3, <2>1 DEF Overwrite, Db
  <2>3. Ledger!Overwrite(r, v)
    BY <1>3, <2>2 DEF Overwrite, Ledger!Overwrite
  <2> QED
    BY <2>3 DEF Ledger!Next
<1>4. ASSUME UNCHANGED <<db, recorded, foreign>> PROVE [Ledger!Next]_(Ledger!vars)
  BY <1>4 DEF Ledger!vars
<1>5. ASSUME NEW c \in Clients, Proceed(c), ~Commit(c) PROVE UNCHANGED <<db, recorded, foreign>>
  <2>1. Rollback(c) => UNCHANGED <<db, recorded, foreign>>
    BY DEF Rollback
  <2>2. BulkRead(c) => UNCHANGED <<db, recorded, foreign>>
    BY <2>1 DEF BulkRead
  <2>3. LockRow(c) => UNCHANGED <<db, recorded, foreign>>
    BY DEF LockRow
  <2>4. CorrectRow(c) => UNCHANGED <<db, recorded, foreign>>
    BY <2>1 DEF CorrectRow
  <2>5. ReadBucket(c) \/ WriteBucket(c) => UNCHANGED <<db, recorded, foreign>>
    BY DEF ReadBucket, WriteBucket
  <2>6. LockAudit(c) => UNCHANGED <<db, recorded, foreign>>
    BY <2>1 DEF LockAudit
  <2>7. UndoRow(c) => UNCHANGED <<db, recorded, foreign>>
    BY <2>1 DEF UndoRow
  <2>8. LockTimeout(c) => UNCHANGED <<db, recorded, foreign>>
    BY <2>1 DEF LockTimeout
  <2> QED
    BY <1>5, <2>2, <2>3, <2>4, <2>5, <2>6, <2>7, <2>8 DEF Proceed
<1>6. ASSUME NEW c \in Clients, ConnectionLost(c) PROVE UNCHANGED <<db, recorded, foreign>>
  BY <1>6 DEF ConnectionLost, Rollback
<1>7. ASSUME NEW c \in Clients, NEW q \in Requests, Submit(c, q)
      PROVE  UNCHANGED <<db, recorded, foreign>>
  BY <1>7 DEF Submit
<1>8. CASE UNCHANGED vars
  BY <1>4, <1>8 DEF vars
<1> QED
  BY <1>1, <1>2, <1>3, <1>4, <1>5, <1>6, <1>7, <1>8 DEF Next

(***************************************************************************)
(* The transactions implement the ledger: whatever the interleaving of     *)
(* threads, lock waits, timeouts, lost connections, purges and outside     *)
(* writes, on either server, the committed tables change by whole          *)
(* corrections, restores and dismissals only, each with its checks true    *)
(* at the moment it takes effect.                                          *)
(***************************************************************************)
THEOREM TransactionsImplementLedger == Spec => ImplementsLedger
<1> QED
  BY InitRefines, NextRefines, Invariance, PTL DEF Spec, ImplementsLedger, Ledger!Spec

-----------------------------------------------------------------------------
(***************************************************************************)
(* Statistics and readings.  The invariant, over IInv: a transaction       *)
(* writes readings of one entity, has the bucket of that entity to itself, *)
(* and reads it only then; so the row it rebuilds is right until it        *)
(* commits, and the audit row remembers what the row said before.          *)
(***************************************************************************)
\* Every sensor has one reading only: corrections of two readings share no row
\* of the statistics.
ReadingsApart == \A r, s \in Rows : EntityOf[r] = EntityOf[s] => r = s

\* What keeps two transactions out of one bucket: that it holds one reading,
\* whose row is locked, or the lock on states_meta, which a restore does not
\* take; and a snapshot that is not older than those locks, which that of a
\* bulk correction on MariaDB is.
OneAtATime ==
  /\ SnapshotReads => \A q \in Requests : q.kind # "bulk"
  /\ ReadingsApart \/ (MetaLock /\ \A q \in Requests : q.kind # "restore")

\* The statistics row has the readings as they will be once c has committed.
Follows(c, bucket) ==
  \A r \in RowsOf(Subject(c)) \ foreign :
    Latest(c).states[r] # Absent => bucket[r] = Latest(c).states[r]

\* Plain reads are made once the bucket is locked, of what is committed then.
ReadsLate(c) ==
  /\ ~SnapshotReads \/ pc[c] \notin {"write", "commit"} => snap[c] = None
  /\ SnapshotReads \/ ReadingsApart =>
       \/ DOMAIN plan[c] = {}
       \/ pc[c] \in {"lock", "correct"} /\ w[c] = NoWrites /\ \E r \in Rows : DOMAIN plan[c] = {r}

\* A transaction writes rows of one entity, and has its bucket to itself.
OneBucket(c) ==
  /\ \A r \in DOMAIN w[c].states :
       /\ EntityOf[r] = Subject(c)
       /\ MetaLock /\ Correcting(c) => owner[<<"meta", Subject(c)>>] = c
  /\ DOMAIN w[c].stats # {} => DOMAIN w[c].states # {} /\ DOMAIN w[c].stats = {Subject(c)}

\* The row it rebuilds follows the readings, and is there when it commits.
BucketFollows(c) ==
  /\ pc[c] = "write" /\ Subject(c) \in Tracked => Follows(c, rebuilt[c].now)
  /\ pc[c] = "commit" /\ DOMAIN w[c].states # {} /\ Subject(c) \in Tracked =>
       Subject(c) \in DOMAIN w[c].stats /\ Follows(c, w[c].stats[Subject(c)])

\* bucket, kept for the audit row of a correction, has what the correction
\* found.
Remembers(entry, bucket) == entry.row \in foreign \/ bucket[entry.row] = entry.orig

\* The audit row of a correction comes to remember the statistics it found.
OriginalKept(c) ==
  /\ DOMAIN w[c].kept # {} => Correcting(c)
  /\ ReadingsApart /\ pc[c] = "read" => DOMAIN w[c].stats = {}
  /\ ReadingsApart /\ Correcting(c) => \A i \in DOMAIN w[c].audit :
       LET entry == w[c].audit[i]
       IN  EntityOf[entry.row] \in Tracked =>
             \/ i \in DOMAIN w[c].kept /\ Remembers(entry, w[c].kept[i])
             \/ pc[c] = "read" /\ i \notin DOMAIN w[c].kept
             \/ pc[c] = "write" /\ i \notin DOMAIN w[c].kept /\ Remembers(entry, rebuilt[c].was)

OriginalsKept ==
  ReadingsApart => \A i \in Ids : Active(db, i) /\ EntityOf[db.audit[i].row] \in Tracked =>
    db.kept[i] # None /\ Remembers(db.audit[i], db.kept[i])

BucketInv(c) == ReadsLate(c) /\ OneBucket(c) /\ BucketFollows(c) /\ OriginalKept(c)

StatsInv ==
  /\ StatisticsFollowStates
  /\ OriginalsKept
  /\ \A c \in Clients : BucketInv(c)

-----------------------------------------------------------------------------
\* A transaction that is rebuilding a bucket has written one of its readings.
LEMMA HasWritten ==
  ASSUME IInv, NEW c \in Clients, pc[c] \in {"read", "write"}
  PROVE  DOMAIN w[c].states # {} /\ DOMAIN w[c].audit # {}
<1>1. Progress(c) /\ Uncommitted(c)
  BY DEF IInv
<1>2. CASE req[c].kind = "restore" /\ DOMAIN w[c].audit = {req[c].id}
  <2>1. RestoreWrites(c)
    BY <1>1, <1>2 DEF Uncommitted
  <2> QED
    BY <1>2, <2>1 DEF RestoreWrites
<1>3. CASE Correcting(c) /\ DOMAIN w[c].audit \ DOMAIN w[c].kept # {}
  <2>1. CorrectionWrites(c)
    BY <1>1, <1>3 DEF Uncommitted
  <2>2. PICK i \in DOMAIN w[c].audit : TRUE
    BY <1>3
  <2> QED
    BY <2>1, <2>2 DEF CorrectionWrites
<1> QED
  BY <1>1, <1>2, <1>3 DEF Progress

\* What wrote a reading is a correction or a restore.
LEMMA WritersAre ==
  ASSUME IInv, NEW c \in Clients, DOMAIN w[c].states # {}
  PROVE  /\ pc[c] # "idle" /\ req[c] \in Requests /\ DOMAIN w[c].audit # {}
         /\ \/ Correcting(c) /\ req[c].kind # "restore" /\ CorrectionWrites(c)
            \/ ~Correcting(c) /\ req[c].kind = "restore" /\ RestoreWrites(c)
<1>1. Progress(c) /\ Uncommitted(c)
  BY DEF IInv
<1>2. pc[c] # "idle" /\ DOMAIN w[c].audit # {}
  BY <1>1, NoWritesType DEF Progress, Uncommitted
<1>3. req[c] \in Requests
  BY <1>1, <1>2 DEF Progress
<1>4. req[c].kind \in {"apply", "bulk", "restore"}
  BY <1>1, <1>2, <1>3, RequestKinds DEF Uncommitted
<1> QED
  BY <1>1, <1>2, <1>3, <1>4 DEF Uncommitted, Correcting

LEMMA SubjectIsEntity ==
  ASSUME IInv, NEW c \in Clients, OneBucket(c), DOMAIN w[c].states # {}
  PROVE  Subject(c) \in Entities
<1>1. PICK r \in DOMAIN w[c].states : EntityOf[r] = Subject(c)
  BY DEF OneBucket
<1>2. r \in Rows
  BY WriteDomains DEF IInv
<1> QED
  BY <1>1, <1>2, EntityOfAssumption

\* No two transactions have written readings of one bucket.
LEMMA BucketIsExclusive ==
  ASSUME IInv, OneAtATime, NEW c \in Clients, NEW d \in Clients \ {c},
         OneBucket(c), OneBucket(d), DOMAIN w[c].states # {}, DOMAIN w[d].states # {}
  PROVE  Subject(c) # Subject(d)
<1> SUFFICES ASSUME Subject(c) = Subject(d) PROVE FALSE
  OBVIOUS
<1>1. PICK r \in DOMAIN w[c].states : EntityOf[r] = Subject(c)
  BY DEF OneBucket
<1>2. PICK s \in DOMAIN w[d].states : EntityOf[s] = Subject(d)
  BY DEF OneBucket
<1>3. r \in Rows /\ s \in Rows
  BY WriteDomains DEF IInv
<1>4. HoldsItsWrites(c) /\ HoldsItsWrites(d)
  BY DEF IInv, WritesAreLocked
<1>5. CASE ReadingsApart
  <2>1. r = s
    BY <1>1, <1>2, <1>3, <1>5 DEF ReadingsApart
  <2>2. owner[<<"row", r>>] = c
    BY <1>4 DEF HoldsItsWrites
  <2>3. owner[<<"row", s>>] = d
    BY <1>4 DEF HoldsItsWrites
  <2> QED
    BY <2>1, <2>2, <2>3
<1>6. CASE MetaLock /\ \A q \in Requests : q.kind # "restore"
  <2>1. Correcting(c) /\ Correcting(d)
    BY <1>6, WritersAre
  <2> QED
    BY <1>1, <1>2, <1>6, <2>1 DEF OneBucket
<1> QED
  BY <1>5, <1>6 DEF OneAtATime

LEMMA SubjectStays ==
  ASSUME IInv, NEW d \in Clients, Undisturbed(d), DOMAIN w[d].states # {}
  PROVE  Subject(d)' = Subject(d)
<1>1. req'[d] = req[d]
  BY DEF Undisturbed
<1>2. CASE req[d].kind = "restore"
  <2>1. DOMAIN w[d].audit = {req[d].id}
    BY <1>2, WritersAre DEF RestoreWrites
  <2>2. req[d].id \in Ids /\ owner[<<"audit", req[d].id>>] = d
    BY <2>1, WriteDomains DEF IInv, WritesAreLocked, HoldsItsWrites
  <2>3. db'.audit[req[d].id] = db.audit[req[d].id]
    BY <2>2 DEF Undisturbed
  <2> QED
    BY <1>1, <1>2, <2>3 DEF Subject
<1>3. CASE req[d].kind # "restore"
  BY <1>1, <1>3 DEF Subject
<1> QED
  BY <1>2, <1>3

\* What a transaction sees of the readings, in the next state.
LEMMA LatestNext ==
  ASSUME TypeOK', NEW c \in Clients
  PROVE  \A r \in Rows : Latest(c)'.states[r] =
           IF r \in DOMAIN w'[c].states THEN w'[c].states[r] ELSE db'.states[r]
<1>1. db'.states \in [Rows -> Cell]
  BY DEF TypeOK, Db
<1>2. Latest(c)'.states = Over(w'[c].states, db'.states)
  BY DEF Latest, Merge
<1> QED
  BY <1>1, <1>2 DEF Over

(***************************************************************************)
(* A step of somebody else, which changes no reading of the bucket, except *)
(* to purge it or to make it foreign.                                      *)
(***************************************************************************)
LEMMA OthersKeepBucket ==
  ASSUME IInv, TypeOK', NEW d \in Clients, Undisturbed(d), BucketInv(d),
         snap'[d] = snap[d], foreign \subseteq foreign',
         \A r \in Rows \ foreign' :
           DOMAIN w[d].states # {} /\ EntityOf[r] = Subject(d) => db'.states[r] \in {db.states[r], Absent}
  PROVE  BucketInv(d)'
<1>1. /\ pc'[d] = pc[d] /\ req'[d] = req[d] /\ plan'[d] = plan[d]
      /\ w'[d] = w[d] /\ rebuilt'[d] = rebuilt[d]
  BY DEF Undisturbed
<1>2. TypeOK /\ DOMAIN w[d].states \subseteq Rows
  BY WriteDomains DEF IInv
<1>3. Correcting(d)' = Correcting(d)
  BY <1>1 DEF Correcting
<1>4. ReadsLate(d)'
  BY <1>1 DEF BucketInv, ReadsLate
<1>5. OneBucket(d)'
  <2>1. CASE DOMAIN w[d].states = {}
    BY <1>1, <2>1 DEF BucketInv, OneBucket
  <2>2. CASE DOMAIN w[d].states # {}
    <3>1. Subject(d)' = Subject(d) /\ Subject(d) \in Entities
      BY <2>2, SubjectStays, SubjectIsEntity DEF BucketInv
    <3>2. owner[<<"meta", Subject(d)>>] = d => owner'[<<"meta", Subject(d)>>] = d
      BY <3>1, ResourceKinds DEF Undisturbed
    <3> QED
      BY <1>1, <1>3, <3>1, <3>2 DEF BucketInv, OneBucket
  <2> QED
    BY <2>1, <2>2
<1>6. ASSUME NEW bucket, DOMAIN w[d].states # {}, Follows(d, bucket) PROVE Follows(d, bucket)'
  <2>1. Subject(d)' = Subject(d)
    BY <1>6, SubjectStays
  <2>2. SUFFICES ASSUME NEW r \in RowsOf(Subject(d)) \ foreign', Latest(d)'.states[r] # Absent
                 PROVE  bucket[r] = Latest(d)'.states[r]
    BY <2>1 DEF Follows
  <2>3. r \in Rows /\ EntityOf[r] = Subject(d) /\ r \notin foreign
    BY <2>2 DEF RowsOf
  <2>4. Latest(d)'.states[r] = Latest(d).states[r]
    BY <1>1, <1>2, <1>6, <2>2, <2>3, LatestValues, LatestNext
  <2> QED
    BY <1>6, <2>2, <2>4 DEF Follows
<1>7. BucketFollows(d)'
  <2>1. pc[d] = "write" => DOMAIN w[d].states # {}
    BY HasWritten
  <2>2. DOMAIN w[d].states # {} => Subject(d)' = Subject(d)
    BY SubjectStays
  <2>3. ASSUME pc'[d] = "write", Subject(d)' \in Tracked PROVE Follows(d, rebuilt[d].now)'
    <3>1. PICK now : now = rebuilt[d].now
      OBVIOUS
    <3>2. Follows(d, now)
      BY <1>1, <2>1, <2>2, <2>3, <3>1 DEF BucketInv, BucketFollows
    <3>3. Follows(d, now)'
      BY <1>1, <1>6, <2>1, <2>3, <3>2
    <3> QED
      BY <1>1, <3>1, <3>3 DEF Follows
  <2>4. ASSUME pc'[d] = "commit", DOMAIN w'[d].states # {}, Subject(d)' \in Tracked
        PROVE  Subject(d)' \in DOMAIN w'[d].stats /\ Follows(d, w[d].stats[Subject(d)])'
    <3>1. PICK now : now = w[d].stats[Subject(d)]
      OBVIOUS
    <3>2. Subject(d) \in DOMAIN w[d].stats /\ Follows(d, now)
      BY <1>1, <2>2, <2>4, <3>1 DEF BucketInv, BucketFollows
    <3>3. Follows(d, now)'
      BY <1>1, <1>6, <2>4, <3>2
    <3> QED
      BY <1>1, <2>2, <2>4, <3>1, <3>2, <3>3 DEF Follows
  <2> QED
    BY <2>3, <2>4 DEF BucketFollows
<1>8. OriginalKept(d)'
  BY <1>1, <1>3 DEF BucketInv, OriginalKept, Remembers
<1> QED
  BY <1>4, <1>5, <1>7, <1>8 DEF BucketInv

\* A step of one thread that commits nothing.
LEMMA StepKeepsStats ==
  ASSUME IInv, IInv', StatsInv, NEW c \in Clients, BucketInv(c)', UNCHANGED <<db, foreign>>,
         \A d \in Clients \ {c} : Undisturbed(d) /\ snap'[d] = snap[d]
  PROVE  StatsInv'
<1>1. StatisticsFollowStates'
  BY DEF StatsInv, StatisticsFollowStates
<1>2. OriginalsKept'
  BY DEF StatsInv, OriginalsKept, Active, Recorded, Remembers
<1>3. ASSUME NEW d \in Clients PROVE BucketInv(d)'
  <2>1. CASE d = c
    BY <2>1
  <2>2. CASE d # c
    <3>1. TypeOK' /\ Undisturbed(d) /\ snap'[d] = snap[d] /\ BucketInv(d)
      BY <2>2 DEF IInv, StatsInv
    <3> QED
      BY <3>1, OthersKeepBucket
  <2> QED
    BY <2>1, <2>2
<1> QED
  BY <1>1, <1>2, <1>3 DEF StatsInv

LEMMA FinishedBucket ==
  ASSUME TypeOK, NEW c \in Clients, Finish(c)
  PROVE  /\ BucketInv(c)'
         /\ \A d \in Clients \ {c} :
              /\ pc'[d] = pc[d] /\ req'[d] = req[d] /\ plan'[d] = plan[d] /\ w'[d] = w[d]
              /\ rebuilt'[d] = rebuilt[d] /\ snap'[d] = snap[d]
              /\ \A x \in Resources : owner[x] = d => owner'[x] = d
<1>1. /\ pc'[c] = "idle" /\ w'[c] = NoWrites /\ plan'[c] = EmptyFun /\ snap'[c] = None
  BY DEF Finish, TypeOK
<1>2. BucketInv(c)'
  BY <1>1, NoWritesType, EmptyFunType
  DEF BucketInv, ReadsLate, OneBucket, BucketFollows, OriginalKept
<1>3. ASSUME NEW d \in Clients \ {c}
      PROVE  /\ pc'[d] = pc[d] /\ req'[d] = req[d] /\ plan'[d] = plan[d] /\ w'[d] = w[d]
             /\ rebuilt'[d] = rebuilt[d] /\ snap'[d] = snap[d]
  BY DEF Finish, TypeOK
<1>4. ASSUME NEW d \in Clients \ {c}, NEW x \in Resources, owner[x] = d PROVE owner'[x] = d
  BY <1>4 DEF Finish
<1> QED
  BY <1>2, <1>3, <1>4

LEMMA RollbackKeepsStats ==
  ASSUME IInv, IInv', StatsInv, NEW c \in Clients, Rollback(c)
  PROVE  StatsInv'
<1>1. BucketInv(c)'
  BY FinishedBucket DEF Rollback, IInv
<1>2. ASSUME NEW d \in Clients \ {c} PROVE Undisturbed(d) /\ snap'[d] = snap[d]
  BY FinishedBucket DEF Rollback, IInv, Undisturbed
<1>3. UNCHANGED <<db, foreign>>
  BY DEF Rollback
<1> QED
  BY <1>1, <1>2, <1>3, StepKeepsStats

LEMMA SubmitKeepsStats ==
  ASSUME IInv, IInv', StatsInv, NEW c \in Clients, NEW q \in Requests, Submit(c, q)
  PROVE  StatsInv'
<1>1. TypeOK /\ Progress(c) /\ BucketInv(c)
  BY DEF IInv, StatsInv
<1>2. /\ pc[c] = "idle" /\ w[c] = NoWrites /\ snap[c] = None
  BY <1>1 DEF Submit, Progress, BucketInv, ReadsLate
<1>3. /\ w'[c] = NoWrites /\ snap'[c] = None
      /\ plan'[c] = IF q.kind = "apply" THEN [r \in {q.row} |-> q.new] ELSE EmptyFun
      /\ pc'[c] = CASE q.kind = "apply" -> "lock" [] q.kind = "bulk" -> "bulk" [] OTHER -> "audit"
  BY <1>1, <1>2 DEF Submit, TypeOK
<1>4. ReadsLate(c)'
  <2>1. CASE q.kind = "apply"
    <3>1. DOMAIN plan'[c] = {q.row} /\ q.row \in Rows /\ pc'[c] = "lock"
      BY <1>3, <2>1, RequestKinds DEF ApplyRequest
    <3> QED
      BY <1>3, <3>1 DEF ReadsLate
  <2>2. CASE q.kind # "apply"
    BY <1>3, <2>2, EmptyFunType DEF ReadsLate
  <2> QED
    BY <2>1, <2>2
<1>5. pc'[c] \in {"lock", "bulk", "audit"}
  BY <1>3
<1>6. BucketInv(c)'
  BY <1>3, <1>4, <1>5, NoWritesType DEF BucketInv, OneBucket, BucketFollows, OriginalKept
<1>7. ASSUME NEW d \in Clients \ {c} PROVE Undisturbed(d) /\ snap'[d] = snap[d]
  BY <1>1, <1>7 DEF Submit, TypeOK, Undisturbed
<1>8. UNCHANGED <<db, foreign>>
  BY DEF Submit
<1> QED
  BY <1>6, <1>7, <1>8, StepKeepsStats

LEMMA BulkReadKeepsStats ==
  ASSUME IInv, IInv', OneAtATime, StatsInv, NEW c \in Clients, BulkRead(c)
  PROVE  StatsInv'
<1> DEFINE q == req[c]
           targets == BulkTargets(View(c), q)
<1>1. TypeOK /\ Progress(c) /\ BucketInv(c)
  BY DEF IInv, StatsInv
<1>2. CASE Rollback(c)
  BY <1>2, RollbackKeepsStats
<1>3. CASE ~Rollback(c)
  <2>1. PICK new \in [targets -> Numeric] : plan' = [plan EXCEPT ![c] = new]
    BY <1>3 DEF BulkRead, BulkPlans
  <2>2. /\ pc[c] = "bulk"
        /\ pc' = [pc EXCEPT ![c] = IF targets = {} THEN "commit" ELSE "lock"]
        /\ TakeSnapshot(c)
        /\ UNCHANGED <<db, nextId, owner, req, w, rebuilt, recorded, foreign>>
    BY <1>3 DEF BulkRead
  <2>3. q \in Requests /\ q.kind = "bulk" /\ w[c] = NoWrites
    BY <1>1, <2>2 DEF Progress
  <2>4. ~SnapshotReads /\ snap' = snap /\ snap[c] = None
    BY <1>1, <2>2, <2>3 DEF OneAtATime, TakeSnapshot, BucketInv, ReadsLate
  <2>5. \A r, s \in targets : EntityOf[r] = EntityOf[s] /\ r \in Rows
    BY DEF BulkTargets, RowsOf
  <2> HIDE DEF targets
  <2>6. /\ plan'[c] = new /\ w'[c] = NoWrites /\ snap'[c] = None
        /\ pc'[c] = IF targets = {} THEN "commit" ELSE "lock"
    BY <1>1, <2>1, <2>2, <2>3, <2>4 DEF TypeOK
  <2>7. ReadsLate(c)'
    <3>1. SUFFICES ASSUME ReadingsApart, targets # {} PROVE \E r \in Rows : targets = {r}
      BY <2>1, <2>4, <2>6 DEF ReadsLate
    <3>2. PICK r \in targets : TRUE
      BY <3>1
    <3>3. \A s \in targets : s = r
      BY <2>5, <3>1 DEF ReadingsApart
    <3>4. targets = {r} /\ r \in Rows
      BY <2>5, <3>2, <3>3
    <3> QED
      BY <3>4
  <2>8. BucketInv(c)'
    BY <2>6, <2>7, NoWritesType DEF BucketInv, OneBucket, BucketFollows, OriginalKept
  <2>9. ASSUME NEW d \in Clients \ {c} PROVE Undisturbed(d) /\ snap'[d] = snap[d]
    BY <1>1, <2>1, <2>2, <2>4, <2>9 DEF TypeOK, Undisturbed
  <2> QED
    BY <2>2, <2>8, <2>9, StepKeepsStats
<1> QED
  BY <1>2, <1>3

LEMMA LockRowKeepsStats ==
  ASSUME IInv, IInv', StatsInv, NEW c \in Clients, LockRow(c)
  PROVE  StatsInv'
<1> DEFINE x == <<"row", NextRow(c)>>
<1>1. TypeOK /\ Progress(c) /\ BucketInv(c)
  BY DEF IInv, StatsInv
<1>2. /\ pc[c] = "lock" /\ CanLock(c, x)
      /\ owner' = [owner EXCEPT ![x] = c]
      /\ pc' = [pc EXCEPT ![c] = "correct"]
      /\ UNCHANGED <<db, nextId, req, plan, w, snap, rebuilt, recorded, foreign>>
  BY DEF LockRow, Lock
<1>3. x \in Resources
  BY <1>1, <1>2, NextRowType, ResourceKinds DEF Progress
<1>4. \A y \in Resources, d \in Clients : owner[y] = d => owner'[y] = d
  <2>1. \A y \in Resources : owner'[y] = IF y = x THEN c ELSE owner[y]
    BY <1>1, <1>2, <1>3 DEF TypeOK
  <2> QED
    BY <1>2, <2>1, NobodyAssumption DEF CanLock
<1>5. pc'[c] = "correct"
  BY <1>1, <1>2 DEF TypeOK
<1>6. ReadsLate(c)'
  BY <1>1, <1>2, <1>5 DEF BucketInv, ReadsLate
<1>7. OneBucket(c)'
  <2>1. Subject(c)' = Subject(c)
    BY <1>2 DEF Subject
  <2>2. DOMAIN w[c].states # {} => Subject(c) \in Entities
    BY <1>1, SubjectIsEntity DEF BucketInv
  <2>3. DOMAIN w[c].states # {} /\ owner[<<"meta", Subject(c)>>] = c => owner'[<<"meta", Subject(c)>>] = c
    BY <1>4, <2>2, ResourceKinds
  <2> QED
    BY <1>1, <1>2, <2>1, <2>3 DEF BucketInv, OneBucket, Correcting
<1>8. BucketFollows(c)' /\ OriginalKept(c)'
  BY <1>1, <1>2, <1>5 DEF BucketInv, BucketFollows, OriginalKept, Remembers, Correcting
<1>9. ASSUME NEW d \in Clients \ {c} PROVE Undisturbed(d) /\ snap'[d] = snap[d]
  BY <1>1, <1>2, <1>4, <1>9 DEF TypeOK, Undisturbed
<1> QED
  BY <1>2, <1>6, <1>7, <1>8, <1>9, StepKeepsStats DEF BucketInv

LEMMA CorrectRowKeepsStats ==
  ASSUME IInv, IInv', OneAtATime, StatsInv, NEW c \in Clients, CorrectRow(c)
  PROVE  StatsInv'
<1> DEFINE r == NextRow(c)
           meta == <<"meta", EntityOf[r]>>
           entry == NewEntry(Latest(c), r, plan[c][r])
           states1 == Put(w[c].states, r, plan[c][r])
           audit1 == Put(w[c].audit, nextId, entry)
<1>1. TypeOK /\ Progress(c) /\ BucketInv(c)
  BY DEF IInv, StatsInv
<1>2. CASE Rollback(c)
  BY <1>2, RollbackKeepsStats
<1>3. CASE ~Rollback(c)
  <2>1. /\ pc[c] = "correct"
        /\ MetaLock => CanLock(c, meta)
        /\ RowAccepted(Latest(c), req[c], r)
        /\ nextId \in Ids
        /\ owner' = [owner EXCEPT ![<<"audit", nextId>>] = c, ![meta] = IF MetaLock THEN c ELSE @]
        /\ w' = [w EXCEPT ![c].states = Put(@, r, plan[c][r]), ![c].audit = Put(@, nextId, entry)]
        /\ plan' = [plan EXCEPT ![c] = Without(@, r)]
        /\ pc' = [pc EXCEPT ![c] = IF EntityOf[r] \in Tracked THEN "read"
                                   ELSE IF DOMAIN plan[c] = {r} THEN "commit" ELSE "lock"]
        /\ UNCHANGED <<db, req, snap, rebuilt, recorded, foreign>>
    BY <1>3 DEF CorrectRow
  <2>2. /\ req[c] \in Requests /\ Correcting(c) /\ req[c].kind # "restore"
        /\ DOMAIN plan[c] # {}
    BY <1>1, <2>1 DEF Progress, Correcting
  <2>3. r \in DOMAIN plan[c] /\ r \in Rows
    BY <1>1, <2>2, NextRowType
  <2>4. Subject(c) = EntityOf[r] /\ Subject(c)' = EntityOf[r] /\ EntityOf[r] \in Entities
    BY <2>1, <2>2, <2>3, EntityOfAssumption DEF Subject, RowAccepted
  <2>5. ~Recorded(db, nextId) /\ owner[<<"audit", nextId>>] = Nobody
    BY <2>1 DEF IInv, FreshIds, Ids
  <2> HIDE DEF r, entry, meta
  <2>6. w[c] \in Writes
    BY <1>1 DEF TypeOK
  <2> HIDE DEF states1, audit1
  <2>7. /\ w'[c] = [w[c] EXCEPT !.states = states1, !.audit = audit1]
        /\ \A d \in Clients \ {c} : w'[d] = w[d]
    BY <1>1, <2>1, <2>6 DEF TypeOK, Writes, states1, audit1
  <2>8. /\ w'[c].states = states1 /\ w'[c].audit = audit1
        /\ w'[c].stats = w[c].stats /\ w'[c].kept = w[c].kept
    BY <2>6, <2>7 DEF Writes
  <2>9. meta \in Resources
    BY <2>4, ResourceKinds DEF meta
  <2>10. \A y \in Resources :
            owner'[y] = IF y = <<"audit", nextId>> \/ (y = meta /\ MetaLock) THEN c ELSE owner[y]
    BY <1>1, <2>1, <2>9, ResourceKinds DEF TypeOK, meta
  <2>11. \A y \in Resources, d \in Clients : owner[y] = d => owner'[y] = d
    BY <2>1, <2>5, <2>10, NobodyAssumption DEF CanLock
  <2>12. /\ plan'[c] = Without(plan[c], r)
         /\ req'[c] = req[c] /\ snap'[c] = snap[c]
         /\ pc'[c] = IF EntityOf[r] \in Tracked THEN "read"
                     ELSE IF DOMAIN plan[c] = {r} THEN "commit" ELSE "lock"
    BY <1>1, <2>1 DEF TypeOK
  <2>13. /\ DOMAIN plan'[c] = DOMAIN plan[c] \ {r}
         /\ DOMAIN states1 = DOMAIN w[c].states \cup {r}
         /\ DOMAIN audit1 = DOMAIN w[c].audit \cup {nextId}
    <3>1. DOMAIN plan'[c] = DOMAIN plan[c] \ {r}
      BY <2>12 DEF Without
    <3>2. DOMAIN states1 = DOMAIN w[c].states \cup {r}
      BY DEF Put, states1
    <3>3. DOMAIN audit1 = DOMAIN w[c].audit \cup {nextId}
      BY DEF Put, audit1
    <3> QED
      BY <3>1, <3>2, <3>3
  <2>14. snap[c] = None /\ (SnapshotReads \/ ReadingsApart => DOMAIN plan'[c] = {} /\ w[c] = NoWrites)
    <3>1. snap[c] = None
      BY <1>1, <2>1 DEF BucketInv, ReadsLate
    <3>2. SnapshotReads \/ ReadingsApart => w[c] = NoWrites /\ \E s \in Rows : DOMAIN plan[c] = {s}
      BY <1>1, <2>2 DEF BucketInv, ReadsLate
    <3> QED
      BY <2>3, <2>13, <3>1, <3>2
  <2>15. ReadsLate(c)'
    BY <2>12, <2>14 DEF ReadsLate
  <2>16. OneBucket(c)'
    <3>1. MetaLock => owner'[<<"meta", EntityOf[r]>>] = c
      BY <2>9, <2>10 DEF meta
    <3>2. \A s \in DOMAIN states1 : EntityOf[s] = EntityOf[r]
      BY <1>1, <2>4, <2>13 DEF BucketInv, OneBucket
    <3>3. DOMAIN w[c].stats # {} => DOMAIN w[c].stats = {EntityOf[r]}
      BY <1>1, <2>4 DEF BucketInv, OneBucket
    <3> QED
      BY <2>4, <2>8, <2>13, <3>1, <3>2, <3>3 DEF OneBucket
  <2>17. BucketFollows(c)'
    BY <2>4, <2>12 DEF BucketFollows
  <2>18. OriginalKept(c)'
    <3>1. Correcting(c)'
      BY <2>2, <2>12 DEF Correcting
    <3>2. CASE ~ReadingsApart
      BY <3>1, <3>2 DEF OriginalKept
    <3>3. CASE ReadingsApart
      <4>1. DOMAIN w'[c].kept = {} /\ DOMAIN w'[c].stats = {} /\ DOMAIN w'[c].audit = {nextId}
        BY <2>8, <2>13, <2>14, <3>3, NoWritesType
      <4>2. audit1[nextId].row = r
        BY DEF audit1, Put, entry, NewEntry
      <4>3. EntityOf[r] \in Tracked => pc'[c] = "read"
        BY <2>12
      <4> QED
        BY <2>8, <3>1, <4>1, <4>2, <4>3 DEF OriginalKept
    <3> QED
      BY <3>2, <3>3
  <2>19. ASSUME NEW d \in Clients \ {c} PROVE Undisturbed(d) /\ snap'[d] = snap[d]
    BY <1>1, <2>1, <2>7, <2>11, <2>19 DEF TypeOK, Undisturbed
  <2> QED
    BY <2>1, <2>15, <2>16, <2>17, <2>18, <2>19, StepKeepsStats DEF BucketInv
<1> QED
  BY <1>2, <1>3

\* What a transaction sees of the statistics.
LEMMA LatestStats ==
  ASSUME TypeOK, NEW c \in Clients
  PROVE  /\ \A e \in Entities : Latest(c).stats[e] =
              IF e \in DOMAIN w[c].stats THEN w[c].stats[e] ELSE db.stats[e]
         /\ \A i \in Ids : Latest(c).kept[i] =
              IF i \in DOMAIN w[c].kept THEN w[c].kept[i] ELSE db.kept[i]
<1>1. DOMAIN db.stats = Entities /\ DOMAIN db.kept = Ids
  BY DEF TypeOK, Db
<1>2. /\ Latest(c).stats = Over(w[c].stats, db.stats)
      /\ Latest(c).kept = Over(w[c].kept, db.kept)
  BY DEF Latest, Merge
<1> QED
  BY <1>1, <1>2 DEF Over

LEMMA ReadBucketKeepsStats ==
  ASSUME IInv, IInv', StatsInv, NEW c \in Clients, ReadBucket(c)
  PROVE  StatsInv'
<1> DEFINE e == Subject(c)
           fresh == [now |-> BucketOf(View(c).states, e), was |-> View(c).stats[e]]
<1>1. TypeOK /\ Progress(c) /\ Uncommitted(c) /\ BucketInv(c)
  BY DEF IInv, StatsInv
<1>2. /\ pc[c] = "read"
      /\ rebuilt' = [rebuilt EXCEPT ![c] = fresh]
      /\ pc' = [pc EXCEPT ![c] = "write"]
      /\ TakeSnapshot(c)
      /\ UNCHANGED <<db, nextId, owner, req, plan, w, recorded, foreign>>
  BY DEF ReadBucket
<1>3. snap[c] = None
  BY <1>1, <1>2 DEF BucketInv, ReadsLate
<1>4. View(c) = Latest(c)
  BY <1>3 DEF View, Latest
<1>5. pc'[c] = "write" /\ rebuilt'[c] = fresh /\ Subject(c)' = e /\ Correcting(c)' = Correcting(c)
  BY <1>1, <1>2 DEF TypeOK, Subject, Correcting
<1>6. ReadsLate(c)'
  <2>1. ~SnapshotReads => snap' = snap
    BY <1>2 DEF TakeSnapshot
  <2> QED
    BY <1>1, <1>2, <1>3, <1>5, <2>1 DEF BucketInv, ReadsLate
<1>7. OneBucket(c)'
  BY <1>1, <1>2, <1>5 DEF BucketInv, OneBucket
<1>8. BucketFollows(c)'
  <2>1. SUFFICES ASSUME NEW r \in RowsOf(e) \ foreign, Latest(c)'.states[r] # Absent
                 PROVE  fresh.now[r] = Latest(c)'.states[r]
    BY <1>2, <1>5 DEF BucketFollows, Follows
  <2>2. Latest(c)' = Latest(c)
    BY <1>2 DEF Latest
  <2>3. fresh.now = [s \in RowsOf(e) |-> View(c).states[s]]
    BY DEF BucketOf
  <2> QED
    BY <1>4, <2>2, <2>3
<1>9. OriginalKept(c)'
  <2>1. SUFFICES ASSUME ReadingsApart, Correcting(c), NEW i \in DOMAIN w[c].audit,
                        EntityOf[w[c].audit[i].row] \in Tracked, i \notin DOMAIN w[c].kept
                 PROVE  Remembers(w[c].audit[i], fresh.was)
    BY <1>1, <1>2, <1>5 DEF BucketInv, OriginalKept, Remembers
  <2> DEFINE entry == w[c].audit[i]
  <2>2. /\ entry.row \in DOMAIN w[c].states /\ entry.orig = db.states[entry.row]
        /\ entry \in AuditRow
    <3>1. CorrectionWrites(c)
      BY <1>1, <1>2, <2>1 DEF Uncommitted
    <3>2. entry \in AuditRow
      BY <1>1, WriteDomains, PartialFunDef
    <3> QED
      BY <3>1, <3>2 DEF CorrectionWrites
  <2>3. entry.row \in Rows /\ EntityOf[entry.row] = e /\ e \in Tracked /\ entry.orig \in Values
    BY <1>1, <2>1, <2>2 DEF BucketInv, OneBucket, AuditRow
  <2>4. entry.orig # Absent
    BY <2>3, ValuesAssumption
  <2>5. fresh.was = db.stats[e]
    <3>1. DOMAIN w[c].stats = {} /\ e \in Entities
      BY <1>1, <1>2, <2>1, <2>3, EntitiesAssumption DEF BucketInv, OriginalKept
    <3> QED
      BY <1>1, <1>4, <3>1, LatestStats
  <2>6. entry.row \notin foreign => db.stats[e][entry.row] = db.states[entry.row]
    BY <2>2, <2>3, <2>4 DEF StatsInv, StatisticsFollowStates, RowsOf
  <2> QED
    BY <2>2, <2>5, <2>6 DEF Remembers
<1>10. ASSUME NEW d \in Clients \ {c} PROVE Undisturbed(d) /\ snap'[d] = snap[d]
  <2>1. snap'[d] = snap[d]
    BY <1>1, <1>2 DEF TypeOK, TakeSnapshot
  <2> QED
    BY <1>1, <1>2, <2>1 DEF TypeOK, Undisturbed
<1> QED
  BY <1>2, <1>6, <1>7, <1>8, <1>9, <1>10, StepKeepsStats DEF BucketInv

LEMMA WriteBucketKeepsStats ==
  ASSUME IInv, IInv', StatsInv, NEW c \in Clients, WriteBucket(c)
  PROVE  StatsInv'
<1> DEFINE e == Subject(c)
           x == <<"stats", e>>
           inserted == CHOOSE i \in DOMAIN w[c].audit : i \notin DOMAIN w[c].kept
           stats1 == Put(w[c].stats, e, rebuilt[c].now)
           kept1 == IF req[c].kind = "restore" THEN w[c].kept
                    ELSE Put(w[c].kept, inserted, rebuilt[c].was)
<1>1. TypeOK /\ Progress(c) /\ Uncommitted(c) /\ BucketInv(c)
  BY DEF IInv, StatsInv
<1>2. /\ pc[c] = "write"
      /\ CanLock(c, x)
      /\ owner' = [owner EXCEPT ![x] = c]
      /\ w' = [w EXCEPT ![c].stats = Put(@, e, rebuilt[c].now),
                        ![c].kept = IF req[c].kind = "restore" THEN @
                                    ELSE Put(@, inserted, rebuilt[c].was)]
      /\ pc' = [pc EXCEPT ![c] = IF DOMAIN plan[c] = {} THEN "commit" ELSE "lock"]
      /\ rebuilt' = [rebuilt EXCEPT ![c] = None]
      /\ UNCHANGED <<db, nextId, req, plan, snap, recorded, foreign>>
  BY DEF WriteBucket, Lock, Originals
<1>3. e \in Entities /\ x \in Resources
  BY <1>2, SubjectType, ResourceKinds
<1>4. /\ DOMAIN w[c].states # {} /\ DOMAIN w[c].audit # {}
      /\ Correcting(c) <=> req[c].kind # "restore"
  BY <1>1, <1>2, HasWritten DEF Progress, Correcting
<1>5. Correcting(c) => inserted \in DOMAIN w[c].audit /\ inserted \notin DOMAIN w[c].kept
  BY <1>1, <1>2, <1>4 DEF Progress
<1>6. Subject(c)' = e /\ Correcting(c)' = Correcting(c)
  BY <1>2 DEF Subject, Correcting
<1> HIDE DEF e, x, inserted
<1>7. DOMAIN stats1 = DOMAIN w[c].stats \cup {e} /\ stats1[e] = rebuilt[c].now
  BY DEF Put
<1>8. Correcting(c) => /\ inserted \in DOMAIN kept1 /\ kept1[inserted] = rebuilt[c].was
  BY <1>4 DEF Put
<1>9. ~Correcting(c) => kept1 = w[c].kept
  BY <1>4
<1>10. w[c] \in Writes
  BY <1>1 DEF TypeOK
<1>11. /\ w'[c] = [w[c] EXCEPT !.stats = stats1, !.kept = kept1]
       /\ \A d \in Clients \ {c} : w'[d] = w[d]
  BY <1>1, <1>2, <1>10 DEF TypeOK, Writes
<1> HIDE DEF stats1, kept1
<1>12. /\ w'[c].states = w[c].states /\ w'[c].audit = w[c].audit
       /\ w'[c].stats = stats1 /\ w'[c].kept = kept1
  BY <1>10, <1>11 DEF Writes
<1>13. \A y \in Resources, d \in Clients : owner[y] = d => owner'[y] = d
  <2>1. \A y \in Resources : owner'[y] = IF y = x THEN c ELSE owner[y]
    BY <1>1, <1>2, <1>3 DEF TypeOK
  <2> QED
    BY <1>2, <2>1, NobodyAssumption DEF CanLock
<1>14. /\ pc'[c] = IF DOMAIN plan[c] = {} THEN "commit" ELSE "lock"
       /\ plan'[c] = plan[c] /\ snap'[c] = snap[c]
       /\ db' = db /\ foreign' = foreign
  BY <1>1, <1>2 DEF TypeOK
<1>15. ReadsLate(c)'
  <2>1. SnapshotReads \/ ReadingsApart => DOMAIN plan[c] = {}
    BY <1>1, <1>2 DEF BucketInv, ReadsLate
  <2>2. ~SnapshotReads => snap[c] = None
    BY <1>1 DEF BucketInv, ReadsLate
  <2> QED
    BY <1>2, <1>14, <2>1, <2>2 DEF ReadsLate
<1>16. OneBucket(c)'
  <2>1. DOMAIN stats1 = {e}
    BY <1>1, <1>7 DEF BucketInv, OneBucket, e
  <2>2. \A r \in DOMAIN w[c].states : EntityOf[r] = e
    BY <1>1 DEF BucketInv, OneBucket, e
  <2>3. MetaLock /\ Correcting(c) => owner[<<"meta", e>>] = c
    BY <1>1, <1>4 DEF BucketInv, OneBucket, e
  <2>4. MetaLock /\ Correcting(c) => owner'[<<"meta", e>>] = c
    BY <1>3, <1>13, <2>3, ResourceKinds
  <2> QED
    BY <1>4, <1>6, <1>12, <2>1, <2>2, <2>4 DEF OneBucket
<1>17. BucketFollows(c)'
  <2>1. SUFFICES ASSUME e \in Tracked, NEW r \in RowsOf(e) \ foreign, Latest(c)'.states[r] # Absent
                 PROVE  stats1[e][r] = Latest(c)'.states[r]
    <3>1. pc'[c] # "write"
      BY <1>14
    <3> QED
      BY <1>6, <1>7, <1>12, <1>14, <3>1 DEF BucketFollows, Follows
  <2>2. r \in Rows
    BY DEF RowsOf
  <2>3. Latest(c)'.states[r] = Latest(c).states[r]
    <3>1. Latest(c).states[r] = IF r \in DOMAIN w[c].states THEN w[c].states[r] ELSE db.states[r]
      BY <1>1, <2>2, LatestValues
    <3>2. Latest(c)'.states[r] = IF r \in DOMAIN w'[c].states THEN w'[c].states[r] ELSE db'.states[r]
      BY <2>2, LatestNext DEF IInv
    <3> QED
      BY <1>12, <1>14, <3>1, <3>2
  <2>4. rebuilt[c].now[r] = Latest(c).states[r]
    BY <1>1, <1>2, <2>1, <2>3 DEF BucketInv, BucketFollows, Follows, e
  <2> QED
    BY <1>7, <2>3, <2>4
<1>18. OriginalKept(c)'
  <2>1. DOMAIN kept1 # {} => Correcting(c)
    BY <1>1, <1>9 DEF BucketInv, OriginalKept
  <2>2. ASSUME ReadingsApart, Correcting(c), NEW i \in DOMAIN w[c].audit, EntityOf[w[c].audit[i].row] \in Tracked
        PROVE  i \in DOMAIN kept1 /\ Remembers(w[c].audit[i], kept1[i])
    <3>1. CorrectionWrites(c)
      BY <1>1, <1>2, <2>2 DEF Uncommitted
    <3>2. \A j \in DOMAIN w[c].audit : w[c].audit[j].row \in Rows /\ EntityOf[w[c].audit[j].row] = e
      BY <1>1, <3>1, WriteDomains DEF CorrectionWrites, BucketInv, OneBucket, e
    <3>3. w[c].audit[i].row = w[c].audit[inserted].row
      BY <1>5, <2>2, <3>2 DEF ReadingsApart
    <3>4. i = inserted
      BY <1>5, <2>2, <3>1, <3>3 DEF CorrectionWrites
    <3>5. Remembers(w[c].audit[i], rebuilt[c].was)
      BY <1>1, <1>2, <1>5, <2>2, <3>4 DEF BucketInv, OriginalKept
    <3> QED
      BY <1>8, <2>2, <3>4, <3>5
  <2>3. pc'[c] # "read"
    BY <1>14
  <2> QED
    BY <1>6, <1>12, <1>14, <2>1, <2>2, <2>3 DEF OriginalKept, Remembers
<1>19. ASSUME NEW d \in Clients \ {c} PROVE Undisturbed(d) /\ snap'[d] = snap[d]
  BY <1>1, <1>2, <1>11, <1>13, <1>19 DEF TypeOK, Undisturbed
<1> QED
  BY <1>2, <1>15, <1>16, <1>17, <1>18, <1>19, StepKeepsStats DEF BucketInv

LEMMA LockAuditKeepsStats ==
  ASSUME IInv, IInv', StatsInv, NEW c \in Clients, LockAudit(c)
  PROVE  StatsInv'
<1> DEFINE i == req[c].id
           x == <<"audit", i>>
           noted == [db.audit[i] EXCEPT !.dismissed = TRUE]
<1>1. TypeOK /\ Progress(c) /\ BucketInv(c)
  BY DEF IInv, StatsInv
<1>2. CASE Rollback(c)
  BY <1>2, RollbackKeepsStats
<1>3. CASE ~Rollback(c)
  <2>1. /\ pc[c] = "audit"
        /\ CanLock(c, x)
        /\ owner' = [owner EXCEPT ![x] = c]
        /\ pc' = [pc EXCEPT ![c] = IF req[c].kind = "dismiss" THEN "commit" ELSE "undo"]
        /\ w' = IF req[c].kind = "dismiss" THEN [w EXCEPT ![c].audit = Put(@, i, noted)] ELSE w
        /\ UNCHANGED <<db, nextId, req, plan, snap, rebuilt, recorded, foreign>>
    BY <1>3 DEF LockAudit, Lock
  <2>2. /\ w[c] = NoWrites /\ plan[c] = EmptyFun /\ snap[c] = None
        /\ req[c].kind \in {"restore", "dismiss"} /\ req[c] \in Requests
    BY <1>1, <2>1 DEF Progress, BucketInv, ReadsLate
  <2>3. x \in Resources
    BY <2>2, RequestKinds, ResourceKinds DEF UndoRequest
  <2> HIDE DEF x, noted
  <2>4. \A y \in Resources, d \in Clients : owner[y] = d => owner'[y] = d
    <3>1. \A y \in Resources : owner'[y] = IF y = x THEN c ELSE owner[y]
      BY <1>1, <2>1, <2>3 DEF TypeOK
    <3> QED
      BY <2>1, <3>1, NobodyAssumption DEF CanLock
  <2>5. /\ w'[c].states = w[c].states /\ w'[c].stats = w[c].stats /\ w'[c].kept = w[c].kept
        /\ \A d \in Clients \ {c} : w'[d] = w[d]
    <3>1. w[c] \in Writes /\ DOMAIN w = Clients
      BY <1>1 DEF TypeOK
    <3> QED
      BY <2>1, <3>1 DEF Writes
  <2>6. pc'[c] \in {"commit", "undo"} /\ plan'[c] = EmptyFun /\ snap'[c] = None
    BY <1>1, <2>1, <2>2 DEF TypeOK
  <2>7. ~Correcting(c)'
    BY <2>1, <2>2 DEF Correcting
  <2>8. BucketInv(c)'
    BY <2>2, <2>5, <2>6, <2>7, NoWritesType, EmptyFunType
    DEF BucketInv, ReadsLate, OneBucket, BucketFollows, OriginalKept
  <2>9. ASSUME NEW d \in Clients \ {c} PROVE Undisturbed(d) /\ snap'[d] = snap[d]
    BY <1>1, <2>1, <2>4, <2>5, <2>9 DEF TypeOK, Undisturbed
  <2> QED
    BY <2>1, <2>8, <2>9, StepKeepsStats
<1> QED
  BY <1>2, <1>3

LEMMA UndoRowKeepsStats ==
  ASSUME IInv, IInv', OneAtATime, StatsInv, NEW c \in Clients, UndoRow(c)
  PROVE  StatsInv'
<1> DEFINE i == req[c].id
           entry == db.audit[i]
           x == <<"row", entry.row>>
           kept == db.kept[i]
           undone == [entry EXCEPT !.restored = TRUE]
           states1 == Put(w[c].states, entry.row, entry.orig)
           audit1 == Put(w[c].audit, i, undone)
<1>1. TypeOK /\ Progress(c) /\ BucketInv(c)
  BY DEF IInv, StatsInv
<1>2. CASE Rollback(c)
  BY <1>2, RollbackKeepsStats
<1>3. CASE ~Rollback(c)
  <2>1. /\ pc[c] = "undo"
        /\ CanLock(c, x)
        /\ owner' = [owner EXCEPT ![x] = c]
        /\ w' = [w EXCEPT ![c].states = Put(@, entry.row, entry.orig), ![c].audit = Put(@, i, undone)]
        /\ UNCHANGED <<db, nextId, req, plan, snap, recorded, foreign>>
    BY <1>3 DEF UndoRow, Lock
  <2>2. \/ /\ kept = None
           /\ pc' = [pc EXCEPT ![c] = "commit"] /\ UNCHANGED rebuilt
        \/ pc' = [pc EXCEPT ![c] = "read"] /\ UNCHANGED rebuilt
        \/ /\ kept # None
           /\ pc' = [pc EXCEPT ![c] = "write"]
           /\ rebuilt' = [rebuilt EXCEPT ![c] = [now |-> kept, was |-> kept]]
    BY <1>3 DEF UndoRow
  <2>3. /\ w[c] = NoWrites /\ plan[c] = EmptyFun /\ snap[c] = None
        /\ req[c].kind = "restore" /\ req[c] \in Requests /\ Active(db, i)
    BY <1>1, <2>1 DEF Progress, BucketInv, ReadsLate
  <2>4. ReadingsApart
    BY <2>3 DEF OneAtATime
  <2>5. i \in Ids
    BY <2>3, RequestKinds DEF UndoRequest
  <2>6. entry.row \in Rows /\ Subject(c) = EntityOf[entry.row] /\ Subject(c)' = EntityOf[entry.row]
    <3>1. entry.row \in Rows
      BY <1>1, <2>3, <2>5, ActiveType
    <3> QED
      BY <2>1, <2>3, <3>1 DEF Subject
  <2>7. EntityOf[entry.row] \in Tracked => kept # None /\ Remembers(entry, kept)
    BY <2>3, <2>4, <2>5 DEF StatsInv, OriginalsKept
  <2>8. x \in Resources
    BY <2>6, ResourceKinds
  <2> HIDE DEF x, undone
  <2>9. \A y \in Resources, d \in Clients : owner[y] = d => owner'[y] = d
    <3>1. \A y \in Resources : owner'[y] = IF y = x THEN c ELSE owner[y]
      BY <1>1, <2>1, <2>8 DEF TypeOK
    <3> QED
      BY <2>1, <3>1, NobodyAssumption DEF CanLock
  <2>10. w[c] \in Writes
    BY <1>1 DEF TypeOK
  <2> HIDE DEF states1, audit1
  <2>11. /\ w'[c] = [w[c] EXCEPT !.states = states1, !.audit = audit1]
         /\ \A d \in Clients \ {c} : w'[d] = w[d]
    BY <1>1, <2>1, <2>10 DEF TypeOK, Writes, states1, audit1
  <2>12. /\ w'[c].states = states1 /\ w'[c].audit = audit1
         /\ w'[c].stats = w[c].stats /\ w'[c].kept = w[c].kept
    BY <2>10, <2>11 DEF Writes
  <2>13. DOMAIN states1 = {entry.row} /\ states1[entry.row] = entry.orig
    BY <2>3, NoWritesType DEF states1, Put
  <2>14. /\ plan'[c] = EmptyFun /\ snap'[c] = None
         /\ db' = db /\ foreign' = foreign /\ req' = req
         /\ pc'[c] \in {"commit", "read", "write"}
         /\ pc'[c] = "commit" => kept = None
         /\ pc'[c] = "write" => rebuilt'[c].now = kept
    BY <1>1, <2>1, <2>2, <2>3 DEF TypeOK
  <2>15. ~Correcting(c)'
    BY <2>1, <2>3 DEF Correcting
  <2>16. ReadsLate(c)' /\ OneBucket(c)' /\ OriginalKept(c)'
    BY <2>3, <2>6, <2>12, <2>13, <2>14, <2>15, NoWritesType, EmptyFunType
    DEF ReadsLate, OneBucket, OriginalKept
  <2>17. BucketFollows(c)'
    <3>1. SUFFICES ASSUME EntityOf[entry.row] \in Tracked, pc'[c] \in {"write", "commit"}
                   PROVE  pc'[c] = "write" /\ Follows(c, kept)'
      BY <2>1, <2>6, <2>14 DEF BucketFollows, Follows
    <3>2. pc'[c] = "write"
      BY <2>7, <2>14, <3>1
    <3>3. ASSUME NEW r \in RowsOf(EntityOf[entry.row]) \ foreign PROVE kept[r] = Latest(c)'.states[r]
      <4>1. r = entry.row
        BY <2>4, <2>6 DEF ReadingsApart, RowsOf
      <4>2. Latest(c)'.states[r] = entry.orig
        BY <2>6, <2>12, <2>13, <4>1, LatestNext DEF IInv
      <4>3. r \notin foreign
        OBVIOUS
      <4> QED
        BY <2>7, <3>1, <4>1, <4>2, <4>3 DEF Remembers
    <3> QED
      BY <2>6, <2>14, <3>2, <3>3 DEF Follows
  <2>18. ASSUME NEW d \in Clients \ {c} PROVE Undisturbed(d) /\ snap'[d] = snap[d]
    <3>1. rebuilt'[d] = rebuilt[d] /\ pc'[d] = pc[d]
      BY <1>1, <2>2 DEF TypeOK
    <3> QED
      BY <1>1, <2>1, <2>9, <2>11, <3>1 DEF TypeOK, Undisturbed
  <2> QED
    BY <2>14, <2>16, <2>17, <2>18, StepKeepsStats DEF BucketInv
<1> QED
  BY <1>2, <1>3

LEMMA CommitKeepsStats ==
  ASSUME IInv, IInv', OneAtATime, StatsInv, NEW c \in Clients, Commit(c)
  PROVE  StatsInv'
<1>1. TypeOK /\ TypeOK' /\ Progress(c) /\ Uncommitted(c) /\ HoldsItsWrites(c) /\ BucketInv(c)
  BY DEF IInv, StatsInv, WritesAreLocked
<1>2. /\ pc[c] = "commit" /\ db' = Latest(c) /\ Finish(c) /\ foreign' = foreign
      /\ req[c] \in Requests
  BY <1>1 DEF Commit, Progress
<1>3. /\ \A r \in Rows : db'.states[r] = IF r \in DOMAIN w[c].states THEN w[c].states[r] ELSE db.states[r]
      /\ \A i \in Ids : db'.audit[i] = IF i \in DOMAIN w[c].audit THEN w[c].audit[i] ELSE db.audit[i]
      /\ \A e \in Entities : db'.stats[e] = IF e \in DOMAIN w[c].stats THEN w[c].stats[e] ELSE db.stats[e]
      /\ \A i \in Ids : db'.kept[i] = IF i \in DOMAIN w[c].kept THEN w[c].kept[i] ELSE db.kept[i]
  BY <1>1, <1>2, LatestValues, LatestStats
<1>4. StatisticsFollowStates'
  <2>1. SUFFICES ASSUME NEW e \in Tracked, NEW r \in RowsOf(e) \ foreign, db'.states[r] # Absent
                 PROVE  db'.stats[e][r] = db'.states[r]
    BY <1>2 DEF StatisticsFollowStates
  <2>2. r \in Rows /\ EntityOf[r] = e /\ e \in Entities
    BY EntitiesAssumption DEF RowsOf
  <2>3. CASE DOMAIN w[c].states # {} /\ Subject(c) = e
    <3>1. e \in DOMAIN w[c].stats /\ Follows(c, w[c].stats[e])
      BY <1>1, <1>2, <2>3 DEF BucketInv, BucketFollows
    <3> QED
      BY <1>2, <1>3, <2>1, <2>2, <2>3, <3>1 DEF Follows
  <2>4. CASE DOMAIN w[c].states = {} \/ Subject(c) # e
    <3>1. r \notin DOMAIN w[c].states /\ e \notin DOMAIN w[c].stats
      BY <1>1, <2>2, <2>4 DEF BucketInv, OneBucket
    <3> QED
      BY <1>3, <2>1, <2>2, <3>1 DEF StatsInv, StatisticsFollowStates
  <2> QED
    BY <2>3, <2>4
<1>5. OriginalsKept'
  <2>1. SUFFICES ASSUME ReadingsApart, NEW i \in Ids, Active(db, i)', EntityOf[db'.audit[i].row] \in Tracked
                 PROVE  db'.kept[i] # None /\ Remembers(db'.audit[i], db'.kept[i])
    BY <1>2 DEF OriginalsKept, Remembers
  <2>2. ASSUME i \notin DOMAIN w[c].kept, Active(db, i),
               db'.audit[i].row = db.audit[i].row, db'.audit[i].orig = db.audit[i].orig
        PROVE  db'.kept[i] # None /\ Remembers(db'.audit[i], db'.kept[i])
    BY <1>3, <2>1, <2>2 DEF StatsInv, OriginalsKept, Remembers
  <2>3. CASE i \notin DOMAIN w[c].audit
    <3>1. i \notin DOMAIN w[c].kept
      <4>1. CASE Correcting(c)
        BY <1>1, <1>2, <2>3, <4>1 DEF Uncommitted, CorrectionWrites
      <4>2. CASE ~Correcting(c)
        BY <1>1, <4>2 DEF BucketInv, OriginalKept
      <4> QED
        BY <4>1, <4>2
    <3>2. db'.audit[i] = db.audit[i]
      BY <1>3, <2>3
    <3> QED
      BY <2>1, <2>2, <3>1, <3>2 DEF Active, Recorded
  <2>4. CASE i \in DOMAIN w[c].audit
    <3>1. db'.audit[i] = w[c].audit[i]
      BY <1>3, <2>4
    <3>2. CASE Correcting(c)
      <4>1. i \in DOMAIN w[c].kept /\ Remembers(w[c].audit[i], w[c].kept[i])
        BY <1>1, <1>2, <2>1, <2>4, <3>1, <3>2 DEF BucketInv, OriginalKept
      <4>2. w[c].kept[i] \in Bucket
        BY <1>1, <4>1, WriteDomains, PartialFunDef
      <4> QED
        BY <1>3, <3>1, <4>1, <4>2, NoneAssumption
    <3>3. CASE ~Correcting(c)
      <4>1. DOMAIN w[c].kept = {}
        BY <1>1, <3>3 DEF BucketInv, OriginalKept
      <4>2. req[c].kind \in {"restore", "dismiss"}
        BY <1>2, <3>3, RequestKinds DEF Correcting
      <4>3. CASE req[c].kind = "restore"
        <5>1. i = req[c].id /\ Active(db, i) /\ w[c].audit[i] = [db.audit[i] EXCEPT !.restored = TRUE]
          BY <1>1, <1>2, <2>4, <4>3 DEF Uncommitted, RestoreWrites
        <5>2. db.audit[i] \in AuditRow
          BY <1>1, <5>1, ActiveType
        <5>3. w[c].audit[i].restored
          BY <5>1, <5>2 DEF AuditRow
        <5> QED
          BY <2>1, <3>1, <5>3 DEF Active
      <4>4. CASE req[c].kind = "dismiss"
        <5>1. i = req[c].id /\ Active(db, i) /\ w[c].audit[i] = [db.audit[i] EXCEPT !.dismissed = TRUE]
          BY <1>1, <1>2, <2>4, <4>4 DEF Uncommitted, DismissWrites
        <5>2. db.audit[i] \in AuditRow
          BY <1>1, <5>1, ActiveType
        <5>3. w[c].audit[i].row = db.audit[i].row /\ w[c].audit[i].orig = db.audit[i].orig
          BY <5>1, <5>2 DEF AuditRow
        <5> QED
          BY <2>2, <3>1, <4>1, <5>1, <5>3
      <4> QED
        BY <4>2, <4>3, <4>4
    <3> QED
      BY <3>2, <3>3
  <2> QED
    BY <2>3, <2>4
<1>6. BucketInv(c)'
  BY <1>1, <1>2, FinishedBucket
<1>7. ASSUME NEW d \in Clients \ {c} PROVE BucketInv(d)'
  <2>1. BucketInv(d)
    BY DEF StatsInv
  <2>2. ASSUME NEW r \in Rows, owner[<<"row", r>>] = d PROVE db'.states[r] = db.states[r]
    BY <1>1, <1>3, <2>2 DEF HoldsItsWrites
  <2>3. ASSUME NEW i \in Ids, owner[<<"audit", i>>] = d PROVE db'.audit[i] = db.audit[i]
    BY <1>1, <1>3, <2>3 DEF HoldsItsWrites
  <2>4. Undisturbed(d) /\ snap'[d] = snap[d]
    BY <1>1, <1>2, <2>2, <2>3, FinishedBucket DEF Undisturbed
  <2>5. ASSUME NEW r \in Rows, DOMAIN w[d].states # {}, EntityOf[r] = Subject(d)
        PROVE  db'.states[r] = db.states[r]
    <3>1. r \notin DOMAIN w[c].states
      BY <1>1, <2>1, <2>5, BucketIsExclusive DEF BucketInv, OneBucket
    <3> QED
      BY <1>3, <3>1
  <2> QED
    BY <1>1, <1>2, <2>1, <2>4, <2>5, OthersKeepBucket
<1> QED
  BY <1>4, <1>5, <1>6, <1>7 DEF StatsInv

\* The recorder purges a reading, or somebody else rewrites one.
LEMMA OutsideKeepsStats ==
  ASSUME IInv, IInv', StatsInv, NEW r \in Rows, NEW v \in Cell,
         owner[<<"row", r>>] = Nobody,
         db' = [db EXCEPT !.states[r] = v],
         foreign \subseteq foreign', v = Absent \/ r \in foreign',
         UNCHANGED <<nextId, owner, pc, req, plan, w, snap, rebuilt, recorded>>
  PROVE  StatsInv'
<1>1. TypeOK /\ TypeOK'
  BY DEF IInv
<1>2. /\ db'.audit = db.audit /\ db'.stats = db.stats /\ db'.kept = db.kept
      /\ \A s \in Rows : db'.states[s] = IF s = r THEN v ELSE db.states[s]
  BY <1>1 DEF TypeOK, Db
<1>3. StatisticsFollowStates'
  BY <1>2 DEF StatsInv, StatisticsFollowStates, RowsOf
<1>4. OriginalsKept'
  BY <1>2 DEF StatsInv, OriginalsKept, Active, Recorded, Remembers
<1>5. ASSUME NEW d \in Clients PROVE BucketInv(d)'
  <2>1. Undisturbed(d) /\ snap'[d] = snap[d]
    BY <1>2, NobodyAssumption DEF Undisturbed
  <2>2. \A s \in Rows \ foreign' : db'.states[s] \in {db.states[s], Absent}
    BY <1>2
  <2>3. BucketInv(d)
    BY DEF StatsInv
  <2> QED
    BY <1>1, <2>1, <2>2, <2>3, OthersKeepBucket
<1> QED
  BY <1>3, <1>4, <1>5 DEF StatsInv

LEMMA InitStats == Init => StatsInv
<1> SUFFICES ASSUME Init PROVE StatsInv
  OBVIOUS
<1>1. StatisticsFollowStates
  <2>1. ASSUME NEW e \in Tracked, NEW r \in RowsOf(e) PROVE db.stats[e][r] = db.states[r]
    BY EntitiesAssumption DEF Init, BucketOf
  <2> QED
    BY <2>1 DEF StatisticsFollowStates
<1>2. OriginalsKept
  BY DEF Init, OriginalsKept, Active, Recorded
<1>3. ASSUME NEW c \in Clients PROVE BucketInv(c)
  <2>1. pc[c] = "idle" /\ w[c] = NoWrites /\ plan[c] = EmptyFun /\ snap[c] = None
    BY DEF Init
  <2> QED
    BY <2>1, NoWritesType, EmptyFunType
    DEF BucketInv, ReadsLate, OneBucket, BucketFollows, OriginalKept
<1> QED
  BY <1>1, <1>2, <1>3 DEF StatsInv

LEMMA NextKeepsStats ==
  ASSUME OneAtATime, IInv, StatsInv, [Next]_vars
  PROVE  StatsInv'
<1>1. IInv'
  BY NextKeeps
<1>2. ASSUME NEW c \in Clients, Proceed(c) PROVE StatsInv'
  <2>1. CASE BulkRead(c)
    BY <1>1, <2>1, BulkReadKeepsStats
  <2>2. CASE LockRow(c)
    BY <1>1, <2>2, LockRowKeepsStats
  <2>3. CASE CorrectRow(c)
    BY <1>1, <2>3, CorrectRowKeepsStats
  <2>4. CASE ReadBucket(c)
    BY <1>1, <2>4, ReadBucketKeepsStats
  <2>5. CASE WriteBucket(c)
    BY <1>1, <2>5, WriteBucketKeepsStats
  <2>6. CASE LockAudit(c)
    BY <1>1, <2>6, LockAuditKeepsStats
  <2>7. CASE UndoRow(c)
    BY <1>1, <2>7, UndoRowKeepsStats
  <2>8. CASE Commit(c)
    BY <1>1, <2>8, CommitKeepsStats
  <2>9. CASE LockTimeout(c)
    BY <1>1, <2>9, RollbackKeepsStats DEF LockTimeout
  <2> QED
    BY <1>2, <2>1, <2>2, <2>3, <2>4, <2>5, <2>6, <2>7, <2>8, <2>9 DEF Proceed
<1>3. ASSUME NEW c \in Clients, ConnectionLost(c) PROVE StatsInv'
  BY <1>1, <1>3, RollbackKeepsStats DEF ConnectionLost
<1>4. ASSUME NEW c \in Clients, NEW q \in Requests, Submit(c, q) PROVE StatsInv'
  BY <1>1, <1>4, SubmitKeepsStats
<1>5. ASSUME NEW r \in Rows, Purge(r) PROVE StatsInv'
  <2>1. Absent \in Cell /\ foreign \subseteq foreign'
    BY <1>5 DEF Cell, Purge
  <2> QED
    BY <1>1, <1>5, <2>1, OutsideKeepsStats DEF Purge
<1>6. ASSUME NEW r \in Rows, NEW v \in Values, Overwrite(r, v) PROVE StatsInv'
  <2>1. v \in Cell /\ foreign \subseteq foreign' /\ r \in foreign'
    BY <1>6 DEF Cell, Overwrite
  <2> QED
    BY <1>1, <1>6, <2>1, OutsideKeepsStats DEF Overwrite
<1>7. ASSUME UNCHANGED vars PROVE StatsInv'
  <2>1. ASSUME NEW d \in Clients PROVE BucketInv(d)'
    <3>1. Undisturbed(d) /\ snap'[d] = snap[d] /\ TypeOK' /\ BucketInv(d) /\ foreign' = foreign /\ db' = db
      BY <1>1, <1>7 DEF vars, Undisturbed, IInv, StatsInv
    <3> QED
      BY <3>1, OthersKeepBucket
  <2>2. StatisticsFollowStates' /\ OriginalsKept'
    BY <1>7 DEF vars, StatsInv, StatisticsFollowStates, OriginalsKept, Active, Recorded, Remembers
  <2> QED
    BY <2>1, <2>2 DEF StatsInv
<1> QED
  BY <1>2, <1>3, <1>4, <1>5, <1>6, <1>7 DEF Next

(***************************************************************************)
(* Whatever is committed, the statistics are those of the readings: on     *)
(* MariaDB under single corrections of any readings, dismissals and all    *)
(* failures, because the locking read of a correction takes the lock on    *)
(* states_meta before anything of the bucket is read; and on PostgreSQL    *)
(* under every request, restores included, for sensors whose corrected     *)
(* readings share no bucket.                                               *)
(***************************************************************************)
THEOREM BucketsAreRebuiltOneAtATime ==
  ASSUME OneAtATime PROVE Spec => []StatisticsFollowStates
<1>1. IInv /\ StatsInv /\ [Next]_vars => (IInv /\ StatsInv)'
  BY NextKeeps, NextKeepsStats
<1>2. Spec => [](IInv /\ StatsInv)
  BY <1>1, InitEstablishes, InitStats, PTL DEF Spec
<1>3. StatsInv => StatisticsFollowStates
  BY DEF StatsInv
<1> QED
  BY <1>2, <1>3, PTL

=============================================================================
