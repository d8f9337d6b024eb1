----------------------- MODULE SqliteCorrections_proofs -----------------------
(***************************************************************************)
(* The transactions of the SQLite adapter implement the ledger: for any    *)
(* number of threads, rows, requests and corrections on the one            *)
(* connection.                                                             *)
(***************************************************************************)
EXTENDS SqliteCorrections, Tables_proofs

Correcting(c) == req[c].kind \in {"apply", "bulk"}

LEMMA RequestKinds ==
  ASSUME NEW q \in Requests
  PROVE  /\ q.kind \in {"apply", "bulk", "restore", "dismiss"}
         /\ q.kind = "apply" => q \in ApplyRequest
         /\ q.kind = "bulk" => q \in BulkRequest
         /\ q.kind \in {"restore", "dismiss"} => q \in UndoRequest
  BY RequestsAssumption DEF ApplyRequest, BulkRequest, UndoRequest

Begun(c) == pc[c] \notin {"idle", "begin"}

\* The audit rows the open transaction has inserted.
New == Unused(db) \ Unused(work)

\* The connection while a correction is under way: new audit rows of distinct
\* readings, each with the committed reading as its original; their readings
\* hold the corrected value, or are still in the plan with it.
CorrectedSoFar(c) ==
  /\ \A i \in Ids \ New : work.audit[i] = db.audit[i]
  /\ \A i \in New :
       LET entry == work.audit[i]
       IN  /\ ~entry.restored /\ ~entry.dismissed
           /\ entry.orig = db.states[entry.row]
           /\ entry.row \in DOMAIN plan[c] => entry.corrected = plan[c][entry.row]
           /\ entry.row \notin DOMAIN plan[c] => entry.corrected = work.states[entry.row]
  /\ \A i, j \in New : work.audit[i].row = work.audit[j].row => i = j
  /\ \A r \in Rows :
       r \in DOMAIN plan[c] \/ (\A i \in New : work.audit[i].row # r)
         => work.states[r] = db.states[r]

\* ... while a restore is.
Undone(c) ==
  LET i == req[c].id
      entry == db.audit[i]
  IN  /\ i \in Ids
      /\ Active(db, i)
      /\ db.states[entry.row] = entry.corrected
      /\ work.states = [db.states EXCEPT ![entry.row] = entry.orig]
      /\ work.audit = IF pc[c] = "stamp" THEN db.audit
                      ELSE [db.audit EXCEPT ![i].restored = TRUE]

\* ... when a dismissal is about to be committed.
Dismissed(c) ==
  LET i == req[c].id
  IN  /\ i \in Ids
      /\ Active(db, i)
      /\ ~db.audit[i].dismissed
      /\ work = [db EXCEPT !.audit[i].dismissed = TRUE]

\* Where a request can be, and what it has done by then.
Progress(c) ==
  /\ txn = c <=> Begun(c)
  /\ pc[c] # "idle" => req[c] \in Requests
  /\ ~Begun(c) => plan[c] = EmptyFun
  /\ pc[c] \in {"bulk", "undo", "dismiss"} => work = db
  /\ pc[c] = "bulk" => req[c].kind = "bulk"
  /\ pc[c] \in {"undo", "stamp"} => req[c].kind = "restore"
  /\ pc[c] = "dismiss" => req[c].kind = "dismiss"
  /\ pc[c] \in {"insert", "update"} => Correcting(c) /\ CorrectedSoFar(c) /\ DOMAIN plan[c] # {}
  /\ pc[c] = "insert" => \A i \in New : work.audit[i].row \notin DOMAIN plan[c]
  /\ pc[c] = "update" => /\ \E i \in New : work.audit[i].row = NextRow(c)
                         /\ \A i \in New : work.audit[i].row \in DOMAIN plan[c] =>
                              work.audit[i].row = NextRow(c)
  /\ pc[c] = "stamp" => Undone(c)
  /\ pc[c] = "commit" => \/ Correcting(c) /\ CorrectedSoFar(c) /\ DOMAIN plan[c] = {}
                         \/ req[c].kind = "restore" /\ Undone(c)
                         \/ req[c].kind = "dismiss" /\ Dismissed(c)

IInv ==
  /\ TypeOK
  /\ txn = Nobody => work = db
  /\ \A c \in Threads : Progress(c)

-----------------------------------------------------------------------------
(***************************************************************************)
(* The tables, and the ids that hold no audit row.                         *)
(***************************************************************************)
LEMMA NextIdType ==
  ASSUME Unused(work) # {}
  PROVE  NextId \in Unused(work)
<1>1. Unused(work) \in SUBSET Nat
  BY BoundsAssumption DEF Unused, Ids
<1>2. \E i \in Unused(work) : \A j \in Unused(work) : i <= j
  BY <1>1, LeastExists
<1> QED
  BY <1>2 DEF NextId

LEMMA NextRowType ==
  ASSUME TypeOK, NEW c \in Threads, DOMAIN plan[c] # {}
  PROVE  NextRow(c) \in DOMAIN plan[c] /\ NextRow(c) \in Rows
<1>1. plan[c] \in PartialFun(Rows, Numeric)
  BY DEF TypeOK
<1>2. DOMAIN plan[c] \in SUBSET Rows
  BY <1>1, PartialFunDef
<1> QED
  BY <1>2, OldestType, RowsAssumption DEF NextRow

LEMMA ActiveType ==
  ASSUME NEW tables \in Tables, NEW i \in Ids, Active(tables, i)
  PROVE  /\ tables.audit[i] \in AuditRow
         /\ tables.audit[i].row \in Rows
         /\ tables.audit[i].orig \in Values
         /\ tables.audit[i].corrected \in Numeric
  BY DEF Tables, Active, Recorded, AuditRow

-----------------------------------------------------------------------------
(***************************************************************************)
(* Whose step it is.  While no other thread has a transaction open, the    *)
(* others are outside of one; and a thread outside of one disturbs nobody. *)
(***************************************************************************)
LEMMA OwnStepKeeps ==
  ASSUME IInv, NEW c \in Threads, txn \in {c, Nobody}, txn' \in {c, Nobody}, TypeOK',
         txn' = Nobody => work' = db', Progress(c)',
         \A d \in Threads \ {c} : pc'[d] = pc[d] /\ req'[d] = req[d] /\ plan'[d] = plan[d]
  PROVE  IInv'
<1>1. ASSUME NEW d \in Threads, d # c PROVE Progress(d)'
  <2>1. ~Begun(d) /\ plan[d] = EmptyFun /\ (pc[d] # "idle" => req[d] \in Requests)
    BY <1>1, NobodyAssumption DEF IInv, Progress
  <2>2. pc[d] \in {"idle", "begin"} /\ pc'[d] = pc[d]
    BY <1>1, <2>1 DEF Begun
  <2>3. txn' # d
    BY <1>1, NobodyAssumption
  <2> QED
    BY <1>1, <2>1, <2>2, <2>3 DEF Progress, Begun
<1> QED
  BY <1>1 DEF IInv

LEMMA BystanderKeeps ==
  ASSUME IInv, NEW c \in Threads, ~Begun(c), TypeOK', Progress(c)', UNCHANGED <<db, work, txn>>,
         \A d \in Threads \ {c} : pc'[d] = pc[d] /\ req'[d] = req[d] /\ plan'[d] = plan[d]
  PROVE  IInv'
<1>1. ASSUME NEW d \in Threads, d # c PROVE Progress(d)'
  <2>1. /\ pc'[d] = pc[d] /\ req'[d] = req[d] /\ plan'[d] = plan[d]
        /\ db' = db /\ work' = work /\ txn' = txn
        /\ Progress(d)
    BY <1>1 DEF IInv
  <2>2. New' = New /\ NextRow(d)' = NextRow(d)
    BY <2>1 DEF New, Unused, Recorded, NextRow, Oldest
  <2>3. CorrectedSoFar(d)' <=> CorrectedSoFar(d)
    BY <2>1, <2>2 DEF CorrectedSoFar
  <2>4. (Undone(d)' <=> Undone(d)) /\ (Dismissed(d)' <=> Dismissed(d))
    BY <2>1 DEF Undone, Dismissed, Active, Recorded
  <2>5. (Begun(d)' <=> Begun(d)) /\ (Correcting(d)' <=> Correcting(d))
    BY <2>1 DEF Begun, Correcting
  <2> HIDE DEF New
  <2> QED
    BY <2>1, <2>2, <2>3, <2>4, <2>5 DEF Progress
<1> QED
  BY <1>1 DEF IInv

-----------------------------------------------------------------------------
(***************************************************************************)
(* Every step keeps the invariant.                                         *)
(***************************************************************************)
LEMMA AnswerType ==
  ASSUME TypeOK, NEW c \in Threads, Answer(c)
  PROVE  /\ pc' \in [Threads -> Steps] /\ req' \in [Threads -> Requests \cup {None}]
         /\ plan' \in [Threads -> PartialFun(Rows, Numeric)]
         /\ pc'[c] = "idle" /\ plan'[c] = EmptyFun
         /\ \A d \in Threads \ {c} : pc'[d] = pc[d] /\ req'[d] = req[d] /\ plan'[d] = plan[d]
<1>1. EmptyFun \in PartialFun(Rows, Numeric)
  BY EmptyFunType
<1> QED
  BY <1>1 DEF TypeOK, Answer, Steps

LEMMA RollbackKeeps ==
  ASSUME IInv, NEW c \in Threads, txn = c, Rollback(c)
  PROVE  IInv'
<1>1. TypeOK /\ Answer(c)
  BY DEF IInv, Rollback
<1>2. /\ pc'[c] = "idle" /\ plan'[c] = EmptyFun
      /\ txn' = Nobody /\ work' = db /\ db' = db
  BY <1>1, AnswerType DEF Rollback
<1>3. TypeOK'
  BY <1>1, <1>2, AnswerType DEF TypeOK, Rollback
<1>4. Progress(c)'
  BY <1>2, NobodyAssumption DEF Progress, Begun
<1> QED
  BY <1>1, <1>2, <1>3, <1>4, AnswerType, OwnStepKeeps

LEMMA CommitKeeps ==
  ASSUME IInv, NEW c \in Threads, Commit(c)
  PROVE  IInv'
<1>1. TypeOK /\ Answer(c) /\ txn = c
  BY DEF IInv, Commit, Progress, Begun
<1>2. /\ pc'[c] = "idle" /\ plan'[c] = EmptyFun
      /\ txn' = Nobody /\ db' = work /\ work' = work
  BY <1>1, AnswerType DEF Commit
<1>3. TypeOK'
  BY <1>1, <1>2, AnswerType DEF TypeOK, Commit
<1>4. Progress(c)'
  BY <1>2, NobodyAssumption DEF Progress, Begun
<1> QED
  BY <1>1, <1>2, <1>3, <1>4, AnswerType, OwnStepKeeps

LEMMA SubmitKeeps ==
  ASSUME IInv, NEW c \in Threads, NEW q \in Requests, Submit(c, q)
  PROVE  IInv'
<1>1. TypeOK /\ Progress(c) /\ ~Begun(c) /\ txn # c /\ plan[c] = EmptyFun
  BY DEF IInv, Submit, Progress, Begun
<1>2. /\ pc' = [pc EXCEPT ![c] = "begin"] /\ req' = [req EXCEPT ![c] = q]
      /\ UNCHANGED <<db, work, txn, plan, recorded, foreign>>
  BY DEF Submit
<1>3. TypeOK'
  BY <1>1, <1>2 DEF TypeOK, Steps
<1>4. pc'[c] = "begin" /\ req'[c] = q /\ plan'[c] = EmptyFun /\ txn' # c
  BY <1>1, <1>2 DEF TypeOK
<1>5. Progress(c)'
  BY <1>4 DEF Progress, Begun
<1>6. \A d \in Threads \ {c} : pc'[d] = pc[d] /\ req'[d] = req[d] /\ plan'[d] = plan[d]
  BY <1>1, <1>2 DEF TypeOK
<1> QED
  BY <1>1, <1>2, <1>3, <1>5, <1>6, BystanderKeeps

LEMMA RefusalKeeps ==
  ASSUME IInv, NEW c \in Threads, BeginRefused(c) \/ GiveUp(c)
  PROVE  IInv'
<1>1. /\ TypeOK /\ Answer(c) /\ ~Begun(c) /\ txn # c
      /\ UNCHANGED <<db, work, txn, recorded, foreign>>
  BY DEF IInv, BeginRefused, GiveUp, Progress, Begun
<1>2. TypeOK'
  BY <1>1, AnswerType DEF TypeOK
<1>3. pc'[c] = "idle" /\ plan'[c] = EmptyFun /\ txn' # c
  BY <1>1, AnswerType
<1>4. Progress(c)'
  BY <1>3 DEF Progress, Begun
<1> QED
  BY <1>1, <1>2, <1>4, AnswerType, BystanderKeeps

LEMMA BeginKeeps ==
  ASSUME IInv, NEW c \in Threads, Begin(c)
  PROVE  IInv'
<1> DEFINE q == req[c]
<1>1. /\ TypeOK /\ Progress(c) /\ pc[c] = "begin" /\ txn = Nobody /\ work = db
      /\ q \in Requests /\ plan[c] = EmptyFun
  BY DEF IInv, Begin, Progress, Begun
<1>2. /\ txn' = c
      /\ plan' = IF q.kind = "apply" THEN [plan EXCEPT ![c] = [r \in {q.row} |-> q.new]] ELSE plan
      /\ pc' = [pc EXCEPT ![c] = CASE q.kind = "apply" -> "insert"
                                   [] q.kind = "bulk" -> "bulk"
                                   [] q.kind = "restore" -> "undo"
                                   [] OTHER -> "dismiss"]
      /\ UNCHANGED <<db, work, req, recorded, foreign>>
  BY DEF Begin, Opened
<1>3. /\ q.kind \in {"apply", "bulk", "restore", "dismiss"}
      /\ q.kind = "apply" => q.row \in Rows /\ q.new \in Numeric
  BY <1>1, RequestKinds DEF ApplyRequest
<1>4. q.kind = "apply" => [r \in {q.row} |-> q.new] \in PartialFun(Rows, Numeric)
  <2>1. SUFFICES ASSUME q.kind = "apply" PROVE [r \in {q.row} |-> q.new] \in PartialFun(Rows, Numeric)
    OBVIOUS
  <2>2. {q.row} \in SUBSET Rows /\ [r \in {q.row} |-> q.new] \in [{q.row} -> Numeric]
    BY <1>3, <2>1
  <2> QED
    BY <2>2 DEF PartialFun
<1>5. plan' \in [Threads -> PartialFun(Rows, Numeric)]
  BY <1>1, <1>2, <1>4 DEF TypeOK
<1>6. pc' \in [Threads -> Steps]
  BY <1>1, <1>2, <1>3 DEF TypeOK, Steps
<1>7. TypeOK'
  BY <1>1, <1>2, <1>5, <1>6 DEF TypeOK
<1>8. New' = {} /\ New = {}
  BY <1>1, <1>2 DEF New
<1>9. /\ pc'[c] = CASE q.kind = "apply" -> "insert" [] q.kind = "bulk" -> "bulk"
                    [] q.kind = "restore" -> "undo" [] OTHER -> "dismiss"
      /\ req'[c] = q /\ work' = db'
      /\ q.kind = "apply" => DOMAIN plan'[c] = {q.row}
  BY <1>1, <1>2 DEF TypeOK
<1>10. Progress(c)'
  <2>1. CASE q.kind = "apply"
    <3>1. CorrectedSoFar(c)'
      BY <1>8, <1>9 DEF CorrectedSoFar
    <3> QED
      BY <1>1, <1>2, <1>8, <1>9, <2>1, <3>1 DEF Progress, Begun, Correcting
  <2>2. CASE q.kind # "apply"
    BY <1>1, <1>2, <1>3, <1>9, <2>2 DEF Progress, Begun
  <2> QED
    BY <2>1, <2>2
<1>11. \A d \in Threads \ {c} : pc'[d] = pc[d] /\ req'[d] = req[d] /\ plan'[d] = plan[d]
  BY <1>1, <1>2 DEF TypeOK
<1> QED
  BY <1>1, <1>2, <1>7, <1>10, <1>11, NobodyAssumption, OwnStepKeeps

LEMMA BulkReadKeeps ==
  ASSUME IInv, NEW c \in Threads, BulkRead(c)
  PROVE  IInv'
<1>1. /\ TypeOK /\ Progress(c) /\ pc[c] = "bulk" /\ txn = c /\ work = db
      /\ req[c] \in Requests /\ req[c].kind = "bulk"
  BY DEF IInv, BulkRead, Progress, Begun
<1>2. CASE Rollback(c)
  BY <1>1, <1>2, RollbackKeeps
<1>3. CASE ~Rollback(c)
  <2>1. PICK new \in BulkPlans(work, req[c]) :
          /\ plan' = [plan EXCEPT ![c] = new]
          /\ pc' = [pc EXCEPT ![c] = IF DOMAIN new = {} THEN "commit" ELSE "insert"]
          /\ UNCHANGED <<db, work, txn, req, recorded, foreign>>
    BY <1>3 DEF BulkRead
  <2>2. new \in PartialFun(Rows, Numeric)
    <3>1. BulkTargets(work, req[c]) \in SUBSET Rows
      BY DEF BulkTargets, RowsOf
    <3>2. new \in [BulkTargets(work, req[c]) -> Numeric]
      BY DEF BulkPlans
    <3> QED
      BY <3>1, <3>2 DEF PartialFun
  <2>3. TypeOK'
    BY <1>1, <2>1, <2>2 DEF TypeOK, Steps
  <2>4. New' = {}
    BY <1>1, <2>1 DEF New
  <2>5. /\ plan'[c] = new /\ req'[c] = req[c] /\ work' = db' /\ txn' = c
        /\ pc'[c] = IF DOMAIN new = {} THEN "commit" ELSE "insert"
    BY <1>1, <2>1 DEF TypeOK
  <2>6. CorrectedSoFar(c)'
    BY <2>4, <2>5 DEF CorrectedSoFar
  <2>7. Progress(c)'
    BY <1>1, <2>4, <2>5, <2>6 DEF Progress, Begun, Correcting
  <2>8. \A d \in Threads \ {c} : pc'[d] = pc[d] /\ req'[d] = req[d] /\ plan'[d] = plan[d]
    BY <1>1, <2>1 DEF TypeOK
  <2> QED
    BY <1>1, <2>3, <2>5, <2>7, <2>8, OwnStepKeeps
<1> QED
  BY <1>2, <1>3

(***************************************************************************)
(* The audit INSERT: a fresh id, and the reading as it is committed.       *)
(***************************************************************************)
LEMMA InsertKeeps ==
  ASSUME IInv, NEW c \in Threads, Insert(c)
  PROVE  IInv'
<1> DEFINE r == NextRow(c)
           n == NextId
           entry == NewEntry(work, r, plan[c][r])
<1>1. /\ TypeOK /\ pc[c] = "insert" /\ txn = c /\ req[c] \in Requests
      /\ Correcting(c) /\ CorrectedSoFar(c) /\ DOMAIN plan[c] # {}
      /\ \A i \in New : work.audit[i].row \notin DOMAIN plan[c]
  BY DEF IInv, Insert, Progress, Begun
<1>2. CASE Rollback(c)
  BY <1>1, <1>2, RollbackKeeps
<1>3. CASE ~Rollback(c)
  <2>1. /\ RowAccepted(work, req[c], r)
        /\ n \in Unused(work)
        /\ work' = [work EXCEPT !.audit[n] = entry]
        /\ pc' = [pc EXCEPT ![c] = "update"]
        /\ UNCHANGED <<db, txn, req, plan, recorded, foreign>>
    BY <1>3, NextIdType DEF Insert
  <2>2. /\ r \in DOMAIN plan[c] /\ r \in Rows
        /\ plan[c] \in PartialFun(Rows, Numeric) /\ plan[c][r] \in Numeric
    BY <1>1, NextRowType, PartialFunDef DEF TypeOK
  <2>3. entry \in AuditRow
    <3>1. work.states[r] \in Values
      BY <1>1, <2>1, <2>2 DEF TypeOK, Tables, Cell, RowAccepted
    <3> QED
      BY <2>2, <3>1 DEF NewEntry, AuditRow
  <2>4. n \in Ids /\ work \in Tables
    BY <1>1, <2>1 DEF Unused, TypeOK
  <2>5. /\ work' \in Tables /\ work'.states = work.states
        /\ work'.audit = [work.audit EXCEPT ![n] = entry]
    BY <2>1, <2>3, <2>4 DEF Tables
  <2> HIDE DEF n, r, entry
  <2>6. /\ work'.audit[n] = entry
        /\ \A i \in Ids \ {n} : work'.audit[i] = work.audit[i]
    BY <2>4, <2>5 DEF Tables
  <2>7. n \notin New /\ n \in Unused(db)
    BY <1>1, <2>1, <2>4 DEF New, Unused, Recorded, CorrectedSoFar
  <2>8. New' = New \cup {n}
    BY <2>1, <2>3, <2>4, <2>6, <2>7, ValuesAssumption DEF New, Unused, Recorded
  <2>9. /\ entry.row = r /\ entry.orig = work.states[r] /\ entry.corrected = plan[c][r]
        /\ ~entry.restored /\ ~entry.dismissed
    BY DEF entry, NewEntry
  <2>10. work.states[r] = db.states[r]
    BY <1>1, <2>2 DEF CorrectedSoFar
  <2>11. New \subseteq Ids \ {n}
    BY <2>7 DEF New, Unused
  <2>12. plan' = plan /\ db' = db /\ req' = req /\ txn' = c /\ pc'[c] = "update"
    BY <1>1, <2>1 DEF TypeOK
  <2>13. CorrectedSoFar(c)'
    <3>1. \A i \in Ids \ New' : work'.audit[i] = db'.audit[i]
      BY <1>1, <2>6, <2>8, <2>12 DEF CorrectedSoFar
    <3>2. ASSUME NEW i \in New'
          PROVE  /\ ~work'.audit[i].restored /\ ~work'.audit[i].dismissed
                 /\ work'.audit[i].orig = db'.states[work'.audit[i].row]
                 /\ work'.audit[i].row \in DOMAIN plan'[c] =>
                      work'.audit[i].corrected = plan'[c][work'.audit[i].row]
                 /\ work'.audit[i].row \notin DOMAIN plan'[c] =>
                      work'.audit[i].corrected = work'.states[work'.audit[i].row]
      <4>1. CASE i = n
        BY <2>2, <2>6, <2>9, <2>10, <2>12, <4>1
      <4>2. CASE i \in New
        BY <1>1, <2>5, <2>6, <2>11, <2>12, <4>2 DEF CorrectedSoFar
      <4> QED
        BY <2>8, <4>1, <4>2
    <3>3. ASSUME NEW i \in New', NEW j \in New', work'.audit[i].row = work'.audit[j].row
          PROVE  i = j
      <4>1. \A k \in New : work'.audit[k] = work.audit[k] /\ work.audit[k].row # r
        BY <1>1, <2>2, <2>6, <2>11
      <4>2. work'.audit[n].row = r
        BY <2>6, <2>9
      <4>3. CASE i \in New /\ j \in New
        BY <1>1, <3>3, <4>1, <4>3 DEF CorrectedSoFar
      <4> QED
        BY <2>8, <3>3, <4>1, <4>2, <4>3
    <3>4. ASSUME NEW s \in Rows,
                 s \in DOMAIN plan'[c] \/ (\A i \in New' : work'.audit[i].row # s)
          PROVE  work'.states[s] = db'.states[s]
      <4>1. s \in DOMAIN plan[c] \/ (\A i \in New : work.audit[i].row # s)
        BY <2>6, <2>8, <2>11, <2>12, <3>4
      <4> QED
        BY <1>1, <2>5, <2>12, <4>1 DEF CorrectedSoFar
    <3> HIDE DEF New
    <3> QED
      BY <3>1, <3>2, <3>3, <3>4 DEF CorrectedSoFar
  <2>14. NextRow(c)' = r
    BY <2>12 DEF NextRow, r
  <2>15. /\ \E i \in New' : work'.audit[i].row = r
         /\ \A i \in New' : work'.audit[i].row \in DOMAIN plan'[c] => work'.audit[i].row = r
    BY <1>1, <2>6, <2>8, <2>9, <2>11, <2>12
  <2>16. Correcting(c)' /\ Begun(c)'
    BY <1>1, <2>12 DEF Correcting, Begun
  <2>17. Progress(c)'
    BY <1>1, <2>12, <2>13, <2>14, <2>15, <2>16 DEF Progress
  <2>18. TypeOK'
    BY <1>1, <2>1, <2>5 DEF TypeOK, Steps
  <2>19. \A d \in Threads \ {c} : pc'[d] = pc[d] /\ req'[d] = req[d] /\ plan'[d] = plan[d]
    BY <1>1, <2>1 DEF TypeOK
  <2>20. txn' # Nobody
    BY <2>12, NobodyAssumption
  <2> QED
    BY <1>1, <2>12, <2>17, <2>18, <2>19, <2>20, OwnStepKeeps
<1> QED
  BY <1>2, <1>3

(***************************************************************************)
(* The states UPDATE of the row just recorded.                             *)
(***************************************************************************)
LEMMA UpdateKeeps ==
  ASSUME IInv, NEW c \in Threads, Update(c)
  PROVE  IInv'
<1> DEFINE r == NextRow(c)
<1>1. /\ TypeOK /\ pc[c] = "update" /\ txn = c /\ req[c] \in Requests
      /\ Correcting(c) /\ CorrectedSoFar(c) /\ DOMAIN plan[c] # {}
      /\ \E i \in New : work.audit[i].row = r
      /\ \A i \in New : work.audit[i].row \in DOMAIN plan[c] => work.audit[i].row = r
  BY DEF IInv, Update, Progress, Begun
<1>2. /\ work' = [work EXCEPT !.states[r] = plan[c][r]]
      /\ plan' = [plan EXCEPT ![c] = Without(plan[c], r)]
      /\ pc' = [pc EXCEPT ![c] = IF DOMAIN plan[c] = {r} THEN "commit" ELSE "insert"]
      /\ UNCHANGED <<db, txn, req, recorded, foreign>>
  BY <1>1 DEF Update, TypeOK
<1>3. /\ r \in DOMAIN plan[c] /\ r \in Rows
      /\ plan[c] \in PartialFun(Rows, Numeric) /\ plan[c][r] \in Values
  BY <1>1, NextRowType, PartialFunDef, ValuesAssumption DEF TypeOK
<1> HIDE DEF r
<1>4. /\ Without(plan[c], r) \in PartialFun(Rows, Numeric)
      /\ DOMAIN Without(plan[c], r) = DOMAIN plan[c] \ {r}
      /\ \A s \in DOMAIN plan[c] \ {r} : Without(plan[c], r)[s] = plan[c][s]
  BY <1>3, WithoutType DEF Without
<1>5. /\ work' \in Tables /\ work'.audit = work.audit
      /\ work'.states[r] = plan[c][r]
      /\ \A s \in Rows \ {r} : work'.states[s] = work.states[s]
  BY <1>1, <1>2, <1>3 DEF TypeOK, Tables, Cell
<1>6. New' = New
  BY <1>2, <1>5 DEF New, Unused, Recorded
<1>7. /\ plan'[c] = Without(plan[c], r) /\ db' = db /\ req' = req /\ txn' = c
      /\ pc'[c] = IF DOMAIN plan[c] = {r} THEN "commit" ELSE "insert"
  BY <1>1, <1>2 DEF TypeOK
<1>8. \A i \in New : work.audit[i].row \in Rows
  BY <1>1 DEF New, Unused, Recorded, TypeOK, Tables, AuditRow
<1>9. \A i \in New : work.audit[i].row \notin DOMAIN plan'[c]
  BY <1>1, <1>4, <1>7
<1>10. CorrectedSoFar(c)'
  <2>1. \A i \in Ids \ New' : work'.audit[i] = db'.audit[i]
    BY <1>1, <1>5, <1>6, <1>7 DEF CorrectedSoFar
  <2>2. ASSUME NEW i \in New'
        PROVE  /\ ~work'.audit[i].restored /\ ~work'.audit[i].dismissed
               /\ work'.audit[i].orig = db'.states[work'.audit[i].row]
               /\ work'.audit[i].row \in DOMAIN plan'[c] =>
                    work'.audit[i].corrected = plan'[c][work'.audit[i].row]
               /\ work'.audit[i].row \notin DOMAIN plan'[c] =>
                    work'.audit[i].corrected = work'.states[work'.audit[i].row]
    <3>1. i \in New /\ work'.audit[i] = work.audit[i]
      BY <1>5, <1>6
    <3>2. CASE work.audit[i].row = r
      BY <1>1, <1>3, <1>5, <1>7, <1>9, <3>1, <3>2 DEF CorrectedSoFar
    <3>3. CASE work.audit[i].row # r
      <4>1. work.audit[i].row \notin DOMAIN plan[c]
        BY <1>1, <3>1, <3>3
      <4> QED
        BY <1>1, <1>5, <1>7, <1>8, <1>9, <3>1, <3>3, <4>1 DEF CorrectedSoFar
    <3> QED
      BY <3>2, <3>3
  <2>3. \A i, j \in New' : work'.audit[i].row = work'.audit[j].row => i = j
    BY <1>1, <1>5, <1>6 DEF CorrectedSoFar
  <2>4. ASSUME NEW s \in Rows,
               s \in DOMAIN plan'[c] \/ (\A i \in New' : work'.audit[i].row # s)
        PROVE  work'.states[s] = db'.states[s]
    <3>1. s # r
      BY <1>1, <1>4, <1>5, <1>6, <1>7, <2>4
    <3>2. s \in DOMAIN plan[c] \/ (\A i \in New : work.audit[i].row # s)
      BY <1>4, <1>5, <1>6, <1>7, <2>4
    <3> QED
      BY <1>1, <1>5, <1>7, <3>1, <3>2 DEF CorrectedSoFar
  <2> HIDE DEF New
  <2> QED
    BY <2>1, <2>2, <2>3, <2>4 DEF CorrectedSoFar
<1>11. pc'[c] = "commit" => DOMAIN plan'[c] = {}
  BY <1>4, <1>7
<1>12. pc'[c] = "insert" => DOMAIN plan'[c] # {}
  BY <1>3, <1>4, <1>7
<1>13. Correcting(c)' /\ Begun(c)' /\ pc'[c] \in {"insert", "commit"}
  BY <1>1, <1>7 DEF Correcting, Begun
<1>14. \A i \in New' : work'.audit[i].row \notin DOMAIN plan'[c]
  BY <1>5, <1>6, <1>9
<1>15. Progress(c)'
  BY <1>1, <1>7, <1>10, <1>11, <1>12, <1>13, <1>14 DEF Progress
<1>16. TypeOK'
  BY <1>1, <1>2, <1>4, <1>5 DEF TypeOK, Steps
<1>17. \A d \in Threads \ {c} : pc'[d] = pc[d] /\ req'[d] = req[d] /\ plan'[d] = plan[d]
  BY <1>1, <1>2 DEF TypeOK
<1>18. txn' # Nobody
  BY <1>7, NobodyAssumption
<1> QED
  BY <1>1, <1>7, <1>15, <1>16, <1>17, <1>18, OwnStepKeeps

LEMMA UndoKeeps ==
  ASSUME IInv, NEW c \in Threads, Undo(c)
  PROVE  IInv'
<1> DEFINE i == req[c].id
           entry == work.audit[i]
<1>1. /\ TypeOK /\ pc[c] = "undo" /\ txn = c /\ req[c] \in Requests
      /\ req[c].kind = "restore" /\ work = db
  BY DEF IInv, Undo, Progress, Begun
<1>2. i \in Ids
  BY <1>1, RequestKinds DEF UndoRequest
<1>3. CASE Rollback(c)
  BY <1>1, <1>3, RollbackKeeps
<1>4. CASE ~Rollback(c)
  <2>1. /\ Active(work, i) /\ work.states[entry.row] = entry.corrected
        /\ work' = [work EXCEPT !.states[entry.row] = entry.orig]
        /\ pc' = [pc EXCEPT ![c] = "stamp"]
        /\ UNCHANGED <<db, txn, req, plan, recorded, foreign>>
    BY <1>4 DEF Undo
  <2>2. work \in Tables /\ entry.row \in Rows /\ entry.orig \in Values
    BY <1>1, <1>2, <2>1, ActiveType DEF TypeOK
  <2>3. /\ work' \in Tables /\ work'.audit = db.audit
        /\ work'.states = [db.states EXCEPT ![entry.row] = entry.orig]
    BY <1>1, <2>1, <2>2 DEF Tables, Cell
  <2>4. db' = db /\ req' = req /\ pc'[c] = "stamp" /\ txn' = c
    BY <1>1, <2>1 DEF TypeOK
  <2>5. Undone(c)'
    BY <1>1, <1>2, <2>1, <2>3, <2>4 DEF Undone, Active, Recorded
  <2>6. Progress(c)'
    BY <1>1, <2>4, <2>5 DEF Progress, Begun
  <2>7. TypeOK'
    BY <1>1, <2>1, <2>3 DEF TypeOK, Steps
  <2>8. \A d \in Threads \ {c} : pc'[d] = pc[d] /\ req'[d] = req[d] /\ plan'[d] = plan[d]
    BY <1>1, <2>1 DEF TypeOK
  <2>9. txn' # Nobody
    BY <2>4, NobodyAssumption
  <2> QED
    BY <1>1, <2>4, <2>6, <2>7, <2>8, <2>9, OwnStepKeeps
<1> QED
  BY <1>3, <1>4

LEMMA StampKeeps ==
  ASSUME IInv, NEW c \in Threads, Stamp(c)
  PROVE  IInv'
<1> DEFINE i == req[c].id
<1>1. /\ TypeOK /\ pc[c] = "stamp" /\ txn = c /\ req[c] \in Requests
      /\ req[c].kind = "restore" /\ Undone(c)
  BY DEF IInv, Stamp, Progress, Begun
<1>2. /\ work' = [work EXCEPT !.audit[i].restored = TRUE]
      /\ pc' = [pc EXCEPT ![c] = "commit"]
      /\ UNCHANGED <<db, txn, req, plan, recorded, foreign>>
  BY DEF Stamp
<1>3. /\ i \in Ids /\ Active(db, i) /\ work \in Tables /\ db \in Tables
      /\ work.audit = db.audit
  BY <1>1 DEF Undone, TypeOK
<1>4. /\ work'.states = work.states /\ work' = [work EXCEPT !.audit = work'.audit]
      /\ work'.audit = [db.audit EXCEPT ![i].restored = TRUE]
  BY <1>2, <1>3 DEF Tables
<1>5. work' \in Tables
  <2>1. [db.audit[i] EXCEPT !.restored = TRUE] \in AuditRow
    BY <1>3, ActiveType DEF AuditRow
  <2>2. work'.audit \in [Ids -> AuditRow \cup {NoAudit}]
    BY <1>3, <1>4, <2>1 DEF Tables
  <2> QED
    BY <1>3, <1>4, <2>2 DEF Tables
<1>6. db' = db /\ req' = req /\ pc'[c] = "commit" /\ txn' = c
  BY <1>1, <1>2 DEF TypeOK
<1>7. Undone(c)'
  BY <1>1, <1>4, <1>6 DEF Undone, Active, Recorded
<1>8. Progress(c)'
  BY <1>1, <1>6, <1>7 DEF Progress, Begun
<1>9. TypeOK'
  BY <1>1, <1>2, <1>5 DEF TypeOK, Steps
<1>10. \A d \in Threads \ {c} : pc'[d] = pc[d] /\ req'[d] = req[d] /\ plan'[d] = plan[d]
  BY <1>1, <1>2 DEF TypeOK
<1>11. txn' # Nobody
  BY <1>6, NobodyAssumption
<1> QED
  BY <1>1, <1>6, <1>8, <1>9, <1>10, <1>11, OwnStepKeeps

LEMMA DismissKeeps ==
  ASSUME IInv, NEW c \in Threads, Dismiss(c)
  PROVE  IInv'
<1> DEFINE i == req[c].id
<1>1. /\ TypeOK /\ pc[c] = "dismiss" /\ txn = c /\ req[c] \in Requests
      /\ req[c].kind = "dismiss" /\ work = db
  BY DEF IInv, Dismiss, Progress, Begun
<1>2. i \in Ids
  BY <1>1, RequestKinds DEF UndoRequest
<1>3. CASE Rollback(c)
  BY <1>1, <1>3, RollbackKeeps
<1>4. CASE ~Rollback(c)
  <2>1. /\ Active(db, i) /\ ~db.audit[i].dismissed
        /\ work' = [db EXCEPT !.audit[i].dismissed = TRUE]
        /\ pc' = [pc EXCEPT ![c] = "commit"]
        /\ UNCHANGED <<db, txn, req, plan, recorded, foreign>>
    BY <1>1, <1>4 DEF Dismiss
  <2>2. work' \in Tables
    <3>1. db \in Tables
      BY <1>1 DEF TypeOK
    <3>2. [db.audit[i] EXCEPT !.dismissed = TRUE] \in AuditRow
      BY <1>2, <2>1, <3>1, ActiveType DEF AuditRow
    <3>3. [db.audit EXCEPT ![i].dismissed = TRUE] \in [Ids -> AuditRow \cup {NoAudit}]
      BY <1>2, <3>1, <3>2 DEF Tables
    <3> QED
      BY <2>1, <3>1, <3>3 DEF Tables
  <2>3. db' = db /\ req' = req /\ pc'[c] = "commit" /\ txn' = c
    BY <1>1, <2>1 DEF TypeOK
  <2>4. Dismissed(c)'
    BY <1>2, <2>1, <2>3 DEF Dismissed, Active, Recorded
  <2>5. Progress(c)'
    BY <1>1, <2>3, <2>4 DEF Progress, Begun
  <2>6. TypeOK'
    BY <1>1, <2>1, <2>2 DEF TypeOK, Steps
  <2>7. \A d \in Threads \ {c} : pc'[d] = pc[d] /\ req'[d] = req[d] /\ plan'[d] = plan[d]
    BY <1>1, <2>1 DEF TypeOK
  <2>8. txn' # Nobody
    BY <2>3, NobodyAssumption
  <2> QED
    BY <1>1, <2>3, <2>5, <2>6, <2>7, <2>8, OwnStepKeeps
<1> QED
  BY <1>3, <1>4

LEMMA StopKeeps ==
  ASSUME IInv, Stop
  PROVE  IInv'
<1>1. TypeOK'
  BY EmptyFunType DEF IInv, TypeOK, Stop, Steps
<1>2. txn' = Nobody /\ work' = db' /\ \A c \in Threads : pc'[c] = "idle" /\ plan'[c] = EmptyFun
  BY DEF Stop
<1>3. ASSUME NEW c \in Threads PROVE Progress(c)'
  BY <1>2, NobodyAssumption DEF Progress, Begun
<1> QED
  BY <1>1, <1>2, <1>3 DEF IInv

LEMMA OutsideKeeps ==
  ASSUME IInv, NEW tables \in Tables, WriteOutside(tables), foreign' \subseteq Rows
  PROVE  IInv'
<1>1. TypeOK'
  BY DEF IInv, TypeOK, WriteOutside
<1>2. /\ txn = Nobody /\ txn' = Nobody /\ work' = db'
      /\ UNCHANGED <<pc, req, plan>>
  BY DEF WriteOutside
<1>3. ASSUME NEW c \in Threads PROVE Progress(c)'
  <2>1. Progress(c) /\ ~Begun(c)
    BY <1>2, NobodyAssumption DEF IInv, Progress
  <2> QED
    BY <1>2, <2>1 DEF Progress, Begun
<1> QED
  BY <1>1, <1>2, <1>3 DEF IInv

LEMMA PurgeKeeps ==
  ASSUME IInv, NEW r \in Rows, Purge(r)
  PROVE  IInv'
<1>1. [db EXCEPT !.states[r] = Absent] \in Tables
  BY DEF IInv, TypeOK, Tables, Cell
<1>2. foreign' \subseteq Rows
  BY DEF Purge, IInv, TypeOK
<1> QED
  BY <1>1, <1>2, OutsideKeeps DEF Purge

LEMMA OverwriteKeeps ==
  ASSUME IInv, NEW r \in Rows, NEW v \in Values, Overwrite(r, v)
  PROVE  IInv'
<1>1. [db EXCEPT !.states[r] = v] \in Tables
  BY DEF IInv, TypeOK, Tables, Cell
<1>2. foreign' \subseteq Rows
  BY DEF Overwrite, IInv, TypeOK
<1> QED
  BY <1>1, <1>2, OutsideKeeps DEF Overwrite

LEMMA InitEstablishes == Init => IInv
<1> SUFFICES ASSUME Init PROVE IInv
  OBVIOUS
<1>1. db \in Tables /\ work = db
  <2>1. db.states \in [Rows -> Cell] /\ db.audit \in [Ids -> AuditRow \cup {NoAudit}]
    BY DEF Init, Cell
  <2> QED
    BY <2>1 DEF Init, Tables
<1>2. TypeOK
  BY <1>1, EmptyFunType DEF Init, TypeOK, Steps
<1>3. ASSUME NEW c \in Threads PROVE Progress(c)
  BY NobodyAssumption DEF Init, Progress, Begun
<1> QED
  BY <1>1, <1>2, <1>3 DEF IInv

LEMMA NextKeeps == IInv /\ [Next]_vars => IInv'
<1> SUFFICES ASSUME IInv, [Next]_vars PROVE IInv'
  OBVIOUS
<1>1. ASSUME NEW c \in Threads, NEW q \in Requests, Submit(c, q) PROVE IInv'
  BY <1>1, SubmitKeeps
<1>2. ASSUME NEW c \in Threads, Begin(c) PROVE IInv'
  BY <1>2, BeginKeeps
<1>3. ASSUME NEW c \in Threads, BeginRefused(c) \/ GiveUp(c) PROVE IInv'
  BY <1>3, RefusalKeeps
<1>4. ASSUME NEW c \in Threads, Proceed(c) PROVE IInv'
  BY <1>4, BulkReadKeeps, InsertKeeps, UpdateKeeps, UndoKeeps, StampKeeps, DismissKeeps,
     CommitKeeps DEF Proceed
<1>5. ASSUME NEW c \in Threads, Fail(c) PROVE IInv'
  BY <1>5, RollbackKeeps DEF Fail
<1>6. CASE Stop
  BY <1>6, StopKeeps
<1>7. ASSUME NEW r \in Rows, Purge(r) PROVE IInv'
  BY <1>7, PurgeKeeps
<1>8. ASSUME NEW r \in Rows, NEW v \in Values, Overwrite(r, v) PROVE IInv'
  BY <1>8, OverwriteKeeps
<1>9. CASE UNCHANGED vars
  <2>1. ASSUME NEW c \in Threads, ~Begun(c) PROVE IInv'
    <3>1. TypeOK' /\ UNCHANGED <<db, work, txn, pc, req, plan>> /\ Progress(c)
      BY <1>9 DEF IInv, vars, TypeOK
    <3>2. Progress(c)'
      BY <2>1, <3>1 DEF Progress, Begun
    <3> QED
      BY <2>1, <3>1, <3>2, BystanderKeeps
  <2>2. ASSUME NEW c \in Threads, Begun(c) PROVE IInv'
    <3>1. /\ TypeOK' /\ UNCHANGED <<db, work, txn, pc, req, plan>>
          /\ Progress(c) /\ txn = c
      BY <1>9, <2>2 DEF IInv, vars, TypeOK, Progress
    <3>2. New' = New /\ NextRow(c)' = NextRow(c)
      BY <3>1 DEF New, Unused, Recorded, NextRow, Oldest
    <3>3. CorrectedSoFar(c)' <=> CorrectedSoFar(c)
      BY <3>1, <3>2 DEF CorrectedSoFar
    <3>4. (Undone(c)' <=> Undone(c)) /\ (Dismissed(c)' <=> Dismissed(c))
      BY <3>1 DEF Undone, Dismissed, Active, Recorded
    <3>5. Progress(c)'
      BY <3>1, <3>2, <3>3, <3>4 DEF Progress, Begun, Correcting
    <3> QED
      BY <3>1, <3>5, NobodyAssumption, OwnStepKeeps
  <2>3. CASE Threads = {}
    BY <1>9, <2>3 DEF IInv, vars, TypeOK
  <2> QED
    BY <2>1, <2>2, <2>3
<1> QED
  BY <1>1, <1>2, <1>3, <1>4, <1>5, <1>6, <1>7, <1>8, <1>9 DEF Next

LEMMA Invariance == Spec => []IInv
  BY InitEstablishes, NextKeeps, PTL DEF Spec

-----------------------------------------------------------------------------
(***************************************************************************)
(* The tables, committed and as the connection sees them, hold readings    *)
(* and audit rows: no correction records a purged row as its original.     *)
(***************************************************************************)
THEOREM TypeCorrect == Spec => []TypeOK
<1>1. IInv => TypeOK
  BY DEF IInv
<1> QED
  BY <1>1, Invariance, PTL

-----------------------------------------------------------------------------
(***************************************************************************)
(* Refinement.  A transaction takes effect at its COMMIT, as one step of   *)
(* the ledger; everything before it is a stutter.                          *)
(***************************************************************************)
LEMMA InitRefines == Init => Ledger!Init
  BY DEF Init, Ledger!Init, Ids, Ledger!Ids

LEMMA CommitOfCorrections ==
  ASSUME IInv, NEW c \in Threads, Commit(c), CorrectedSoFar(c), DOMAIN plan[c] = {}, New # {}
  PROVE  Ledger!Next
<1> DEFINE at == [i \in New |-> work.audit[i].row]
           new == [i \in New |-> work.audit[i].corrected]
<1>1. TypeOK /\ db' = work /\ UNCHANGED <<recorded, foreign>>
  BY DEF IInv, Commit
<1>2. New \subseteq Ids /\ \A i \in New : work.audit[i] \in AuditRow
  BY <1>1 DEF New, Unused, Recorded, TypeOK, Tables
<1>3. New \in (SUBSET Ledger!Unused) \ {{}}
  BY <1>1 DEF New, Unused, Recorded, Ledger!Unused, Ledger!Recorded, Ids, Ledger!Ids
<1>4. at \in Ledger!Injections(New, Ledger!Present)
  <2>1. \A i \in New : work.audit[i].row \in Rows /\ db.states[work.audit[i].row] # Absent
    BY <1>2, ValuesAssumption DEF CorrectedSoFar, AuditRow
  <2>2. at \in [New -> Ledger!Present]
    BY <2>1 DEF Ledger!Present
  <2> QED
    BY <2>2 DEF Ledger!Injections, CorrectedSoFar
<1>5. new \in [New -> Numeric]
  BY <1>2 DEF AuditRow
<1>6. db'.audit = [i \in Ledger!Ids |->
                     IF i \in New THEN Ledger!NewEntry(at[i], db.states[at[i]], new[i])
                                  ELSE db.audit[i]]
  <2>1. ASSUME NEW i \in New
        PROVE  work.audit[i] = Ledger!NewEntry(at[i], db.states[at[i]], new[i])
    <3>1. work.audit[i].restored \in BOOLEAN /\ work.audit[i].dismissed \in BOOLEAN
      BY <1>2 DEF AuditRow
    <3>2. work.audit[i].restored = FALSE /\ work.audit[i].dismissed = FALSE
      BY <3>1 DEF CorrectedSoFar
    <3>3. work.audit[i].orig = db.states[at[i]]
      BY DEF CorrectedSoFar
    <3> QED
      BY <1>2, <3>2, <3>3 DEF AuditRow, Ledger!NewEntry
  <2>2. \A i \in Ids \ New : work.audit[i] = db.audit[i]
    BY DEF CorrectedSoFar
  <2>3. db'.audit = [i \in Ids |-> work.audit[i]]
    BY <1>1 DEF TypeOK, Tables
  <2> HIDE DEF at, new
  <2> QED
    BY <2>1, <2>2, <2>3 DEF Ids, Ledger!Ids
<1>7. db'.states = [r \in Rows |-> IF \E i \in New : at[i] = r
                                   THEN new[CHOOSE i \in New : at[i] = r] ELSE db.states[r]]
  <2>1. db'.states = [r \in Rows |-> work.states[r]]
    BY <1>1 DEF TypeOK, Tables
  <2>2. \A r \in Rows : ~(\E i \in New : at[i] = r) => work.states[r] = db.states[r]
    BY DEF CorrectedSoFar
  <2>3. ASSUME NEW r \in Rows, \E i \in New : at[i] = r
        PROVE  work.states[r] = new[CHOOSE i \in New : at[i] = r]
    <3> DEFINE j == CHOOSE i \in New : at[i] = r
    <3>1. j \in New /\ at[j] = r
      BY <2>3
    <3> HIDE DEF j
    <3>2. new[j] = work.states[r]
      BY <3>1 DEF CorrectedSoFar
    <3> QED
      BY <3>2 DEF j
  <2> HIDE DEF at, new
  <2> QED
    BY <2>1, <2>2, <2>3
<1> HIDE DEF at, new
<1>8. Ledger!Correct(New, at, new)
  BY <1>1, <1>6, <1>7 DEF Ledger!Correct
<1> QED
  BY <1>3, <1>4, <1>5, <1>8 DEF Ledger!Next

LEMMA CommitOfNothing ==
  ASSUME IInv, NEW c \in Threads, CorrectedSoFar(c), New = {}
  PROVE  work = db
<1>1. db \in Tables /\ work \in Tables
  BY DEF IInv, TypeOK
<1>2. \A i \in Ids : work.audit[i] = db.audit[i]
  BY DEF CorrectedSoFar
<1>3. \A r \in Rows : work.states[r] = db.states[r]
  BY DEF CorrectedSoFar
<1>4. work.audit = db.audit
  BY <1>1, <1>2 DEF Tables
<1>5. work.states = db.states
  BY <1>1, <1>3 DEF Tables
<1> QED
  BY <1>1, <1>4, <1>5 DEF Tables

LEMMA CommitRefines ==
  ASSUME IInv, NEW c \in Threads, Commit(c)
  PROVE  [Ledger!Next]_(Ledger!vars)
<1> DEFINE i == req[c].id
<1>1. /\ TypeOK /\ pc[c] = "commit" /\ db' = work /\ UNCHANGED <<recorded, foreign>>
      /\ \/ Correcting(c) /\ CorrectedSoFar(c) /\ DOMAIN plan[c] = {}
         \/ req[c].kind = "restore" /\ Undone(c)
         \/ req[c].kind = "dismiss" /\ Dismissed(c)
  BY DEF IInv, Commit, Progress
<1>2. CASE CorrectedSoFar(c) /\ DOMAIN plan[c] = {}
  <2>1. CASE New = {}
    BY <1>1, <1>2, <2>1, CommitOfNothing DEF Ledger!vars
  <2>2. CASE New # {}
    BY <1>2, <2>2, CommitOfCorrections
  <2> QED
    BY <2>1, <2>2
<1>3. CASE Undone(c)
  <2>1. /\ i \in Ids /\ Active(db, i)
        /\ db.states[db.audit[i].row] = db.audit[i].corrected
        /\ db'.states = [db.states EXCEPT ![db.audit[i].row] = db.audit[i].orig]
        /\ db'.audit = [db.audit EXCEPT ![i].restored = TRUE]
    BY <1>1, <1>3 DEF Undone
  <2>2. Ledger!Active(i) /\ i \in Ledger!Ids
    BY <2>1 DEF Active, Recorded, Ledger!Active, Ledger!Recorded, Ids, Ledger!Ids
  <2> QED
    BY <1>1, <2>1, <2>2 DEF Ledger!Restore, Ledger!Next
<1>4. CASE Dismissed(c)
  <2>1. /\ i \in Ids /\ Active(db, i) /\ ~db.audit[i].dismissed
        /\ db' = [db EXCEPT !.audit[i].dismissed = TRUE]
    BY <1>1, <1>4 DEF Dismissed
  <2>2. db'.states = db.states /\ db'.audit = [db.audit EXCEPT ![i].dismissed = TRUE]
    BY <1>1, <2>1 DEF TypeOK, Tables
  <2>3. Ledger!Active(i) /\ i \in Ledger!Ids
    BY <2>1 DEF Active, Recorded, Ledger!Active, Ledger!Recorded, Ids, Ledger!Ids
  <2> QED
    BY <1>1, <2>1, <2>2, <2>3 DEF Ledger!Dismiss, Ledger!Next
<1> QED
  BY <1>1, <1>2, <1>3, <1>4

LEMMA NextRefines == IInv /\ [Next]_vars => [Ledger!Next]_(Ledger!vars)
<1> SUFFICES ASSUME IInv, [Next]_vars PROVE [Ledger!Next]_(Ledger!vars)
  OBVIOUS
<1>1. db \in Tables
  BY DEF IInv, TypeOK
<1>2. ASSUME NEW r \in Rows, Purge(r) PROVE [Ledger!Next]_(Ledger!vars)
  <2>1. db'.states = [db.states EXCEPT ![r] = Absent] /\ db'.audit = db.audit
    BY <1>1, <1>2 DEF Purge, WriteOutside, Tables
  <2>2. Ledger!Purge(r)
    BY <1>2, <2>1 DEF Purge, WriteOutside, Ledger!Purge
  <2> QED
    BY <2>2 DEF Ledger!Next
<1>3. ASSUME NEW r \in Rows, NEW v \in Values, Overwrite(r, v) PROVE [Ledger!Next]_(Ledger!vars)
  <2>1. db'.states = [db.states EXCEPT ![r] = v] /\ db'.audit = db.audit
    BY <1>1, <1>3 DEF Overwrite, WriteOutside, Tables
  <2>2. Ledger!Overwrite(r, v)
    BY <1>3, <2>1 DEF Overwrite, WriteOutside, Ledger!Overwrite
  <2> QED
    BY <2>2 DEF Ledger!Next
<1>4. ASSUME UNCHANGED <<db, recorded, foreign>> PROVE [Ledger!Next]_(Ledger!vars)
  BY <1>4 DEF Ledger!vars
<1>5. ASSUME NEW c \in Threads, Commit(c) PROVE [Ledger!Next]_(Ledger!vars)
  BY <1>5, CommitRefines
<1>6. ASSUME NEW c \in Threads, Proceed(c), ~Commit(c) PROVE UNCHANGED <<db, recorded, foreign>>
  <2>1. Rollback(c) => UNCHANGED <<db, recorded, foreign>>
    BY DEF Rollback
  <2>2. BulkRead(c) => UNCHANGED <<db, recorded, foreign>>
    BY <2>1 DEF BulkRead
  <2>3. Insert(c) => UNCHANGED <<db, recorded, foreign>>
    BY <2>1 DEF Insert
  <2>4. Update(c) \/ Stamp(c) => UNCHANGED <<db, recorded, foreign>>
    BY DEF Update, Stamp
  <2>5. Undo(c) \/ Dismiss(c) => UNCHANGED <<db, recorded, foreign>>
    BY <2>1 DEF Undo, Dismiss
  <2> QED
    BY <1>6, <2>2, <2>3, <2>4, <2>5 DEF Proceed
<1>7. ASSUME NEW c \in Threads, NEW q \in Requests, Submit(c, q)
      PROVE  UNCHANGED <<db, recorded, foreign>>
  BY <1>7 DEF Submit
<1>8. ASSUME NEW c \in Threads, Begin(c) \/ BeginRefused(c) \/ GiveUp(c) \/ Fail(c)
      PROVE  UNCHANGED <<db, recorded, foreign>>
  BY <1>8 DEF Begin, Opened, BeginRefused, GiveUp, Fail, Rollback
<1>9. Stop => UNCHANGED <<db, recorded, foreign>>
  BY DEF Stop
<1>10. CASE UNCHANGED vars
  BY <1>4, <1>10 DEF vars
<1> QED
  BY <1>2, <1>3, <1>4, <1>5, <1>6, <1>7, <1>8, <1>9, <1>10 DEF Next

(***************************************************************************)
(* On the one connection of the SQLite adapter the committed tables change *)
(* by whole corrections, restores and dismissals only, each with its       *)
(* checks true at the moment it takes effect, whichever threads start,     *)
(* fail, are refused or are stopped in between.                            *)
(***************************************************************************)
THEOREM SharedConnectionImplementsLedger == Spec => ImplementsLedger
<1> QED
  BY InitRefines, NextRefines, Invariance, PTL DEF Spec, ImplementsLedger, Ledger!Spec

-----------------------------------------------------------------------------
(***************************************************************************)
(* What a correction checked when it was recorded is still so when it is   *)
(* committed: nobody else writes while its transaction is open.            *)
(***************************************************************************)
SeenChecked(c) ==
  req[c].kind = "apply" =>
    /\ pc[c] \in {"insert", "update"} => DOMAIN plan[c] = {req[c].row}
    /\ pc[c] \in {"update", "commit"} => req[c].expected \in {AnyValue, db.states[req[c].row]}

RowsUncorrected(c) ==
  req[c].kind = "bulk" /\ pc[c] \in {"insert", "update", "commit"} =>
    \A j \in Ids : Active(db, j) =>
      /\ db.audit[j].row \notin DOMAIN plan[c]
      /\ \A i \in New : work.audit[i].row # db.audit[j].row

Checks == \A c \in Threads : SeenChecked(c) /\ RowsUncorrected(c)

Checking(c) == pc[c] \in {"insert", "update", "commit"}

LEMMA BeginChecks ==
  ASSUME IInv, NEW c \in Threads, Begin(c)
  PROVE  SeenChecked(c)' /\ RowsUncorrected(c)'
<1>1. TypeOK /\ req[c] \in Requests /\ pc[c] = "begin"
  BY DEF IInv, Begin, Progress
<1>2. /\ req' = req
      /\ req[c].kind = "apply" => pc'[c] = "insert" /\ DOMAIN plan'[c] = {req[c].row}
      /\ req[c].kind = "bulk" => pc'[c] = "bulk"
  BY <1>1 DEF Begin, Opened, TypeOK
<1> QED
  BY <1>2 DEF SeenChecked, RowsUncorrected

LEMMA BulkReadChecks ==
  ASSUME IInv, NEW c \in Threads, BulkRead(c), Checking(c)'
  PROVE  SeenChecked(c)' /\ RowsUncorrected(c)'
<1>1. TypeOK /\ req[c].kind = "bulk" /\ work = db
  BY DEF IInv, BulkRead, Progress
<1>2. ~Rollback(c)
  BY <1>1 DEF Rollback, Answer, Checking, TypeOK
<1>3. PICK new \in BulkPlans(work, req[c]) :
        plan' = [plan EXCEPT ![c] = new] /\ UNCHANGED <<db, work, req>>
  BY <1>2 DEF BulkRead
<1>4. DOMAIN plan'[c] = BulkTargets(db, req[c]) /\ New' = {} /\ req'[c].kind = "bulk" /\ db' = db
  BY <1>1, <1>3 DEF BulkPlans, New, TypeOK
<1>5. \A j \in Ids : Active(db, j) => db.audit[j].row \notin BulkTargets(db, req[c])
  BY DEF BulkTargets
<1> QED
  BY <1>4, <1>5 DEF SeenChecked, RowsUncorrected, Active, Recorded

LEMMA InsertChecks ==
  ASSUME IInv, Checks, NEW c \in Threads, Insert(c), Checking(c)'
  PROVE  SeenChecked(c)' /\ RowsUncorrected(c)'
<1> DEFINE r == NextRow(c)
           n == NextId
<1>1. /\ TypeOK /\ CorrectedSoFar(c) /\ DOMAIN plan[c] # {} /\ pc[c] = "insert"
      /\ SeenChecked(c) /\ RowsUncorrected(c)
  BY DEF IInv, Insert, Progress, Checks
<1>2. ~Rollback(c)
  BY <1>1 DEF Rollback, Answer, Checking, TypeOK
<1>3. /\ RowAccepted(work, req[c], r)
      /\ n \in Unused(work)
      /\ work' = [work EXCEPT !.audit[n] = NewEntry(work, r, plan[c][r])]
      /\ pc' = [pc EXCEPT ![c] = "update"]
      /\ db' = db /\ plan' = plan /\ req' = req
  BY <1>2, NextIdType DEF Insert
<1>4. r \in DOMAIN plan[c] /\ r \in Rows /\ work.states[r] = db.states[r]
  BY <1>1, NextRowType DEF CorrectedSoFar
<1>5. SeenChecked(c)'
  <2>1. req[c].kind = "apply" => /\ DOMAIN plan[c] = {req[c].row}
                                 /\ req[c].expected \in {AnyValue, work.states[r]}
    BY <1>1, <1>3 DEF SeenChecked, RowAccepted
  <2> HIDE DEF r
  <2> QED
    BY <1>3, <1>4, <2>1 DEF SeenChecked
<1>6. RowsUncorrected(c)'
  <2> HIDE DEF n, r
  <2>1. n \in Ids /\ work.audit \in [Ids -> AuditRow \cup {NoAudit}]
    BY <1>1, <1>3 DEF Unused, TypeOK, Tables
  <2>2. /\ work'.audit[n].row = r
        /\ \A i \in Ids \ {n} : work'.audit[i] = work.audit[i]
    BY <1>1, <1>3, <2>1 DEF NewEntry, TypeOK, Tables
  <2>3. New' \subseteq New \cup {n} /\ New' \subseteq Ids
    BY <1>3, <2>2 DEF New, Unused, Recorded
  <2>4. SUFFICES ASSUME req[c].kind = "bulk", NEW j \in Ids, Active(db, j)
                 PROVE  /\ db.audit[j].row \notin DOMAIN plan[c]
                        /\ \A i \in New' : work'.audit[i].row # db.audit[j].row
    BY <1>3 DEF RowsUncorrected, Active, Recorded
  <2>5. /\ db.audit[j].row \notin DOMAIN plan[c]
        /\ \A i \in New : work.audit[i].row # db.audit[j].row
    BY <1>1, <2>4 DEF RowsUncorrected
  <2> QED
    BY <1>4, <2>2, <2>3, <2>5
<1> QED
  BY <1>5, <1>6

LEMMA UpdateChecks ==
  ASSUME IInv, Checks, NEW c \in Threads, Update(c)
  PROVE  SeenChecked(c)' /\ RowsUncorrected(c)'
<1> DEFINE r == NextRow(c)
<1>1. /\ TypeOK /\ DOMAIN plan[c] # {} /\ pc[c] = "update"
      /\ SeenChecked(c) /\ RowsUncorrected(c)
  BY DEF IInv, Update, Progress, Checks
<1>2. /\ work' = [work EXCEPT !.states[r] = plan[c][r]]
      /\ plan' = [plan EXCEPT ![c] = Without(plan[c], r)]
      /\ pc' = [pc EXCEPT ![c] = IF DOMAIN plan[c] = {r} THEN "commit" ELSE "insert"]
      /\ db' = db /\ req' = req
  BY <1>1 DEF Update, TypeOK
<1>3. r \in DOMAIN plan[c]
  BY <1>1, NextRowType
<1> HIDE DEF r
<1>4. work'.audit = work.audit /\ New' = New
  BY <1>1, <1>2 DEF New, Unused, Recorded, TypeOK, Tables
<1>5. /\ DOMAIN plan'[c] \subseteq DOMAIN plan[c]
      /\ pc'[c] = IF DOMAIN plan[c] = {r} THEN "commit" ELSE "insert"
  BY <1>1, <1>2 DEF TypeOK, Without
<1>6. SeenChecked(c)'
  BY <1>1, <1>2, <1>3, <1>5 DEF SeenChecked
<1>7. RowsUncorrected(c)'
  BY <1>1, <1>2, <1>4, <1>5 DEF RowsUncorrected, Active, Recorded
<1> QED
  BY <1>6, <1>7

\* A thread in the middle of a correction has the transaction: a step that
\* is not its own leaves it and the tables as they are.
LEMMA OthersLeave ==
  ASSUME IInv, NEW d \in Threads, Checking(d)', [Next]_vars,
         ~Begin(d), ~Proceed(d)
  PROVE  UNCHANGED <<db, work, pc[d], req[d], plan[d]>>
<1>1. TypeOK /\ Progress(d)
  BY DEF IInv
<1>2. \A c \in Threads : Answer(c) /\ c # d => UNCHANGED <<pc[d], req[d], plan[d]>>
  BY <1>1 DEF Answer, TypeOK
<1>3. ~Answer(d)
  BY <1>1 DEF Answer, Checking, TypeOK
<1>4. CASE UNCHANGED vars
  BY <1>4 DEF vars
<1>5. ASSUME NEW c \in Threads, NEW q \in Requests, Submit(c, q)
      PROVE  UNCHANGED <<db, work, pc[d], req[d], plan[d]>>
  <2>1. c # d
    BY <1>1, <1>5 DEF Submit, Checking, TypeOK
  <2> QED
    BY <1>1, <1>5, <2>1 DEF Submit, TypeOK
<1>6. ASSUME NEW c \in Threads, BeginRefused(c) \/ GiveUp(c)
      PROVE  UNCHANGED <<db, work, pc[d], req[d], plan[d]>>
  BY <1>2, <1>3, <1>6 DEF BeginRefused, GiveUp
<1>7. ASSUME NEW c \in Threads, Begin(c) PROVE FALSE
  <2>1. c # d /\ txn = Nobody
    BY <1>7 DEF Begin
  <2>2. pc'[d] = pc[d]
    BY <1>1, <1>7, <2>1 DEF Begin, Opened, TypeOK
  <2> QED
    BY <1>1, <2>1, <2>2, NobodyAssumption DEF Progress, Begun, Checking
<1>8. ASSUME NEW c \in Threads, Proceed(c) \/ Fail(c) PROVE FALSE
  <2>1. c # d
    BY <1>3, <1>8 DEF Fail, Rollback
  <2>2. txn = c
    <3>1. Progress(c)
      BY DEF IInv
    <3> QED
      BY <1>8, <3>1 DEF Fail, Proceed, BulkRead, Insert, Update, Undo, Stamp, Dismiss, Commit,
                        Progress, Begun
  <2>3. pc'[d] = pc[d]
    <3>1. Answer(c) => pc'[d] = pc[d]
      BY <1>2, <2>1
    <3>2. Rollback(c) => pc'[d] = pc[d]
      BY <3>1 DEF Rollback
    <3>3. BulkRead(c) \/ Insert(c) => pc'[d] = pc[d]
      BY <1>1, <2>1, <3>2 DEF BulkRead, Insert, TypeOK
    <3>4. Update(c) \/ Stamp(c) => pc'[d] = pc[d]
      BY <1>1, <2>1 DEF Update, Stamp, TypeOK
    <3>5. Undo(c) \/ Dismiss(c) => pc'[d] = pc[d]
      BY <1>1, <2>1, <3>2 DEF Undo, Dismiss, TypeOK
    <3>6. Commit(c) \/ Fail(c) => pc'[d] = pc[d]
      BY <3>1, <3>2 DEF Commit, Fail
    <3> QED
      BY <1>8, <3>3, <3>4, <3>5, <3>6 DEF Proceed
  <2> QED
    BY <1>1, <2>1, <2>2, <2>3 DEF Progress, Begun, Checking
<1>9. ~Stop
  BY DEF Stop, Checking
<1>10. ASSUME NEW tables, WriteOutside(tables) PROVE FALSE
  BY <1>1, <1>10, NobodyAssumption DEF WriteOutside, Progress, Begun, Checking
<1>11. ASSUME NEW r \in Rows PROVE ~Purge(r) /\ \A v \in Values : ~Overwrite(r, v)
  BY <1>10 DEF Purge, Overwrite
<1> QED
  BY <1>4, <1>5, <1>6, <1>7, <1>8, <1>9, <1>11 DEF Next

LEMMA NextChecks == IInv /\ Checks /\ [Next]_vars => Checks'
<1> SUFFICES ASSUME IInv, Checks, [Next]_vars, NEW d \in Threads
             PROVE  SeenChecked(d)' /\ RowsUncorrected(d)'
  BY DEF Checks
<1>1. CASE ~Checking(d)'
  BY <1>1 DEF Checking, SeenChecked, RowsUncorrected
<1>2. CASE Checking(d)' /\ Begin(d)
  BY <1>2, BeginChecks
<1>3. CASE Checking(d)' /\ Proceed(d)
  <2>1. BulkRead(d) \/ Insert(d) \/ Update(d) => SeenChecked(d)' /\ RowsUncorrected(d)'
    BY <1>3, BulkReadChecks, InsertChecks, UpdateChecks
  <2>2. Undo(d) \/ Stamp(d) \/ Dismiss(d) => SeenChecked(d)' /\ RowsUncorrected(d)'
    <3>1. TypeOK /\ Progress(d)
      BY DEF IInv
    <3>2. Rollback(d) => ~Checking(d)'
      BY <3>1 DEF Rollback, Answer, Checking, TypeOK
    <3>3. Undo(d) \/ Stamp(d) \/ Dismiss(d) => req[d].kind \in {"restore", "dismiss"} /\ req' = req
      BY <1>3, <3>1, <3>2 DEF Undo, Stamp, Dismiss, Progress
    <3> QED
      BY <3>3 DEF SeenChecked, RowsUncorrected
  <2>3. ~Commit(d)
    BY <1>3 DEF Commit, Answer, Checking, IInv, TypeOK
  <2> QED
    BY <1>3, <2>1, <2>2, <2>3 DEF Proceed
<1>4. CASE Checking(d)' /\ ~Begin(d) /\ ~Proceed(d)
  <2>1. UNCHANGED <<db, work, pc[d], req[d], plan[d]>>
    BY <1>4, OthersLeave
  <2>2. New' = New /\ SeenChecked(d) /\ RowsUncorrected(d)
    BY <2>1 DEF New, Unused, Recorded, Checks
  <2> QED
    BY <2>1, <2>2 DEF SeenChecked, RowsUncorrected, Active, Recorded
<1> QED
  BY <1>1, <1>2, <1>3, <1>4

LEMMA ChecksHold == Spec => [](IInv /\ Checks)
<1>1. Init => IInv /\ Checks
  <2>1. Init => Checks
    BY DEF Init, Checks, SeenChecked, RowsUncorrected
  <2> QED
    BY <2>1, InitEstablishes
<1>2. (IInv /\ Checks) /\ [Next]_vars => (IInv /\ Checks)'
  BY NextKeeps, NextChecks
<1> QED
  BY <1>1, <1>2, PTL DEF Spec

(***************************************************************************)
(* A correction is committed only over the value its user was shown.       *)
(***************************************************************************)
THEOREM WhatWasSeenIsCorrected == Spec => CorrectsWhatWasSeen
<1>1. IInv /\ Checks =>
        \A c \in Threads : Commit(c) /\ req[c].kind = "apply" =>
          req[c].expected \in {AnyValue, db.states[req[c].row]}
  BY DEF Checks, SeenChecked, Commit
<1> QED
  BY <1>1, ChecksHold, PTL DEF CorrectsWhatWasSeen

(***************************************************************************)
(* A bulk correction on SQLite commits nothing over an active correction.  *)
(***************************************************************************)
THEOREM CorrectedRowsAreSkipped == Spec => BulkSkipsCorrected
<1>1. IInv /\ Checks =>
        \A c \in Threads : Commit(c) /\ req[c].kind = "bulk" =>
          \A i \in Unused(db) \ Unused(work), j \in Ids :
            Active(db, j) => db.audit[j].row # work.audit[i].row
  BY DEF Checks, RowsUncorrected, Commit, New
<1> QED
  BY <1>1, ChecksHold, PTL DEF BulkSkipsCorrected

=============================================================================
