-------------------------- MODULE SqliteCorrections --------------------------
(***************************************************************************)
(* The write transactions of the SQLite adapter.  All web threads, and the *)
(* MQTT publisher's, share one connection.  BEGIN IMMEDIATE claims the     *)
(* file's one write lock, so the recorder and everybody else wait until    *)
(* the transaction ends; but the connection has one transaction, not one   *)
(* for each thread: a second BEGIN fails inside the first, and plain reads *)
(* of any thread see the first one's uncommitted writes.                   *)
(*                                                                         *)
(* The statistics are left out: with the file locked from BEGIN to COMMIT  *)
(* they are rebuilt in one piece with the correction, as MeasurementStats  *)
(* and CounterStats take them to be.                                       *)
(***************************************************************************)
EXTENDS AdapterRequests

CONSTANTS Threads,   \* those of the web server
          Nobody, None

ASSUME NobodyAssumption == Nobody \notin Threads

VARIABLES
  db,         \* the committed tables
  work,       \* the tables as the connection sees them
  txn,        \* the thread whose transaction is open on the connection
  pc,         \* where each thread's request is
  req,        \* the request itself
  plan,       \* rows still to correct, and the value each will get
  recorded,   \* history: what the recorder originally wrote in each row
  foreign     \* history: rows somebody other than the add-on rewrote

vars == <<db, work, txn, pc, req, plan, recorded, foreign>>

Tables == [states: [Rows -> Cell], audit: [Ids -> AuditRow \cup {NoAudit}]]

Steps == {"idle", "begin", "bulk", "insert", "update", "undo", "stamp", "dismiss", "commit"}

TypeOK ==
  /\ db \in Tables /\ work \in Tables
  /\ txn \in Threads \cup {Nobody}
  /\ pc \in [Threads -> Steps]
  /\ req \in [Threads -> Requests \cup {None}]
  /\ plan \in [Threads -> PartialFun(Rows, Numeric)]
  /\ recorded \in [Rows -> Values] /\ foreign \subseteq Rows

Init ==
  /\ recorded \in [Rows -> Values]
  /\ foreign = {}
  /\ db = [states |-> recorded, audit |-> [i \in Ids |-> NoAudit]]
  /\ work = db
  /\ txn = Nobody
  /\ pc = [c \in Threads |-> "idle"]
  /\ req = [c \in Threads |-> None]
  /\ plan = [c \in Threads |-> EmptyFun]

-----------------------------------------------------------------------------
Unused(tables) == {i \in Ids : ~Recorded(tables, i)}

\* The request is answered, with a result or with an error.
Answer(c) ==
  /\ pc' = [pc EXCEPT ![c] = "idle"]
  /\ req' = [req EXCEPT ![c] = None]
  /\ plan' = [plan EXCEPT ![c] = EmptyFun]

Rollback(c) ==
  /\ work' = db
  /\ txn' = Nobody
  /\ Answer(c)
  /\ UNCHANGED <<db, recorded, foreign>>

Submit(c, q) ==
  /\ pc[c] = "idle"
  /\ req' = [req EXCEPT ![c] = q]
  /\ pc' = [pc EXCEPT ![c] = "begin"]
  /\ UNCHANGED <<db, work, txn, plan, recorded, foreign>>

-----------------------------------------------------------------------------
\* Where a transaction begins, and with what to correct.
Opened(c) ==
  LET q == req[c]
  IN  /\ txn' = c
      /\ plan' = IF q.kind = "apply" THEN [plan EXCEPT ![c] = [r \in {q.row} |-> q.new]] ELSE plan
      /\ pc' = [pc EXCEPT ![c] = CASE q.kind = "apply" -> "insert"
                                   [] q.kind = "bulk" -> "bulk"
                                   [] q.kind = "restore" -> "undo"
                                   [] OTHER -> "dismiss"]
      /\ UNCHANGED <<db, work, req, recorded, foreign>>

\* Mutant: the error of a BEGIN within a transaction is passed over.
BeginWithin(c) ==
  /\ pc[c] = "begin"
  /\ Opened(c)

\* BEGIN IMMEDIATE.
Begin(c) ==
  /\ pc[c] = "begin"
  /\ txn = Nobody
  /\ Opened(c)

\* "cannot start a transaction within a transaction": not a lock error, so
\* the exception goes to the caller, outside the block that rolls back.
BeginRefused(c) ==
  /\ pc[c] = "begin"
  /\ txn # Nobody
  /\ Answer(c)
  /\ UNCHANGED <<db, work, txn, recorded, foreign>>

\* The recorder has held the file until the deadline: LockTimeout.
GiveUp(c) ==
  /\ pc[c] = "begin"
  /\ txn = Nobody
  /\ Answer(c)
  /\ UNCHANGED <<db, work, txn, recorded, foreign>>

BulkRead(c) ==
  /\ pc[c] = "bulk"
  /\ IF BulkRefused(work, req[c])
     THEN Rollback(c)
     ELSE /\ \E new \in BulkPlans(work, req[c]) :
               /\ plan' = [plan EXCEPT ![c] = new]
               /\ pc' = [pc EXCEPT ![c] = IF DOMAIN new = {} THEN "commit" ELSE "insert"]
          /\ UNCHANGED <<db, work, txn, req, recorded, foreign>>

NextRow(c) == Oldest(DOMAIN plan[c])

\* AUTOINCREMENT: a rollback takes the counter back.
NextId == CHOOSE i \in Unused(work) : \A j \in Unused(work) : i <= j

\* _apply_one_correction: the checks and the audit INSERT.  That an id is
\* left is a bound of the model: without one the transaction can only fail.
Insert(c) ==
  /\ pc[c] = "insert"
  /\ LET r == NextRow(c)
     IN  IF ~RowAccepted(work, req[c], r)
         THEN Rollback(c)
         ELSE /\ Unused(work) # {}
              /\ work' = [work EXCEPT !.audit[NextId] = NewEntry(work, r, plan[c][r])]
              /\ pc' = [pc EXCEPT ![c] = "update"]
              /\ UNCHANGED <<db, txn, req, plan, recorded, foreign>>

\* ... the states UPDATE, and the next row of the range.
Update(c) ==
  /\ pc[c] = "update"
  /\ LET r == NextRow(c)
     IN  /\ work' = [work EXCEPT !.states[r] = plan[c][r]]
         /\ plan' = [plan EXCEPT ![c] = Without(@, r)]
         /\ pc' = [pc EXCEPT ![c] = IF DOMAIN plan[c] = {r} THEN "commit" ELSE "insert"]
         /\ UNCHANGED <<db, txn, req, recorded, foreign>>

\* restore_correction: the refusals, then the original back into states.
Undo(c) ==
  /\ pc[c] = "undo"
  /\ LET i == req[c].id
         entry == work.audit[i]
     IN  IF ~Active(work, i) \/ work.states[entry.row] # entry.corrected
         THEN Rollback(c)
         ELSE /\ work' = [work EXCEPT !.states[entry.row] = entry.orig]
              /\ pc' = [pc EXCEPT ![c] = "stamp"]
              /\ UNCHANGED <<db, txn, req, plan, recorded, foreign>>

\* ... and, after the statistics, restored_at.
Stamp(c) ==
  /\ pc[c] = "stamp"
  /\ work' = [work EXCEPT !.audit[req[c].id].restored = TRUE]
  /\ pc' = [pc EXCEPT ![c] = "commit"]
  /\ UNCHANGED <<db, txn, req, plan, recorded, foreign>>

\* dismiss_correction.
Dismiss(c) ==
  /\ pc[c] = "dismiss"
  /\ LET i == req[c].id
     IN  IF ~Active(work, i) \/ work.audit[i].dismissed
         THEN Rollback(c)
         ELSE /\ work' = [work EXCEPT !.audit[i].dismissed = TRUE]
              /\ pc' = [pc EXCEPT ![c] = "commit"]
              /\ UNCHANGED <<db, txn, req, plan, recorded, foreign>>

Commit(c) ==
  /\ pc[c] = "commit"
  /\ db' = work
  /\ txn' = Nobody
  /\ Answer(c)
  /\ UNCHANGED <<work, recorded, foreign>>

\* COMMIT finds the file locked by a reader, or a statement fails.
Fail(c) == txn = c /\ Rollback(c)

-----------------------------------------------------------------------------
\* The add-on is stopped, or killed: the journal undoes what was not
\* committed.
Stop ==
  /\ work' = db
  /\ txn' = Nobody
  /\ pc' = [c \in Threads |-> "idle"]
  /\ req' = [c \in Threads |-> None]
  /\ plan' = [c \in Threads |-> EmptyFun]
  /\ UNCHANGED <<db, recorded, foreign>>

\* Another process writes: the write lock keeps it out of transactions.
WriteOutside(tables) ==
  /\ txn = Nobody
  /\ db' = tables
  /\ work' = tables
  /\ UNCHANGED <<txn, pc, req, plan, recorded>>

\* The recorder purges a states row; somebody else rewrites one.
Purge(r) ==
  /\ db.states[r] # Absent
  /\ WriteOutside([db EXCEPT !.states[r] = Absent])
  /\ UNCHANGED foreign

Overwrite(r, v) ==
  /\ db.states[r] # Absent
  /\ WriteOutside([db EXCEPT !.states[r] = v])
  /\ foreign' = foreign \cup {r}

\* The statements of a transaction.
Proceed(c) ==
  \/ BulkRead(c)
  \/ Insert(c)
  \/ Update(c)
  \/ Undo(c)
  \/ Stamp(c)
  \/ Dismiss(c)
  \/ Commit(c)

Next ==
  \/ \E c \in Threads :
       \/ \E q \in Requests : Submit(c, q)
       \/ Begin(c) \/ BeginRefused(c) \/ GiveUp(c)
       \/ Proceed(c)
       \/ Fail(c)
  \/ Stop
  \/ \E r \in Rows : Purge(r) \/ \E v \in Values : Overwrite(r, v)

Spec == Init /\ [][Next]_vars

-----------------------------------------------------------------------------
\* find_orphaned_corrections: a plain SELECT on the connection all threads
\* share, so its answer is that of the tables it finds, work.
Orphans(tables) ==
  {i \in Ids :
     /\ Active(tables, i)
     /\ ~tables.audit[i].dismissed
     /\ tables.states[tables.audit[i].row] # tables.audit[i].corrected}

Ledger == INSTANCE CorrectionLedger WITH states <- db.states, audit <- db.audit

(***************************************************************************)
(* The SQLite adapter keeps the promise of the other two: what it commits  *)
(* is one step of the ledger at a time, whichever threads start, fail or   *)
(* are refused while a transaction of another is open.                     *)
(***************************************************************************)
ImplementsLedger == Ledger!Spec

(***************************************************************************)
(* ARCHITECTURE.md: "If the row changed between the user loading the graph *)
(* and pressing save, the correction is refused rather than applied to a   *)
(* value the user never saw."  The expected value is still there when the  *)
(* correction is committed.                                                *)
(***************************************************************************)
CorrectsWhatWasSeen ==
  [][\A c \in Threads : Commit(c) /\ req[c].kind = "apply" =>
       req[c].expected \in {AnyValue, db.states[req[c].row]}]_vars

(***************************************************************************)
(* hr_models.BulkPreview: rows already corrected are skipped.  On SQLite   *)
(* the range is read under the write lock, so no correction that is still  *)
(* active is corrected over by a bulk correction.                          *)
(***************************************************************************)
BulkSkipsCorrected ==
  [][\A c \in Threads : Commit(c) /\ req[c].kind = "bulk" =>
       \A i \in Unused(db) \ Unused(work), j \in Ids :
         Active(db, j) => db.audit[j].row # work.audit[i].row]_vars

(***************************************************************************)
(* hr_db.py:251: find_orphaned_corrections returns "Active corrections     *)
(* whose states row no longer holds corrected_value".  It does not always: *)
(* between the audit INSERT and the states UPDATE of another thread it     *)
(* also returns that thread's correction (README, section 4).              *)
(***************************************************************************)
OrphansAreCommitted == Orphans(work) \subseteq Orphans(db)

=============================================================================
