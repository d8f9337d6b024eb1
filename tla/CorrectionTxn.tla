---------------------------- MODULE CorrectionTxn ----------------------------
(***************************************************************************)
(* The write transactions of the MariaDB and PostgreSQL adapters, one step *)
(* per statement that can wait, read or become visible.  The requests and  *)
(* the reads they are decided by are those of AdapterRequests; they run on *)
(* the web server's threads, each on a connection of its own, so the only  *)
(* thing between them is the database: row locks held to the end of the    *)
(* transaction, writes nobody else sees before COMMIT, plain reads of      *)
(* either the last committed data (PostgreSQL, READ COMMITTED) or the      *)
(* snapshot of the transaction's first plain read (InnoDB, REPEATABLE      *)
(* READ).                                                                  *)
(*                                                                         *)
(* The statistics of an entity are one row whose content is the set of     *)
(* readings it was built from; how a mean or a running total comes out of  *)
(* the readings is the subject of MeasurementStats and CounterStats.       *)
(***************************************************************************)
EXTENDS AdapterRequests

CONSTANTS
  Clients,        \* the threads of the web server
  Tracked,        \* entities with a statistics_meta row
  Counters,       \* those with has_sum
  MetaLock,       \* FOR UPDATE also locks the joined states_meta row (MariaDB)
  SnapshotReads,  \* plain reads see the transaction's first snapshot (MariaDB)
  Nobody, None

ASSUME EntitiesAssumption == Tracked \subseteq Entities /\ Counters \subseteq Tracked
ASSUME FlagsAssumption == MetaLock \in BOOLEAN /\ SnapshotReads \in BOOLEAN
ASSUME NobodyAssumption == Nobody \notin Clients

VARIABLES
  db,        \* the committed tables
  nextId,    \* the audit table's AUTO_INCREMENT; a rollback does not reset it
  owner,     \* who holds the lock of each lockable row
  pc,        \* where each thread's request is
  req,       \* the request itself
  plan,      \* rows still to correct, and the value each will get
  w,         \* uncommitted writes, table by table
  snap,      \* the snapshot plain reads see, once there is one
  rebuilt,   \* the statistics row about to be written, and the one it replaces
  recorded,  \* history: what the recorder originally wrote in each row
  foreign    \* history: rows somebody other than the add-on rewrote

vars == <<db, nextId, owner, pc, req, plan, w, snap, rebuilt, recorded, foreign>>

-----------------------------------------------------------------------------
\* f where it is defined, g elsewhere.
Over(f, g) == [x \in DOMAIN g |-> IF x \in DOMAIN f THEN f[x] ELSE g[x]]

Bucket == PartialFun(Rows, Cell)   \* a statistics row: the readings it is made of

\* kept: the statistics columns of an audit row (orig_sst_*, orig_stat_*);
\* None while stats_corrected is 0.
Db == [states: [Rows -> Cell],
       audit:  [Ids -> AuditRow \cup {NoAudit}],
       stats:  [Entities -> Bucket],
       kept:   [Ids -> Bucket \cup {None}]]

\* None is neither a statistics row nor a pair of them.
ASSUME NoneAssumption == None \notin Bucket /\ None \notin [now: Bucket, was: Bucket]

Writes == [states: PartialFun(Rows, Values),
           audit:  PartialFun(Ids, AuditRow),
           stats:  PartialFun(Entities, Bucket),
           kept:   PartialFun(Ids, Bucket)]

NoWrites == [states |-> EmptyFun, audit |-> EmptyFun, stats |-> EmptyFun, kept |-> EmptyFun]

\* Uncommitted writes over tables read without them.
Merge(writes, tables) ==
  [states |-> Over(writes.states, tables.states),
   audit  |-> Over(writes.audit, tables.audit),
   stats  |-> Over(writes.stats, tables.stats),
   kept   |-> Over(writes.kept, tables.kept)]

Resources == ({"row"} \X Rows) \cup ({"meta", "stats"} \X Entities) \cup ({"audit"} \X Ids)

Steps == {"idle", "bulk", "lock", "correct", "read", "write", "audit", "undo", "commit"}

TypeOK ==
  /\ db \in Db
  /\ nextId \in Ids \cup {MaxId + 1}
  /\ owner \in [Resources -> Clients \cup {Nobody}]
  /\ pc \in [Clients -> Steps]
  /\ req \in [Clients -> Requests \cup {None}]
  /\ plan \in [Clients -> PartialFun(Rows, Numeric)]
  /\ w \in [Clients -> Writes]
  /\ snap \in [Clients -> Db \cup {None}]
  /\ rebuilt \in [Clients -> [now: Bucket, was: Bucket] \cup {None}]
  /\ recorded \in [Rows -> Values]
  /\ foreign \subseteq Rows

BucketOf(states, e) == [r \in RowsOf(e) |-> states[r]]

Init ==
  /\ recorded \in [Rows -> Values]
  /\ foreign = {}
  /\ db = [states |-> recorded,
           audit  |-> [i \in Ids |-> NoAudit],
           stats  |-> [e \in Entities |-> BucketOf(recorded, e)],
           kept   |-> [i \in Ids |-> None]]
  /\ nextId = 1
  /\ owner = [x \in Resources |-> Nobody]
  /\ pc = [c \in Clients |-> "idle"]
  /\ req = [c \in Clients |-> None]
  /\ plan = [c \in Clients |-> EmptyFun]
  /\ w = [c \in Clients |-> NoWrites]
  /\ snap = [c \in Clients |-> None]
  /\ rebuilt = [c \in Clients |-> None]

-----------------------------------------------------------------------------
\* What client c's locking reads and its COMMIT see: the last committed
\* tables with its own writes over them.
Latest(c) == Merge(w[c], db)

\* Mutant: the statistics are recomputed on a connection of their own.
ViewOfOthers(c) == IF snap[c] = None THEN db ELSE snap[c]

\* What its plain reads see.
View(c) == Merge(w[c], IF snap[c] = None THEN db ELSE snap[c])

\* The first plain read of an InnoDB transaction fixes its snapshot.
TakeSnapshot(c) ==
  snap' = IF SnapshotReads /\ snap[c] = None THEN [snap EXCEPT ![c] = db] ELSE snap

CanLock(c, x) == owner[x] \in {Nobody, c}
Lock(c, x) == owner' = [owner EXCEPT ![x] = c]

\* Mutant: a connection is kept for the next request without a ROLLBACK.
FinishWithoutRollback(c) ==
  /\ owner' = [x \in Resources |-> IF owner[x] = c THEN Nobody ELSE owner[x]]
  /\ pc' = [pc EXCEPT ![c] = "idle"]
  /\ req' = [req EXCEPT ![c] = None]
  /\ plan' = [plan EXCEPT ![c] = EmptyFun]
  /\ snap' = [snap EXCEPT ![c] = None]
  /\ rebuilt' = [rebuilt EXCEPT ![c] = None]
  /\ UNCHANGED w

\* The end of a transaction, whichever way it went: locks released, the
\* connection closed, the thread free for the next request.
Finish(c) ==
  /\ owner' = [x \in Resources |-> IF owner[x] = c THEN Nobody ELSE owner[x]]
  /\ pc' = [pc EXCEPT ![c] = "idle"]
  /\ req' = [req EXCEPT ![c] = None]
  /\ plan' = [plan EXCEPT ![c] = EmptyFun]
  /\ w' = [w EXCEPT ![c] = NoWrites]
  /\ snap' = [snap EXCEPT ![c] = None]
  /\ rebuilt' = [rebuilt EXCEPT ![c] = None]

Rollback(c) == Finish(c) /\ UNCHANGED <<db, nextId, recorded, foreign>>

-----------------------------------------------------------------------------
\* The rows accepted requests still want audit ids for.
Pending(c) == IF pc[c] = "bulk" THEN req[c].range ELSE DOMAIN plan[c]

\* Ids enough for every request already accepted and for q (a bound of the
\* model, not of the code).
RoomFor(q) ==
  nextId + Cardinality({p \in Clients \X Rows : p[2] \in Pending(p[1])})
         + Cardinality(RowsToCorrect(q)) <= MaxId + 1

\* A request reaches the adapter.  The entity's type and statistics metadata
\* are read before the transaction opens, on connections of their own.
Submit(c, q) ==
  /\ pc[c] = "idle"
  /\ RoomFor(q)
  /\ q.kind \in {"restore", "dismiss"} => Recorded(db, q.id)
  /\ req' = [req EXCEPT ![c] = q]
  /\ plan' = [plan EXCEPT ![c] = IF q.kind = "apply" THEN [r \in {q.row} |-> q.new] ELSE EmptyFun]
  /\ pc' = [pc EXCEPT ![c] = CASE q.kind = "apply" -> "lock"
                               [] q.kind = "bulk" -> "bulk"
                               [] OTHER -> "audit"]
  /\ UNCHANGED <<db, nextId, owner, w, snap, rebuilt, recorded, foreign>>

BulkRead(c) ==
  /\ pc[c] = "bulk"
  /\ LET q == req[c]
         targets == BulkTargets(View(c), q)
     IN  IF BulkRefused(View(c), q)
         THEN Rollback(c)
         ELSE /\ \E new \in BulkPlans(View(c), q) : plan' = [plan EXCEPT ![c] = new]
              /\ pc' = [pc EXCEPT ![c] = IF targets = {} THEN "commit" ELSE "lock"]
              /\ TakeSnapshot(c)
              /\ UNCHANGED <<db, nextId, owner, req, w, rebuilt, recorded, foreign>>

\* The oldest row still to be corrected.
NextRow(c) == Oldest(DOMAIN plan[c])

\* Mutant: the row is read without FOR UPDATE.
ReadRow(c) ==
  /\ pc[c] = "lock"
  /\ pc' = [pc EXCEPT ![c] = "correct"]
  /\ UNCHANGED <<db, nextId, owner, req, plan, w, snap, rebuilt, recorded, foreign>>

\* SELECT ... FOR UPDATE on the states row.
LockRow(c) ==
  /\ pc[c] = "lock"
  /\ CanLock(c, <<"row", NextRow(c)>>)
  /\ Lock(c, <<"row", NextRow(c)>>)
  /\ pc' = [pc EXCEPT ![c] = "correct"]
  /\ UNCHANGED <<db, nextId, req, plan, w, snap, rebuilt, recorded, foreign>>

\* The rest of _apply_one_correction up to the statistics: on MariaDB the
\* same SELECT locks the joined states_meta row; then the checks, the audit
\* INSERT and the states UPDATE.
CorrectRow(c) ==
  /\ pc[c] = "correct"
  /\ LET r == NextRow(c)
         meta == <<"meta", EntityOf[r]>>
     IN  /\ MetaLock => CanLock(c, meta)
         /\ IF ~RowAccepted(Latest(c), req[c], r)
            THEN Rollback(c)
            ELSE /\ nextId \in Ids
                 /\ nextId' = nextId + 1
                 /\ owner' = [owner EXCEPT ![<<"audit", nextId>>] = c,
                                           ![meta] = IF MetaLock THEN c ELSE @]
                 /\ w' = [w EXCEPT ![c].states = Put(@, r, plan[c][r]),
                                   ![c].audit = Put(@, nextId, NewEntry(Latest(c), r, plan[c][r]))]
                 /\ plan' = [plan EXCEPT ![c] = Without(@, r)]
                 /\ pc' = [pc EXCEPT ![c] = IF EntityOf[r] \in Tracked THEN "read"
                                            ELSE IF DOMAIN plan[c] = {r} THEN "commit"
                                            ELSE "lock"]
                 /\ UNCHANGED <<db, req, snap, rebuilt, recorded, foreign>>

-----------------------------------------------------------------------------
\* The entity whose statistics a transaction is rebuilding.
Subject(c) ==
  IF req[c].kind = "restore" THEN EntityOf[db.audit[req[c].id].row] ELSE req[c].entity

\* The plain reads of a recomputation: the statistics row to be replaced and
\* the readings the new one is built from.
ReadBucket(c) ==
  /\ pc[c] = "read"
  /\ rebuilt' = [rebuilt EXCEPT ![c] = [now |-> BucketOf(View(c).states, Subject(c)),
                                        was |-> View(c).stats[Subject(c)]]]
  /\ pc' = [pc EXCEPT ![c] = "write"]
  /\ TakeSnapshot(c)
  /\ UNCHANGED <<db, nextId, owner, req, plan, w, recorded, foreign>>

\* Mutant: the columns are filled from the row as recomputed.
OriginalsAfterUpdate(c) == rebuilt[c].now

\* originals, originals_hourly: what the UPDATE is about to overwrite.
Originals(c) == rebuilt[c].was

\* UPDATE of the statistics row, which waits for its lock, and for a
\* correction the UPDATE of the audit row just inserted that records the
\* originals and sets stats_corrected.
WriteBucket(c) ==
  LET e == Subject(c)
      inserted == CHOOSE i \in DOMAIN w[c].audit : i \notin DOMAIN w[c].kept
  IN  /\ pc[c] = "write"
      /\ CanLock(c, <<"stats", e>>)
      /\ Lock(c, <<"stats", e>>)
      /\ w' = [w EXCEPT ![c].stats = Put(@, e, rebuilt[c].now),
                        ![c].kept = IF req[c].kind = "restore" THEN @
                                    ELSE Put(@, inserted, Originals(c))]
      /\ rebuilt' = [rebuilt EXCEPT ![c] = None]
      /\ pc' = [pc EXCEPT ![c] = IF DOMAIN plan[c] = {} THEN "commit" ELSE "lock"]
      /\ UNCHANGED <<db, nextId, req, plan, snap, recorded, foreign>>

-----------------------------------------------------------------------------
\* restore_correction and dismiss_correction begin with SELECT ... FOR UPDATE
\* on the audit row; a dismissal has nothing else to do.
LockAudit(c) ==
  /\ pc[c] = "audit"
  /\ LET i == req[c].id
         entry == db.audit[i]
         dismissal == req[c].kind = "dismiss"
     IN  /\ CanLock(c, <<"audit", i>>)
         /\ IF ~Active(db, i) \/ (dismissal /\ entry.dismissed)
            THEN Rollback(c)
            ELSE /\ Lock(c, <<"audit", i>>)
                 /\ pc' = [pc EXCEPT ![c] = IF dismissal THEN "commit" ELSE "undo"]
                 /\ w' = IF dismissal
                         THEN [w EXCEPT ![c].audit =
                                 Put(@, i, [entry EXCEPT !.dismissed = TRUE])]
                         ELSE w
                 /\ UNCHANGED <<db, nextId, req, plan, snap, rebuilt, recorded, foreign>>

\* The rest of restore_correction: lock the states row, refuse unless it
\* holds the corrected value, put the original back, stamp restored_at.  A
\* counter's statistics are recomputed, a measurement's written back from
\* the audit row.
UndoRow(c) ==
  /\ pc[c] = "undo"
  /\ LET i == req[c].id
         entry == db.audit[i]
         x == <<"row", entry.row>>
         kept == db.kept[i]
     IN  /\ CanLock(c, x)
         /\ IF db.states[entry.row] # entry.corrected
            THEN Rollback(c)
            ELSE /\ Lock(c, x)
                 /\ w' = [w EXCEPT ![c].states = Put(@, entry.row, entry.orig),
                                   ![c].audit = Put(@, i, [entry EXCEPT !.restored = TRUE])]
                 /\ IF kept = None
                    THEN pc' = [pc EXCEPT ![c] = "commit"] /\ UNCHANGED rebuilt
                    ELSE IF EntityOf[entry.row] \in Counters
                    THEN pc' = [pc EXCEPT ![c] = "read"] /\ UNCHANGED rebuilt
                    ELSE /\ pc' = [pc EXCEPT ![c] = "write"]
                         /\ rebuilt' = [rebuilt EXCEPT ![c] = [now |-> kept, was |-> kept]]
                 /\ UNCHANGED <<db, nextId, req, plan, snap, recorded, foreign>>

-----------------------------------------------------------------------------
Commit(c) ==
  /\ pc[c] = "commit"
  /\ db' = Latest(c)
  /\ Finish(c)
  /\ UNCHANGED <<nextId, recorded, foreign>>

\* The lock the next step of c has to take.
Wanted(c) ==
  CASE pc[c] = "lock" -> <<"row", NextRow(c)>>
    [] pc[c] = "correct" -> <<"meta", EntityOf[NextRow(c)]>>
    [] pc[c] = "write" -> <<"stats", Subject(c)>>
    [] pc[c] = "audit" -> <<"audit", req[c].id>>
    [] pc[c] = "undo" -> <<"row", db.audit[req[c].id].row>>

\* Mutant: only the locking reads of an undo give up waiting.
LockTimeoutOfUndo(c) ==
  /\ pc[c] \in {"audit", "undo"}
  /\ ~CanLock(c, Wanted(c))
  /\ Rollback(c)

\* innodb_lock_wait_timeout, lock_timeout or the deadlock detector: the wait
\* is given up, the transaction rolled back and LockTimeout raised.
LockTimeout(c) ==
  /\ pc[c] \in {"lock", "write", "audit", "undo"} \/ (pc[c] = "correct" /\ MetaLock)
  /\ ~CanLock(c, Wanted(c))
  /\ Rollback(c)

\* The connection drops, or the add-on is stopped: the server rolls back.
ConnectionLost(c) == pc[c] # "idle" /\ Rollback(c)

\* The recorder purges a states row; somebody else rewrites one.
Purge(r) ==
  /\ owner[<<"row", r>>] = Nobody
  /\ db.states[r] # Absent
  /\ db' = [db EXCEPT !.states[r] = Absent]
  /\ UNCHANGED <<nextId, owner, pc, req, plan, w, snap, rebuilt, recorded, foreign>>

Overwrite(r, v) ==
  /\ owner[<<"row", r>>] = Nobody
  /\ db.states[r] # Absent
  /\ db' = [db EXCEPT !.states[r] = v]
  /\ foreign' = foreign \cup {r}
  /\ UNCHANGED <<nextId, owner, pc, req, plan, w, snap, rebuilt, recorded>>

\* What the server does on a request's behalf.
Proceed(c) ==
  \/ BulkRead(c)
  \/ LockRow(c)
  \/ CorrectRow(c)
  \/ ReadBucket(c)
  \/ WriteBucket(c)
  \/ LockAudit(c)
  \/ UndoRow(c)
  \/ Commit(c)
  \/ LockTimeout(c)

Next ==
  \/ \E c \in Clients : Proceed(c) \/ ConnectionLost(c) \/ \E q \in Requests : Submit(c, q)
  \/ \E r \in Rows : Purge(r) \/ \E v \in Values : Overwrite(r, v)

Spec == Init /\ [][Next]_vars

\* A thread that is not waiting runs, and a wait ends: by the lock being
\* granted or by the timeout the adapter sets on every connection.
FairSpec == Spec /\ \A c \in Clients : WF_vars(Proceed(c))

-----------------------------------------------------------------------------
Ledger == INSTANCE CorrectionLedger WITH states <- db.states, audit <- db.audit

(***************************************************************************)
(* Every transaction is one atomic step of the ledger, or none: a failure, *)
(* a timeout or a lost connection at any point leaves no trace, and no     *)
(* interleaving of requests, purges and outside writes makes a change      *)
(* without its record, records an original that was not there, or restores *)
(* over a value the add-on did not write.                                  *)
(***************************************************************************)
ImplementsLedger == Ledger!Spec

(***************************************************************************)
(* What keeps uncommitted writes apart: an item written and not yet        *)
(* committed is locked by its writer.                                      *)
(***************************************************************************)
HoldsItsWrites(c) ==
  /\ \A r \in DOMAIN w[c].states : owner[<<"row", r>>] = c
  /\ \A i \in DOMAIN w[c].audit : owner[<<"audit", i>>] = c
  /\ \A e \in DOMAIN w[c].stats : owner[<<"stats", e>>] = c

WritesAreLocked == \A c \in Clients : HoldsItsWrites(c)

(***************************************************************************)
(* hr_corrections.apply recomputes the buckets "in the same transaction,   *)
(* or the statistics graph and the energy dashboard keep showing the       *)
(* outlier the history graph no longer has": whenever data is committed,   *)
(* the statistics are those of the readings in the states table (purged    *)
(* rows and rows others rewrote aside).                                    *)
(***************************************************************************)
StatisticsFollowStates ==
  \A e \in Tracked : \A r \in RowsOf(e) \ foreign :
    db.states[r] # Absent => db.stats[e][r] = db.states[r]

(***************************************************************************)
(* hr_models.BulkPreview: rows already corrected are skipped.  A bulk      *)
(* correction commits nothing over a correction that is still active.      *)
(***************************************************************************)
BulkSkipsCorrected ==
  [][\A c \in Clients : Commit(c) /\ req[c].kind = "bulk" =>
       \A i \in DOMAIN w[c].audit, j \in Ids :
         Active(db, j) => db.audit[j].row # w[c].audit[i].row]_vars

(***************************************************************************)
(* ARCHITECTURE.md, "Lock contention": "the user is invited to retry       *)
(* rather than the request hanging".  Every request comes to an end, also  *)
(* when transactions wait for each other's locks.                          *)
(***************************************************************************)
EveryRequestAnswered ==
  \A c \in Clients : pc[c] # "idle" ~> pc[c] = "idle"

=============================================================================
