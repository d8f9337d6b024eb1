# Verification of the history-repair add-on

The add-on lets a Home Assistant user correct an outlier in a sensor's history, and take the
correction back. It writes to the recorder's own database: one `states` row, the statistics rows
that summarise it, and an audit row of its own, in one transaction. What can go wrong is seldom in
one line. It is in two web threads correcting neighbouring readings, in the recorder purging,
compiling or rewriting rows between two clicks, and in sequences of corrections and restores that
the page never offers but the API accepts. Around the transaction there is more of it: the refresh of
Home Assistant's memory that follows a commit, the page that still shows what was true a moment ago,
and the thread that announces what needs review.

This directory holds TLA+ modules for those parts, the TLC configurations that check them on small
instances, and proofs, checked by TLAPS, of the results that matter most for every instance.

    tlc -workers 2 -config ledger.cfg MCLedger     # one run; the table below names the others
    tlapm CorrectionTxn_proofs.tla                 # one module's proofs

Paths are relative to the repository. `app/hr_X.py` appears as `hr_X`, and "the adapter" is
`hr_mariadb`, `hr_postgres` or `hr_sqlite`.

## 1. The system

| Part | State it keeps | Operations | Hard behaviour | What makes it correct |
|---|---|---|---|---|
| Database adapters, write side (`hr_mariadb`, `hr_postgres`, `hr_sqlite`; contract `hr_db`) | `states`, `statistics_short_term`, `statistics`, `state_corrections`; a transaction's locks and uncommitted writes | `apply_correction`, `apply_bulk_correction`, `restore_correction`, `dismiss_correction` | concurrent transactions, lock waits and timeouts, lost connections, the recorder and restored backups as other writers | the audit table accounts for every value; nothing half done is ever committed; nothing is restored over a foreign value |
| Statistics arithmetic (`hr_statistics`, and each adapter's `_recompute_*`, `_cascade_*`, `_restore_statistics`) | none; the two statistics tables | rebuild of a measurement's two buckets and hours; cascade of a counter's totals; undo of both | purged rows, rows that were never compiled, carried readings, meter resets, several corrections in one bucket | rows are what the recorder would have compiled from the readings as they now are |
| Adapter read side | none | `list_entities`, `fetch_states`, `list_corrections`, `find_orphaned_corrections`, `check_health`, previews | reads between two statements of somebody's transaction (SQLite) | what is listed was committed |
| Correction service (`hr_corrections`) | none | `apply`, `apply_bulk`, `refresh_statistics_cache` | the refresh runs after the commit and may fail alone; the row it hands over may be overtaken, and is not the whole row | a correction never fails because the refresh did; the refresh never undoes a later write |
| Home Assistant client (`hr_ha_api`) | none; Home Assistant's in-memory statistics | `recorder/import_statistics` | asynchronous, outside the transaction; silence, chatter, refusals, restarts | the cache ends on the last committed row; no thread waits for ever |
| Web routes (`hr_web`) | none | one route per operation | threads, one request each | an exception becomes one of the documented answers |
| Outlier detection (`hr_outliers`) | none | scores over floats | none | suggestions only |
| Entity page (`static/entity.js`) | loaded points, window, overlay, selected point, acknowledgement, which buttons are enabled | select, load, page, slide, save, restore, fill a range | stale panels, answers out of order, a load read in two statements, other pages | a correction is of the point shown and acknowledged; no correction is stacked on another |
| Corrections, entity list and onboarding pages | a list and a page number | one request per button | none | |
| MQTT publisher (`hr_mqtt`) | a retained state message and a retained availability | poll loop | stale between polls, failed polls, lost publishes, reconnections | it comes to say whether a correction needs review |
| Add-on state (`hr_state`) | one JSON file | set `onboarding_complete` | crash while writing | replaced atomically, under a lock |
| Startup, discovery, configuration (`history_repair`, `hr_discovery`, `hr_config`) | none | run once | none | |

Interaction: the page calls a route, the route the service, the service the adapter, each on the web
server's thread for that request. Threads share nothing but the database; MariaDB and PostgreSQL get
a connection per operation, SQLite one connection for all threads. After the commit the route asks
the service to refresh Home Assistant's statistics cache over its WebSocket API. The recorder, a
separate process, writes and purges the same tables; a restored backup rewrites them. The publisher
polls the adapter's orphan check on a thread of its own.

`PROJECT.json` lists the components with their status, and the hazards line by line.

## 2. The modules

    Tables             rows by their key; extended by AdapterRequests and RecordedSensor
          ^ extends
    AdapterRequests    rows, requests, and the reads with which a request is decided
          ^ extends                         ^ extends
    CorrectionTxn                        SqliteCorrections
    the MariaDB and PostgreSQL           the SQLite transactions
    transactions                         on one shared connection
          | implements                      | implements
          v                                 v
    CorrectionLedger   what an adapter promises: every write transaction one atomic step
          ^ extends, implements             ^ extends
    EntityPage                           NeedsReview
    the page of one entity               the publisher thread, and the
    and its requests                     add-on and broker it depends on

    StatisticsCache    the commit, what follows it in the route, and Home Assistant

    Statistics         hr_statistics: means, resets, running totals (no state)
          ^ extends
    RecordedSensor     one sensor in the recorder's tables: reporting, purging
          ^ extends                         ^ extends
    MeasurementStats                     CounterStats
                       what a correction and a restore do to the statistics tables

The modules `MC...` (`MCLedger`, `MCTxn`, `MCSqlite`, `MCMeasurement`, `MCCounter`, `MCCache`,
`MCReview`, `MCPage`) hold the values TLC needs; the modules `..._proofs` the theorems. In the modules, a definition whose
comment begins with "Mutant" is a plausible bug in the definition that follows it. No specification
uses it; substituting it is how each property is shown to depend on the code.

### CorrectionLedger

| Variable | Code |
|---|---|
| `states` | `states.state` by `state_id`; `Absent` for a purged row |
| `audit` | `state_corrections` by id: the row, original and corrected value, `restored_at` and `dismissed_at` as Booleans |
| `recorded`, `foreign` | history: what the recorder wrote, and which rows another program has rewritten since |

`Correct(D, at, new)` is one correction or a whole bulk correction; `Restore` and `Dismiss` are the
adapter's methods with their refusals; `Purge` and `Overwrite` the recorder and everybody else. The
ids of a bulk correction are any unused ones, as a rolled-back transaction leaves gaps in an
AUTO_INCREMENT.

### AdapterRequests

The three adapters decide alike what a request comes to: which rows of a range are already corrected
(`BulkTargets`), when a range is refused (`BulkRefused`), whether the row still is what the caller
was told (`RowAccepted`), and what the audit row says (`NewEntry`). These operators take the tables
as an argument, because the adapters differ in which tables a statement sees: the last committed
ones, a snapshot, or another thread's half-done work.

### CorrectionTxn

One step for every statement that can wait for a lock, read shared data, or make data visible. `pc`
is where a thread's request is:

| `pc` | Action | Code (`hr_mariadb`; `hr_postgres` has the same shape) |
|---|---|---|
| `idle` | `Submit` | the route and the service, up to the adapter |
| `bulk` | `BulkRead` | `_bulk_target_rows`, the limit, `_interpolation_anchors` |
| `lock` | `LockRow` | the `SELECT ... FOR UPDATE` of `_apply_one_correction` |
| `correct` | `CorrectRow` | its checks, the audit `INSERT`, the states `UPDATE` |
| `read` | `ReadBucket` | the plain reads of a statistics recomputation |
| `write` | `WriteBucket` | its `UPDATE`, and the audit row's `orig_*` columns |
| `audit` | `LockAudit` | `restore_correction` and `dismiss_correction`: `FOR UPDATE` on the audit row |
| `undo` | `UndoRow` | the rest of `restore_correction` |
| `commit` | `Commit` | the end of `_transaction` |

`LockTimeout` and `ConnectionLost` can end a transaction at any wait and at any point. Two flags
tell the servers apart. `MetaLock`: MariaDB's bare `FOR UPDATE` over a join locks the joined
`states_meta` row as well, PostgreSQL's `FOR UPDATE OF s` does not. `SnapshotReads`: InnoDB's plain
reads see the snapshot of the transaction's first plain read, PostgreSQL's the last committed data.
A statistics row is modelled as the set of readings it was built from: that is what tells a stale
rebuild from a right one, and the arithmetic has modules of its own.

Three actions stand for several statements. `BulkRead` is the plain reads of a bulk correction, and
`ReadBucket` those of one statistics table: on MariaDB they share a snapshot; on PostgreSQL a commit
between two of them is a mixture the model does not have, beside those it has, of a bucket read before
another transaction's commit and written after it. `WriteBucket` is all the `UPDATE`s of a
recomputation: the 5-minute and hourly rows that readings have in common are one row here.

MariaDB's deadlock detector, its lock wait timeout and PostgreSQL's `lock_timeout` are one action:
all three end in a rollback and `LockTimeout`.

### SqliteCorrections

All threads share one connection, so there is one `txn` for all of them, and two versions of the
tables: `db`, what is committed, and `work`, what every statement on the connection sees.

| `pc` | Action | Code (`hr_sqlite`) |
|---|---|---|
| `idle` | `Submit` | the route and the service, up to the adapter |
| `begin` | `Begin` | `BEGIN IMMEDIATE` in `_transaction` |
| `begin` | `BeginRefused` | the same inside another thread's transaction: not a lock error, so it is raised to the caller |
| `begin` | `GiveUp` | the deadline of the back-off loop: `LockTimeout` |
| `bulk` | `BulkRead` | `_bulk_target_rows`, the limit, `_interpolation_anchors` |
| `insert`, `update` | `Insert`, `Update` | `_apply_one_correction`: its checks and audit `INSERT`, its states `UPDATE` |
| `undo`, `stamp` | `Undo`, `Stamp` | `restore_correction`: the states `UPDATE`, then `restored_at` |
| `dismiss` | `Dismiss` | `dismiss_correction` |
| `commit` | `Commit` | `COMMIT` |
| any in a transaction | `Fail` | a failing statement, or `COMMIT` finding the file locked |

`Stop` is the add-on being stopped or killed between any two statements; the journal undoes what was
not committed. `Purge` and `Overwrite` are other processes: SQLite's write lock admits them only
while no transaction is open. `Orphans(work)` is what `find_orphaned_corrections` answers at any
time, on any thread.

### Statistics, RecordedSensor, MeasurementStats, CounterStats

Time is counted in small units; a 5-minute bucket is `Width` of them, an hour `Hour`. A mean is an
integer, `Scale` times the real one, with `Scale` divisible by every denominator that can occur, so
it is exact. `Report`, `Compile`, `Miss` and `Purge` are the recorder, modelled from what the add-on
relies on (`hr_statistics` states the rules it reimplements); `Correct` and `Restore` are the
adapter's methods with everything they do to the two statistics tables. The three adapters have the
same algorithm here; the lines mapped are mostly those of `hr_sqlite`. Transactions are atomic in
these modules. They are on SQLite, which locks the whole file; `CorrectionTxn` shows where else they
may be taken to be, and where not (sections 3 and 4).

### StatisticsCache

One request per web thread, from the route to its answer, and Home Assistant at the other end of the
socket. The transaction is one step here. Of an hourly row that is whole only its age matters, so its
content is the number of the commit that wrote it: "older" and "newer" are then comparisons of numbers.
A row may also be `Blank`, with NULL in every column: `_refresh_hour` hands over `start_ts`, `mean`,
`min` and `max`, and `import_statistics` leaves out what is None, so that nothing of a counter's row
(`hasSum`), which is `state` and `sum`, is in the command (`HandedOver`). An import writes the whole
row: that is what the module assumes of Home Assistant, besides that it happens later.

| `pc` | Action | Code |
|---|---|---|
| `idle` | `Submit` | `hr_web.api_create_correction`, `api_bulk_correction`, `api_restore_correction` |
| `commit` | `Commit`, `Refused` | the adapter's transaction; the error handlers |
| `collect` | `Collect` | `refresh_statistics_cache`, `refresh_statistics_cache_bulk`: which hours, with the cap |
| `fetch` | `Fetch`, `Finish` | `_refresh_hour`: the hourly row is read back; the route's answer |
| `connect`, `handshake` | `Connect`, `Authenticate`, `HandshakeRaises` | `HomeAssistantClient._connect`, `_authenticate` |
| `send`, `await` | `Send`, `Receive`, `DeadlinePasses`, `ApiError` | `import_statistics`, `_send` |
| `collect`, `fetch` | `ReadFails` | an adapter exception on the way |

`ApiError` stands for every failure that becomes a `HomeAssistantApiError`, `HandshakeRaises` for
those of the handshake that do not. Home Assistant is external: `Accept`, `Reject` and `Event` are
what it may send, `Import` performs the oldest queued import in table and memory
(`tests/test_ha_api_live.py` shows that it writes the row, later), `Restart` loses its queue.
`overtaken` is a history variable: the hours committed while an older row of theirs was on its way.

### NeedsReview

The ledger with the thread of `run_publisher_loop` beside it.

| Variable | Code |
|---|---|
| `pub` | where the thread is: `off` (no add-on runs), `connect`, `query`, `publish`, `sleep`, `gone` (it returned, or found no broker) |
| `read` | what `get_needs_review` last answered |
| `linked` | is paho's connection up |
| `shown`, `available` | the two retained messages at the broker |

`Publish` on a connection that is down changes nothing and raises nothing (paho's `publish` returns a
code nobody looks at). `QueryFails` is the `except Exception` of the loop. `StopAddon` ends the
thread anywhere: it is a daemon, and nothing ever sets its stop event. A correction, a restore or a
dismissal needs the add-on to run (`LedgerStep`); the recorder and a restored backup do not.

### EntityPage

JavaScript runs a handler to its first `await` without interruption, so each handler is two actions:
up to the request, and from its answer, with everything else in between. The server is the ledger:
each POST is one of its steps, or refused.

| Variables | Code (`static/entity.js`) |
|---|---|
| `view`, `overlay` | `points` and `chartLoading` |
| `selected`, `ack`, `saveEnabled`, `undoEnabled` | `selected` and the panel's fields; `selected` is `Nobody` while the panel is hidden |
| `loads`, `saves`, `undo` | requests in flight, with what the server has come to in each |
| `forms`, `bulks` | what other pages show, and the ranges bulk corrections have read |
| `ackFor`, `exposed` | history: what was acknowledged; which readings a torn read or a bulk correction laid open |

`IsCounter` is the constant the page is rendered with. `Reload`/`LoadEnds` are `load`, `Select` is
`select` with `syncCascadeGate`, `Submit` and `SaveAnswered` the submit handler, `ClickRestore` and
`RestoreAnswered` the other one. `Submit` does not look at `saveEnabled`: the comment at
`entity.js:426` says why a disabled button is no guarantee.

On the server, `ReadStates` and `ReadCorrections` are the two statements of `fetch_states`, between
which anybody may commit. `ServerSaves` and `ServerRestores` are refused or commit, and what commits
may still be answered with an error (`cache_answer` shows how). The other users run the same code:
`OtherReads`, `OtherShows`, `OtherSaves` are a page that reads a reading in the same two statements,
offers it for correction unless it is marked, and saves it any time later, perhaps again after being
told of a failure; `OtherRestores` is a restore from any page; `BulkReads` and `BulkWrites` are a
bulk correction, anybody's, which leaves out what is corrected when it reads its range and looks at
no value when it writes it.

## 3. The runs

Every property has at least one mutant in `PROJECT.json` which makes TLC report that property under
the same configuration.

| Run | States | Shows |
|---|---|---|
| `ledger` | 602,766 | The audit table accounts for the states table, in every order of every operation |
| `txn_postgres` | 343,482 | PostgreSQL: transactions of two threads, with restores, dismissals, failures and outside writes, implement the ledger; writes are locked; statistics follow readings that share no bucket |
| `txn_mariadb` | 195,584 | MariaDB: a range filled while one of its readings is repaired implements the ledger, and every request ends, though transactions wait for each other in circles |
| `sqlite` | 1,869,714 | SQLite: the shared connection implements the ledger; corrections are of what was seen; bulk corrections skip corrected rows |
| `measurement` | 2,249,739 | Rebuilt 5-minute and hourly rows of a measurement are the recorder's |
| `counter` | 1,537,469 | Rebuilt totals of a counter are the recorder's, hourly rows copies of the 5-minute ones |
| `cache` | 458,882 | Around the commit, for measurements and counters: a row of the hourly table is the newest or, a counter's, emptied; Home Assistant comes to render a measurement's rows; every request is answered |
| `review` | 151,800 | The needs-review entity comes to say what is true |
| `page` | 4,379,894 | The page of a counter among other users: corrections are sent as acknowledged, and never stacked on a correction, except where a torn read or a bulk correction laid the reading open |
| `txn_postgres_skew` | violated | PostgreSQL: two corrections of one bucket at once leave one outlier in the statistics |
| `cache_counter` | violated | The refresh after a counter's correction empties the row it was to refresh |
| `cache_answer` | violated | A committed correction is answered with an error because the refresh failed |

### Bounds

- **`ledger`**: two rows, two values, three audit ids. Three corrections are enough for a row to be
  corrected twice and restored out of order while the other row takes part in a bulk correction; a
  third value adds states, and no new relation between `orig`, `corrected` and the current value
  that two equal or different values do not have already. The theorems lift all three bounds.
- **`txn_*`**: two threads, as every conflict is between two. `MaxId` bounds how many corrections a
  behaviour holds; `RoomFor` keeps a request from being accepted that would run out of ids in the
  middle. `MaxBulkRows` is 2. Threads and values are symmetric where no liveness is checked. The
  runs divide the requests between them. `txn_postgres` has a counter and a measurement, one reading
  of each, and single corrections, restores and dismissals. `txn_mariadb` has two readings of one
  bucket, bulk corrections of both and corrections of the second, all to the same number: whether
  requests end, and whether a range is committed whole, does not depend on which.
  `txn_postgres_skew` has two readings of one bucket and single corrections. The same requests leave
  MariaDB's statistics right: with `MetaLock = TRUE` and `SnapshotReads = TRUE`, which is all that
  tells the servers apart, that configuration passes with 612,768 states, and section 5 has the
  theorem.
- **`sqlite`**: two rows, two values, two ids, symmetric in threads and values. Two ids are enough
  for a correction of a corrected row, a bulk correction beside one, and restores in either order.
  The theorems lift all of these bounds. An interpolation needs a third reading, with which the run
  takes too long; the same configuration with `Rows = {1, 2, 3}`, `Numeric = {v1}`, no symmetry of
  values and `Requests <- Interpolations` passes with 2,397,066 states.
- **`measurement`**: four buckets of two instants, two hours of two buckets, two corrections, all
  cuts of a purge. At most instants the sensor reports or does not (`MCMeasurement!Day`), so that
  readings fall on the start of a bucket and of an hour, inside one, are carried in, and leave
  buckets half or wholly silent; the last bucket of the first hour is where a correction reaches
  into the next.
- **`counter`**: the same grid; the meter rises, stands still, dips by exactly a tenth (20 to 18, no
  reset) and once more within the bucket (18 to 17, no reset either, though 20 to 17 is one), restarts
  (20 to 1), is unavailable, and the recorder may have no row for the third bucket.
  Purges cut at and beside bucket and hour boundaries.

- **`cache`**: two threads, two hours, two requests, a cap of one hour for a bulk correction, so that
  one over the cap occurs. A race over a row has two parties, and the second hour is there for a
  request that hands over two rows and for a counter's correction that touches an hour it does not
  hand over. Whether the sensor is a counter is chosen in the initial state. `cache_answer` and
  `cache_counter` need one request. The theorems lift all bounds.
- **`review`**: one row, two values, two corrections: the orphan check comes out true and false, and
  changes in either direction while the add-on runs, stops and starts any number of times.
- **`page`**: two readings, so that the panel can move on to another one while a save is in flight;
  one load, one save and one restore in flight, and one other form or bulk correction at a time. One
  of the readings is corrected, up to three times, which is what it takes to lose an original: a
  correction to be restored under a read, one back to the value read, and one stacked on it. The other
  users leave the second reading alone, and the page's corrections of it are refused (`Bounds` in
  `MCPage`); it is there to be selected. The page of a measurement is the same without the tick, and
  is not run. The theorems lift these bounds and are for both kinds of page.

The runs of the ledger, the transactions and the statistics say `CHECK_DEADLOCK FALSE`: purges, ids
and time run out, and those models then stop. A transaction that waits for ever is what
`EveryRequestAnswered` looks for. In the other runs somebody can always do something (Home Assistant
restart, the publisher wake, the user click), and deadlock is checked.

### Fairness

- **`txn_mariadb`**: weak fairness of `Proceed(c)` for each thread, that is, of the statement its
  request is at or, when that has to wait, of the timeout of the wait. A thread is run by the
  operating system, and the servers are told to end a wait after `lock_wait_timeout`
  (`hr_mariadb:183`, and the `SET lock_timeout` of `hr_postgres`). Nothing is assumed about which
  thread a lock is granted to, about users, the recorder, or connections being lost.
- **`cache`**: weak fairness of `Serve(t)` and of `DeadlinePasses(t)`: a web thread is run, a socket
  gives up after `CONNECT_TIMEOUT` (that is `ApiError`, which is always possible while there is
  nothing to receive), and the clock reaches the deadline of `_send`. Nothing is assumed of Home
  Assistant, which may stay silent or send events for ever.
- **`review`**: weak fairness of `Publish` and `Wake`, the loop's next statement and the end of its
  wait; strong fairness of `Query`, as a query may fail any number of times and is asked again after
  each: a database that is asked for ever answers now and then. Nothing is assumed of the broker; the
  property speaks of connections that come to stay up.

## 4. What the checks found

**Two corrections of one bucket on PostgreSQL** (`txn_postgres_skew`). Each locks its own `states`
row and nothing in common, reads the other's old value, and rebuilds the bucket from it; the second
`UPDATE` waits for the first transaction and then overwrites its row. Both commit; the bucket keeps
one of the two outliers. On MariaDB the join of the locking read makes the second correction wait
for the first. The comment in `hr_postgres` gives the reason for narrowing the lock; the statistics
lose by it.

**What the lock does not cover on MariaDB.** That the statistics follow the readings on MariaDB
(`BucketsAreRebuiltOneAtATime`, section 5) must not be read as more than the theorem says. Outside its
hypothesis, `StatisticsFollowStates` fails there, too:

- a bulk correction. Its first plain read, of its range, fixes InnoDB's snapshot before it waits for
  any lock, and the bucket is then rebuilt from that snapshot. Whatever it does not write itself, a
  reading of the bucket beside the range, or one in the range that it skips as corrected already, may
  be corrected in the meantime, and the rebuilt row does not have it. With `INVARIANT
  StatisticsFollowStates`, `Numeric = {v1, v2}` and `SPECIFICATION Spec` in `txn_mariadb.cfg` TLC shows
  it, although the range there covers the bucket; with one number to write, the reading the snapshot
  has and the one it misses look alike. On PostgreSQL, where plain reads are not snapshots,
  the theorem covers bulk corrections of readings that share no bucket;
- a restore and a correction of one bucket, as `restore_correction` locks its own `states` row and
  not `states_meta`;
- two corrections of one measurement bucket restored out of order, even one after the other: each
  restore writes back the values its own correction found.

**A failed refresh fails the correction** (`cache_answer`). The route refreshes the cache after the
commit, and says that a failure of the refresh is not the correction's. Two failures are: an adapter
exception from reading the metadata or the row back, which nothing between there and the error
handlers catches, and whatever `_authenticate` meets in `recv()` (a timeout, a closed socket), which
`_connect` raises again as it is, while `_refresh_hour` catches only `HomeAssistantApiError`. `_send`
has a comment on exactly this and wraps what it meets. The user is told that the correction failed,
and finds it in the list.

**A counter's row emptied by its refresh** (`cache_counter`). `_refresh_hour` (`hr_corrections:213`)
copies `start_ts`, `mean`, `min` and `max` of the hourly row into the command, for a counter, too,
whose row is `state` and `sum`; `import_statistics` (`hr_ha_api:224`) leaves out what is None. So
`{start}` is sent, with `has_sum` true; `tests/test_corrections.py:458` pins the payload. An import
writes the whole row: once Home Assistant has performed it, the row of the corrected reading has
neither state nor sum, in the table and in memory, where the docstring at `hr_corrections:237` has the
database correct already and the memory about to be. A later cascade that
reaches the hour puts the table right (a restore's, or that of a correction in an earlier hour; one in
the same hour empties the row again), if 5-minute rows of the hour are still there; without them the
cascade has no meter reading to go by, and one that picks up its total at the emptied row starts from
zero (`else 0.0` in the adapters' `_recompute_counter_statistics`). `DatabaseKeepsNewest` therefore
says of a counter's row that it is the newest or empty, and `RefreshedIsRendered` speaks of
measurements only. `CounterStats` has the cascade alone, without what is imported over it.

The rest of this section has no run of its own. Where a paragraph names a property and a
configuration, the property is in the module, and TLC finds it violated when it is added there; the
others describe what the code was seen to do.

**An original lost** (`OriginalIsNeverLost` in `page.cfg`). The page refuses to correct a corrected
reading, because that "would otherwise record the previous correction as the original value and lose
the real one" (`entity.js:387`). Two things get past it:

- a torn read. `fetch_states` reads the values in one statement and the corrections in another, on
  PostgreSQL and SQLite of two moments. A reading corrected from x to y and restored in between is
  answered as y and uncorrected. A save of that panel is refused while the reading is x; but when
  somebody corrects it to y again, the save expects just that, is accepted, and records y as the
  original. MariaDB's two statements share a snapshot;
- a bulk correction, on MariaDB and PostgreSQL (the next paragraph), whichever page sent it.

`OriginalIsKept` is the same property without the readings this can happen to (`exposed`): that
nothing else on the page, no stale panel, no save sent twice, no answer that is wrong about a commit,
loses an original is the theorem `OriginalsAreKept`.

**A row overtaken on its way.** `DatabaseKeepsNewest` and `RefreshedIsRendered` except the hours in
`overtaken`, and must: a correction that hands its row to Home Assistant, and is restored before Home
Assistant performs the import, ends with the corrected row written over the restored one, in the
table and in memory. `restore_correction` refreshes nothing, so nothing puts it right until the next
correction in that hour. Two corrections of one hour race in the same way. Nor is a second hour
refreshed, when the corrected reading is carried over the hour.

**A bulk correction over a fresh correction** (`BulkSkipsCorrected` in `txn_mariadb.cfg`). The rows to
skip are read before anything is locked, and `_apply_one_correction` is called with nothing to
compare the row with. DOCS.md:151 says that they "will be left alone". On SQLite they are (run
`sqlite`).

**An orphan that is none** (`OrphansAreCommitted` in `sqlite.cfg`). `find_orphaned_corrections` is a
plain `SELECT` on the connection that all threads share. Between another thread's audit `INSERT` and
its states `UPDATE` the new correction looks orphaned; the corrections page's banner offers to
dismiss it, and a correction dismissed is never reported again. The same sharing makes a second
thread's `BEGIN` fail with "cannot start a transaction within a transaction", which is not a lock
error: it is not retried, and the user is told of an internal error and not of a busy database.
`sqlite` shows that no data is harmed by it.

**Restoring a measurement** (`UndoneStatisticsDescribeReadings` in `measurement.cfg`). A correction
rebuilds two buckets, and perhaps two hours, and records the old values of the first of each.
`RestoredRowDescribesReadings` says exactly how much comes back: the reading's own bucket, if the
correction was made after the bucket was compiled and no other correction touched it.

**Restoring a counter** (`UndoneTotalsAreIdentical` in `counter.cfg`). The cascade picks up the total
in the one bucket before and starts at zero without one; and it gives the corrected bucket's reading
to the first row at or after the bucket. Where the recorder has no row for a bucket, a correction in
or after the gap rewrites totals that the restore, which recomputes the same way, does not bring
back. DOCS.md:268 says "The result is identical to what was there before."

**A silent bucket after a corrected one** (`MeterReadingsAreTrue` in `counter.cfg`). Only the bucket
of the corrected reading gets a new meter reading. A bucket the meter was silent in ended on the
reading carried into it; it keeps the outlier, and the totals climb to it and come back as a reset.

**A scope that comes late.** `select` shows the scope of a cascade when its request is answered
(`entity.js:404`), whatever reading the panel shows by then, and Save waits for the tick and not for
the scope. DOCS.md:260 says "Before you save, the panel shows the scope", and the comment at
`entity.js:430` asks for it to be "seen and acknowledged": `SentAsAcknowledged` has the second half.

**Loads that overlap.** The slider's reload (`entity.js:495`) and the one after a save do not wait for
the range controls. Of two loads the answer that comes last is drawn, under the caption of the one
that began last.

**Available no more** (`PublisherIsAvailable` in `review.cfg`). After a broken connection the broker
has published the last will. paho connects again, the states are published again, but not "online":
the entity stays unavailable until the add-on is restarted. A broker that cannot be reached at
startup is never tried again.

### What the statistics miss

The properties of passing runs name what they leave out, so that nobody takes them for more:

- `CarryKnown` (measurements): a reading carried across a wholly silent bucket also reaches the
  bucket after that, which no correction rebuilds; and once the carried reading is purged, nothing
  in the tables tells what the row was built from.
- `Steady` (counters): a reset in the middle of a bucket is in the recorder's total, but not in the
  reading the row ends on, which is all a cascade goes by. And the other way round: readings that fall
  twice within a bucket by less than a tenth each (20, 18, 17) are no reset to the recorder, which
  compares neighbours, but their last is one against the row before (17 < 0.9 * 20), so that a cascade
  adds the whole meter reading to every later total.
- `audit[i].short # NoReading`: a reading corrected before its bucket is compiled has no row to
  record, and its restore later writes NULLs over the row the recorder compiled.
- `WholeHour`: an hour whose 5-minute rows are partly purged is summarised again from those left.
- A purge that does not cut at a bucket boundary can leave readings in a bucket whose row is gone; a
  counter correction there gives its reading to the next row.

## 5. What is proved

For every set of threads, rows, entities, values and requests, every bound, and all three adapters.
The only assumptions are the `ASSUME`s of the modules, which say what kind of thing each constant is
(that `Null` is not a number, that `Scale` is a number divisible by whatever a mean is divided by), and
the hypotheses of three theorems, named below. Every safety property that a run checks is a theorem.

`CorrectionLedger_proofs`

- `TypeCorrect`, `AuditTrailIsHistory`: directly, one step per action.
- `BalanceHolds`: `[]Balance`. `EveryChangeOnRecord` and `UndoneIsOriginal` are not inductive.
  Corrections of a row stack up and are restored in any order their refusals allow, so "the newest
  active correction wrote the value" is false: correct x to y, y to x, x to y, and the first may be
  restored before the third. What is inductive is a count. Seen as a graph on values, an active
  correction is an edge from the original to the corrected value; every value is entered as often as
  it is left, counting the recorder's value as an entry and the current one as an exit. A correction
  adds an edge from the end of that path, and a restore removes one that leads to its end.
- `ChangesAreRecorded`, `UndoingRestoresOriginals`, `OrphansAreExplained` follow from `Balance` by
  counting.

`CorrectionTxn_proofs`

- `TypeCorrect`, `WritesStayLocked`.
- `TransactionsImplementLedger`: `Spec => Ledger!Spec`. The invariant is `TypeOK`, that writes are
  locked by their writer (`WritesAreLocked`), that fresh audit ids are fresh (`FreshIds`), and, per
  thread, `Progress` (where its request is and what it holds there) and `Uncommitted`: what its
  uncommitted writes say about the committed tables (a restore's: the row still holds the corrected
  value; a correction's: the audit row's original is what the row still holds). `StepKeeps` reduces
  its preservation to one lemma per action; `OthersKeep` says that a step of another thread disturbs
  none of it. `Commit` is then a step of the ledger, a purge or outside write is its own, and every
  other step changes neither table.
- `BucketsAreRebuiltOneAtATime`: `[]StatisticsFollowStates`, under the hypothesis `OneAtATime`: plain
  reads are not snapshots or there are no bulk corrections; and readings share no bucket, or the
  locking read takes `states_meta` and nothing is restored. MariaDB with corrections and dismissals is
  one instance, PostgreSQL with every request and readings that share no bucket another
  (run `txn_postgres`); section 4 has what goes wrong outside it. The invariant, over the one before: what a transaction has written belongs to one bucket
  (`OneBucket`), which no other transaction has written to (`BucketIsExclusive`: by the lock on
  `states_meta`, or because the one reading is locked); it reads the bucket after that, from what is
  committed (`ReadsLate`); so the row it rebuilds has the readings as they will be at its commit
  (`BucketFollows`). For restores, the audit row comes to hold what the bucket said of the reading's
  original (`OriginalKept`, `OriginalsKept`).

`SqliteCorrections_proofs`

- `TypeCorrect`, and `SharedConnectionImplementsLedger`: `Spec => Ledger!Spec`. Without a
  transaction, `work` equals `db`; within one, only the thread that opened it is past `begin` and
  before the end of its request, and `Progress` says by its `pc` how `work` differs from `db`: by a
  correction of some rows (`CorrectedSoFar`), by a restored original (`Undone`), or by an
  acknowledgement (`Dismissed`). `Commit` publishes one of these three, which are the three steps of
  the ledger.
- `WhatWasSeenIsCorrected`, `CorrectedRowsAreSkipped`: by a second invariant, `Checks`, over the
  first: a row that has been written held what its user saw, and the rows of a bulk correction have
  no active correction in `db`. It is inductive because nobody else writes while the transaction is
  open, which is what fails on the other two servers (section 4).

`StatisticsCache_proofs`

- `TypeCorrect`.
- `DatabaseIsKept`: `[]DatabaseKeepsNewest`. What is inductive is that every row of a measurement on
  its way, in a thread's hands, in a command or in the queue, is the newest of its hour, unless that
  hour is in `overtaken`; the table and all rows on their way then say the same, and the order in which
  they arrive does not matter. Of a counter, every row on its way is empty, so that the table's is the
  newest or empty whatever arrives.
- `RefreshIsRendered`: `[]RefreshedIsRendered`. For an hour of a measurement that was accepted, either
  its import is still queued or the memory holds what it carried.

`EntityPage_proofs`

- `PageTypeCorrect`, and `PageImplementsLedger`: `PageSpec => Spec` of the ledger, for any number of
  readings, loads, saves, other pages and bulk corrections. The theorems of `CorrectionLedger_proofs`
  therefore hold of the page.
- `SendsWhatWasAcknowledged`: `PageSpec => SentAsAcknowledged`. The invariant: a tick in the panel of
  a counter is for the reading shown.
- `OriginalsAreKept`: `[]OriginalIsKept`. A save carries the value its user saw, and what a page offers
  for correction was read before it was found to be without an active correction. The invariant
  (`OriginalInv`) says that a reading which is neither `exposed` nor corrected holds what the recorder
  wrote, and that every value on its way to a save (in an answer, a graph, the panel, another page's
  form, a save) is the recorder's for such a reading; so the server's comparison accepts a save of it
  only while it holds the recorder's value. A torn read is what breaks the second half, a bulk
  correction the first, and both put the reading into `exposed`.

`MeasurementStats_proofs`

- `HoursAreSummarised`: `[]HourlySummarises`, for any widths, with `Hour` a multiple of `Width`. Three
  facts about the grid of times carry it: an hour has its row only when all its buckets are compiled,
  so a newly compiled bucket lies in no hour that has one; a bucket that starts within an hour belongs
  to it, so a correction summarises every hour it rewrites a bucket of; and a restore writes to the
  hour of its own bucket only, which is one it touched.
- `RowsDescribeReadings`: `[]RebuiltRowsDescribeReadings`, inductive together with the invariant of
  `HoursAreSummarised`. A bucket is rebuilt from its own readings and those of the bucket before it,
  provided the reading carried in is at most one bucket old (`Alike`, `AlikeBuckets`). A change to a
  reading therefore leaves the rebuild of every bucket but its own and the next alone: which is why
  `CarryKnown` is in the property, and where a correction that has to reach further goes wrong. A purge
  takes nothing from a row whose carried reading it leaves.
- `MeasurementTypes`: a row is compiled from readings, summarised from such rows, or NULL throughout
  (`GoodRow`), and stands for a bucket or an hour the recorder has been at.
- `MeanIsAsDocumented`: `[]MeanIsByTheUnit`. `time_weighted_mean` adds up readings times the time each
  lasted (`Lasted`); its docstring speaks of the value at every moment (`UnitsBy`). That the two sums
  agree is shown moment by moment, by induction on the end of the window: each further unit is one of
  the reading that is the last by then.
- `RestoresPutRowsBack`: `[]RestoredRowDescribesReadings`. The property speaks of restored corrections;
  what is inductive (`BackInv`) speaks of all. Take the readings with correction `i` taken back
  (`Undone(i)`), and the row its restore leaves, or would leave now (`UndoneRow`, `UndoneHour`): when
  `i` alone has touched the bucket, the row is the one the recorder compiles from those readings, and
  likewise for the hour. A correction elsewhere changes neither side; one of the same bucket ends the
  promise to both.

`CounterStats_proofs`

- `HourlyRowsAreCopies`: `[]HourlyCopiesShort`. The cascade rewrites 5-minute rows from the corrected
  bucket on, and hourly rows from the hour of that bucket on; no 5-minute row of an earlier hour is
  among them. A purge takes rows from the front, so that an hour that keeps a row keeps its last.
- `CounterTypes`: a cascade writes no row that was not there, and carries a number from row to row
  wherever it starts.
- `CounterNeighbours`: `[]NeighboursFollowReadings`, under the hypothesis `Readings \subseteq Nat`. The
  invariant (`ChainInv`) is a promise per row: one that follows another ends on the last reading of its
  bucket, and its total is the one before it plus the increase from the meter reading before it, when
  that is the reading carried in. A cascade keeps the promise of the rows it rewrites, as it continues
  the total from row to row, picks it up at the row before the first, and gives the first the last
  reading of its bucket; and of the rows before those, as nothing they rest on is changed. The hypothesis is needed: a reading below zero is less than nine
  tenths of itself, and `_is_reset` then sees a reset in a meter that stands still. It is narrower than
  the code: `validate_new_value` lets a negative value through.
- `CounterTotals`: `[]TotalsAreTheRecorders`, under the same hypothesis. From `ChainInv`, by the first
  row that is not what the recorder would have made of the readings: the one before it is, and so then
  is this one, as the recorder's total over the readings of both is that over the first, continued.

`Tables_proofs` has the lemmas they share: on rows by key, on the oldest row, on intervals that start
at multiples of a width, and on sums over a table. A sum is a fold, which the community module defines
by a recursive function; that the function exists and does not depend on the order of the rows is shown
by least counterexamples over `Nat`, as the library's induction theorems have operators for parameters,
which the provers cannot instantiate.

Only model-checked: `EveryRequestAnswered` (of both models) and `ReviewIsAnnounced`.
Liveness under fairness, and `ENABLED`, are out of TLAPS's reach.

## 6. What is not modelled

Listings, previews and health checks (read only; `find_orphaned_corrections` and what `fetch_states`
says of a reading are in `SqliteCorrections`, `NeedsReview` and `EntityPage`), outlier detection
(floats, suggestions only), discovery and configuration (run once), the state file (one atomic
replacement), the form of the bulk panel (its request is in `CorrectionTxn`, `SqliteCorrections` and
`EntityPage`), the entity page's window of time, paging, slider and caption and the scope it shows of
a cascade (section 4 has what was seen of them), rendering, and the development scripts. Validation of values and notes is data:
`Numeric` is what `validate_new_value` lets through. Of the counter statistics, `sum_delta_applied`
and `cascade_rows_updated`, which nothing reads back, and rounding of floats.

The publisher's thread is started in the process that later becomes gunicorn's master, and queries
SQLite through a connection `report_startup_health` opened there; that the worker is forked from that
process (`history_repair:194`) is not in `NeedsReview`.

## 7. What could come next

1. A `total` sensor in `CounterStats` (`total_increasing` is never passed), and the partly purged
   hour in `MeasurementStats`.
2. The graph's window and the scope of a cascade in `EntityPage`; what a refresh empties, in
   `CounterStats`.
3. Proofs: the hypothesis `Readings \subseteq Nat` of the counter theorems, which a model of negative
   readings would have to replace; that `Balance` (or a part of it) survives a restored backup.
