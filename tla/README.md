# A TLA+ verification of the MDP v2 pipeline

MDP v2 copies Oracle JDE views (`V2_PRO_*`) into a PostgreSQL staging schema
(`mdp_staging`), keeps the copies fresh, builds data models and materialized
views over them and serves those over HTTP.  The backend (`src/backend/app`, a
FastAPI process) does the work through `ora2pg`, which it runs with
`docker exec` in a container of its own.  This directory models the part of the
backend where state, failures and concurrency meet, checks it with TLC on small
instances and proves what matters most with TLAPS.

## 1. Inventory

### 1.1 Streaming cycle (`streaming_service.py`, `ora2pg_runner.streaming_pull_once`, `streaming_refresher.py`)

*State.*  One `streaming_configs` row per table: marker column and kind
(`ts_col`, `ts_kind`), granularity, `lookback_days`, copy of the key, the
cursor `last_watermark[_time]`.  The target table in `mdp_staging`, its unique
index.  The key of the migration job (`migration_jobs.primary_key_columns`).
*Operations.*  `run_cycle`: load the row, decide Case A (incremental) or Case B
(full reload), initialise the cursor from the target's MAX, pull the rows the
predicate selects through `ora2pg -t INSERT` with ON CONFLICT DO NOTHING, read
the target's MAX again, commit the cursor.  `run_all_due` runs the due tables
from the poll loop; `POST /streaming/run-once` runs one in a request thread.
*Hard.*  The cycle holds a row it loaded minutes ago; ora2pg reads one Oracle
snapshot and commits row by row; nothing excludes two cycles of one table; an
exec is not killed when its stream or the backend is lost; the exit code may be
unknown and then counts as success.
*Correct when.*  No row is skipped by the cursor, none is inserted twice, none
disappears, the cursor does not move backwards, and the target catches up.

### 1.2 Streaming configuration and keys (`api/streaming.py`, `ora2pg_dashboard.py`, `pk_reference_service.py`)

*Operations.*  `PUT /streaming/config` (two commits: fields, then reset of the
cursor), set, clear and discover primary keys, and the reference keys that each
backend start seeds.  *Hard.*  They edit the row a running cycle holds; the key
lives in three places (job, configuration, unique index).  *Correct when.*  A
cursor never survives a change of its column, a cleared key stays cleared, a
key set by hand survives scans.

### 1.3 Full reload (`ora2pg_runner.full_reload_once`, `_atomic_swap`)

*State.*  `<target>`, `<target>_new` (a fixed name), the execs in the container.
*Operations.*  Drop leftovers, DDL pass, COPY pass, non-empty guard, swap in one
transaction.  *Hard.*  Two reloads share the name; ora2pg resolves the name
again at each batch and outlives the backend; a failed row count looks like an
empty table.  *Correct when.*  Readers see one whole snapshot of the view, never
an empty or missing table after a filled one.

### 1.4 Migration and repair runs (`ora2pg_dashboard.py`, `ora2pg_runner.py`, `migration_service.py`)

*State.*  `migration_runs` rows (status, source count, verdict), `_PROGRESS` in
memory, one worker thread per run, its ora2pg exec, the target and its unique
index.
*Operations.*  `start_migration` and `repair_table` check for a run in flight,
commit a run row and start a thread.  `_worker` re-creates the table and copies
the whole view; `_repair_worker` deletes a range and copies it again;
`_repair_pk_worker` inserts the whole view with ON CONFLICT DO NOTHING.  Each
ends in `fail()` or in success, a stored status and `_reconcile`.
*Hard.*  The check and the insert of the row are two steps; status lives in
memory and in a row and the two are written apart; a restart loses one of them
and leaves the exec running; every failing step must reach `fail()`; a repair
deletes before it copies.
*Correct when.*  One worker at a time, a successful run leaves what it had to
bring and what was there, no row twice, the outcome shown is final, every run
is seen to end.

### 1.5 Data models and materialized views (`data_model_service.py`, `matview_service.py`, `matview_refresher.py`)

*State.*  One `data_models` row per model: name, type, definition (attributes and
joins), whether it is active, whether it wants a matview, the matview's status.
A matview `mdp_models."<name>"` for each Type B model that wants one.  The source
tables of its joins.
*Operations.*  Create, update, deactivate and delete a model, each followed by
`apply_matview_on_save` or `drop_matview`; `enable_matview` (plan, DROP, CREATE
WITH NO DATA, unique index, REFRESH, count, record); `refresh_matview`; the
refresh loop over all due models.  `list_outbound` reads a matview that exists,
and falls back to the joins when it does not.
*Hard.*  Every statement commits by itself, on connections apart from the session
that holds the model row; nothing excludes two builds of one matview; a build
may break off anywhere; a matview blocks DROP TABLE of what it reads.
*Correct when.*  A reader always gets rows, each key once; a matview shown as ok
has the model's definition; none outlives its model; each converges to what
Oracle has.

### 1.6 Verification (`verify_service.py`, `source_count_service.py`, `source_count_refresher.py`)

*State.*  A queue, a table of batches and one worker thread, all in memory.  One
`ora2pg_source_counts` row per table: number, exact or estimated, ok or stale.
The verdict on the latest run row.
*Operations.*  Post a batch; the worker counts target and source of each table,
saves the source count, derives a verdict and records it; the synchronous
endpoint does the same in a request; a loop saves estimates from Oracle's
statistics.
*Hard.*  Three kinds of threads write one cache row, each as SELECT, commit of
what changed, read back; target and source are counted at different moments;
finished batches are evicted while others arrive; any step may fail.
*Correct when.*  MATCH and MISMATCH are true, no batch is lost or never ends.

### 1.7 Type B models and their SQL (`type_b_mapping_service.py`, `type_b_sql_service.py`)

*State.*  The stored mapping: attributes with their source columns, joins, the
setting "latest only" kept among the joins; the mapping on the screen.
*Operations.*  Validate (columns, types, keys, the order of joins), save, edit,
create from a template, turn into SQL text and back, preview, list, look up.
*Hard.*  Joins come in any order and must form a tree; what makes a join safe is
probed on the data of the moment; a partial update is merged over what a save
rearranged.
*Correct when.*  Exactly the sound mappings are accepted, each key comes once,
what was saved stays readable and means the same, text and mapping agree.

### 1.8 Integration API (`inbound_service.py`, `outbound_service.py`, `data_model_service.py`, `table_generator.py`, `api_key_service.py`)

*State.*  Models, their generated tables `dm_<name>` and records, API keys, the
log of transactions.
*Operations.*  A call authenticates, is checked against its key's scope, inserts
or reads, and leaves a line in the log; administrators create, edit, rename,
deactivate and delete models and keys.
*Hard.*  A call works on the model it loaded; the line is in the transaction of
the work, or in another one after a rollback; deleting nulls the references of
lines first and the row later; the tables of deleted models stay.
*Correct when.*  Records, lines and answers agree, no line refers to what is
gone, a model's table has the columns an insert names.

### 1.9 Timestamp backfill (`tz_backfill.py`)

*State.*  A log table: which generated tables were shifted, by how much.
*Operations.*  Apply, restricted to some tables or to old rows; reverse.
*Hard.*  It runs by hand beside the API, and perhaps twice at once.
*Correct when.*  No row is shifted twice, a reverse undoes exactly an apply.

### 1.10 Not modelled

| Component | Sources | Why |
|---|---|---|
| Singleton lock of the loops | `*_refresher.py` | what the loops do is modelled; the advisory lock matters between two backends, and the deployment starts one process (`backend/Dockerfile:15`).  `streaming_overlap` has the two cycles at once that a lost lock would bring |
| Users, roles; connections, browser, preferences, migration templates, procurement demo | `services/*` | CRUD of single rows and read-only queries; no step depends on what another request does in between |
| Frontend, simulation, Grafana, Flink, deployment | `src/frontend`, ... | keep no state of the pipeline |

## 2. Modules

| Module | Models | State |
|---|---|---|
| `Replica` | what the Streaming screen promises of one table: an abstract specification over two sets of keys | `source`, `replica` |
| `Streaming` | 1.1: one action per step of `run_cycle` and of the pull, any number of workers, the container, crashes, Oracle | clock and view; target, index; configuration row; `cyc[w]`; `orphan` |
| `StreamingConfig` | 1.2 over the variables of `Streaming` | plus a PUT and a scan in progress, `pk_source` |
| `FullReload` | 1.3: one action per step, any number of reloaders, the execs | `live`, `temp`, `run[w]`, `exec[e]` |
| `MigrationRuns` | 1.4: requests, workers of the three modes step by step, execs, restarts | `target`, `indexed`; `row`, `progress`; `request[a]`, `worker[i]`, `exec[i]`; histories `due`, `trouble` |
| `Matview` | 1.5: saves, deactivations, deletions and refreshes step by step, the refresh loop, restarts, readers | `row`, `mv`; `src`, `oracle`; `job[w]`, `todo` |
| `Verify` | 1.6: threads step by step, the cache's upsert, the queue, runs, restarts | `source`, `target`, `streamed`; `cache`, `runs`; `status`, `queue`, `poster`, `actor[a]`, `estimates`; history `counted` |
| `TypeBMapping` | 1.7: the validator, the join planner, deduplication and the SQL text as operators; saves and reads over data that changes | `data`; `builder` (the screen), `stored`; `plan`, `answer` of a read; history `promised`, `touched` |
| `Gateway` | 1.8: calls, administrators, restarts | `models`, `keys`, `tables`, `rows`, `logs`; `call[c]`, `admin[a]`; history `plain` |
| `TzBackfill` | 1.9 over the variables of `Gateway` | `shifted`, `shifter[s]`; history `moves` |
| `StreamingProofs` (also of `StreamingConfig`), `FullReloadProofs`, `MigrationRunsProofs`, `MatviewProofs`, `GatewayProofs` (also of `TzBackfill`), `VerifyProofs`, `TypeBMappingProofs` | theorems and proofs | |
| `LeftFold` | no code: what `FoldLeft` computes, and induction along it, for the proofs about `TypeBMapping` and `Verify` | |
| `MC*` | instances for TLC | |

`StreamingConfig` extends `Streaming`; `Streaming` is shown to implement
`Replica`; Case B is in `Streaming` as far as two cycles meet in it
(`Reload`), and step by step in `FullReload`.  `MigrationRuns` stands beside them: its successful
full run is the single action `InitialLoad` of `Streaming`.  `Matview` reads the
tables the others fill: its `Reload` is a full reload that ends in a swap
(`Swapped`) or rows that streaming inserts.  `TypeBMapping` is what `Matview`
takes for granted of a definition (`Valid`, `Fanout`): how a mapping becomes a
SELECT and which it refuses.  `TzBackfill` extends `Gateway`.

### 2.1 Streaming and the code

`cyc[w].pc` follows `run_cycle`: *idle*; *init* (`cfg.last_watermark is None`);
*pull* (predicate built, `streaming_pull_once` called); *insert* (the ora2pg
exec reads its snapshot and inserts, `pending` being the rows still on their
way); *advance* (`target_max_watermark` after an ok pull); *copy*, *fill*, *load*,
*swap* (Case B: `<target>_new` is made, truncated, filled and renamed); *finish*
(`_finish`, the commit).  `temp` is the one `<target>_new`, whoever made it, and
`stray` what abandoned copies still write there.  `base` is the row the session loaded:
SQLAlchemy writes a column only when it differs from what was loaded, so
`Finish`, `PutFields`, `PutReset` and `ScanCommit` write exactly the columns
they changed over whatever was committed meanwhile.

A row is a key, the day and time of its last update (UPMJ, UPMT) and its id
(UKID).  The day is the number JDE stores, CYYDDD: `Julian` makes it of the days
the clock counts, in years of `YearDays` days, so that the day before the first
of January is 999 - `YearDays` numbers away and not one.  The three kinds of marker that can stream compare the id, the day (with
lookback) or day and time.  A target keeps the version of a row it first
inserted, so a key may be in the view and in the target with different stamps.

What the model takes from outside `src/`:
* ora2pg reads its rows in one Oracle snapshot, inserts them in any order
  (`JOBS 4`) one transaction each, and ends.
* Rows become visible in id order, stamped at most `Lag` days late, and `Lag <=
  Lookback`: what the lookback is for.  With granularity `timestamp`, which has
  no lookback, `Lag = 0`.
* Rows are not deleted from the view.  Streaming never deletes from the target
  and does not claim to.
* All sources of a key (reference, scan, operator) name the same columns; which
  ones a scan chooses is left out.

`StreamingConfig!Restart` seeds the reference key before the backend serves
(`Seed`), unless that fails.

`TargetMax` returns the greatest marker with the time of *any* row that has it:
the time column is text in the target, and text order is not time order.

### 2.2 FullReload and the code

`run[w].pc`: *idle*; *drop*; *create*; *copy*; *wait* (for the exec); *guard*;
*swap*; *clean* (every failure path calls `_drop_table` on `<target>_new`).
`<target>_old` lives only inside the transaction of `_atomic_swap`.  A row of a
table carries the exec that wrote it, so a mixture of two copies or a row twice
can be seen.  `exec[e]` has the snapshot it reads and the rows still to come.

### 2.3 MigrationRuns and the code

`worker[i].pc` follows the three workers: *begin* (status running), *connect*
(configuration, container), *ddl* and *apply* (full only), *prepare* (audit
columns, unique index), *delete* (watermark only), *copy*, *wait* (for the
exec), *report* (`_set` success), *save* (`_persist`), *reconcile*, *done*; *fail*
and *savefail* are the two halves of `fail()`; *raised* is a thread that died.
`request[a].pc` is *check*, *insert*, *launch*; the run's id stands for
`created_at`, which PostgreSQL takes at the start of the request's transaction,
before the check.  `Shown` is `_run_snapshot`: progress if there is any, else
the row.  A row of the table carries the run that wrote it.

`Late` and `TextLate` are the range of a watermark repair as Oracle compares it
(numbers) and as the target does (its columns are text); neither contains the
other.  `Repulled` has the rows copied without being deleted, `Dropped` those
deleted and not copied: what the two properties of a repair have to except.  `due` is what the
latest run has to leave: what the table had when it was launched and the range
it copies, as far as the view still shows it when ora2pg opens its snapshot.
`trouble` records which of the failures has happened: a failed step or exec
("fail"), an output stream that breaks or ends without an exit code ("lost"), a
restart ("crash"), an exception outside of every try ("raise"), a swallowed
error of `_persist` ("persist").  `Attended` says that no exec was left by its
worker; the code promises nothing about a table that an orphan still writes.
`test_rows` is left out.

### 2.4 Matview and the code

`job[w].pc` is where the session of a request, or of the loop, is: *save*,
*deactivate*, *refresh*, *erase* (the row loaded, the operation to come);
*unlink* (`_drop_matview_named`); *clear* (`_clear_metadata`); *plan*
(`build_matview_plan`), *drop*, *create*, *index*, *populate* (the statements of
`_create_matview_ddl`, each its own transaction); *concurrently*; *count*;
*record* and *fail* (`_record_metadata` with ok or error).  `held` is the row the
session loaded, merged with the stored one as SQLAlchemy does (`Merge`: a column
is written when it differs from what was loaded).  A step of the service uses
`held`, never the stored row, and that is where overlapping operations go wrong.

A definition is the set of columns it exposes, and `Fanout` has those whose joins
are saved with `allow_fanout`.  `src.fanned` says that the right side of a join
has a key twice: then a definition outside `Fanout` is not `Valid`, so that its
plan is refused and its read-through answers "invalid", and one in `Fanout` gives
each key twice, which the unique index of its matview refuses.

`Careful` is the discipline of operators: an operation begins when no other is
going on.  The code enforces nothing of the kind.  `Timed` is a constant set:
which models have an interval is not edited.  A cycle's due models are any
nonempty subset of those that could be due.  A reader is one step at rest; a
statement is one step with the snapshot it reads.

What the model takes from outside `src/`: PostgreSQL refuses to drop a table that
a matview reads unless CASCADE is given, refuses to read a matview that was never
populated, and refuses REFRESH CONCURRENTLY without a unique index.

### 2.5 Verify and the code

`actor[a].pc` is where `perform_verify` is: *target*, *source* (the two counts),
*look*, *commit*, *refresh* (`_upsert`: SELECT, commit, read back), *record*.
`Written` is what SQLAlchemy writes over a row that was changed since it was
loaded; the first insert of a row fails when another thread's came first.
`run` is the run that was the latest when the verify began.  Batches are
numbered in the order they were posted; `Evict` drops the oldest finished ones.
`CountTarget` may answer None for a table that exists, as `_count_target` swallows
every exception, and the verify goes on.  `quiet` remembers that neither of the
table's counts moved while the thread ran, and that no other thread was between SELECT and read back of the cache row when it was; `mixed` has
the tables whose row two such threads wrote.  Nothing in the code forbids them to
meet; an estimate can then be recorded as an exact count (section 4), and of such
a row the property claims nothing.

### 2.6 TypeBMapping and the code

`Validate` is `validate_type_b_mapping`: well-formed, attributes, `Planned`
(`_resolve_join_plan`: the checks of each join in `JoinsValid`, then `Order`), the
key, the column of recency.  Its result is the plan a save promises and a read
follows.  `Meet` is the body of the planner's inner loop, `Pass` one round of the
outer one.  That one stops when a round made no progress; `Order` makes as many
rounds as there are joins, and a round after one without progress changes nothing.
`Rows` is the meaning of the FROM clause that `build_type_b_from_clause` writes, a
left or inner join at a time, over relations that `Reduced` thins out to the
newest row of each key; PostgreSQL may keep any of several equally new ones.
`Generate` and `Parse` are the SQL text of the subset and its way back; `Parse` is
the set of mappings a text means: one, or none when it is refused.  A join may come
without a type, or with null: the validator takes it for a left join (`JoinType`),
the generator raises for the one and writes INNER JOIN for the other.  `Saved`
and `Merged` are what a save rearranges and a partial update finds.  A read is
two steps, `Probe` and the SELECT, and other programs insert between any two.

### 2.7 Gateway, TzBackfill and the code

`call[c].pc`: *new*; *found* (authenticated, in scope, model loaded); *stored*
(work done, line written, not committed); *committed* (not answered yet); *broken*
(rolled back, the failure's line still to come); *done* with a code, or with none
when the backend ended first.  A commit may be refused, or be done and not
acknowledged (`CommitBreaks`, remembered in `lost`): the call then takes the path of
a failure.  A value is its JSON kind, a record the
call that sent it, a column the attribute it is for.  `admin[a]` is an edit
between loading the model and saving it, or a delete between nulling the lines'
references and deleting the row.  A line that is not committed locks the rows it
refers to (`Holds`), a line committed in between makes a delete fail, a row gone
in between makes a line fail (`Linked`): what foreign keys do.  `plain` has the
models whose table is certainly theirs: created with it, never renamed, never
Type B.

`shifter[s]` is one transaction over all the tables: the log read at its
beginning, the tables left, the hours each record will be moved by and the log
entries to write.  ALTER TABLE on the log table locks it until the commit
(`EnsureLog`), which is what keeps two runs apart.

## 3. Runs

Each run answers a question of its own.

| Run | Question | Bounds |
|---|---|---|
| `streaming_day` | no row is skipped or lost and the cursor does not regress, with day and id markers | 3 keys, 3 days in two years, lookback and lag 1, one failure |
| `streaming_live` | the same for (day, time) cursors, and the target catches up | 2 keys, 2 days of 2 times, one failure |
| `streaming_overlap` | overlapping cycles and full reloads in one `<target>_new`, a table that starts unused, exit codes that never come: still typed, and no key twice in a table that has one | 2 workers, 2 keys, one failure |
| `config_quiet` | careful edits: no stale cursor, cleared keys stay cleared, manual keys stay | 3 keys, one failure or restart, all edits in any order |
| `reload_live` | one reloader, a view that changes, one failure | 2 rows, 3 execs |
| `reload_overlap` | two reloaders share `<target>_new`: the target is never missing | 2 rows, 3 execs, a unique index |
| `migration_runs` | one admin, any two loads and repairs in sequence, one trouble of any kind: one writer, a whole table without duplicates but for the rows the ranges of a repair disagree on, final outcome, every run ends | 2 rows (both late by number, one of them by text), 2 runs, a keyed job |
| `matview_careful` | operations one after the other: matviews are current and readable, none is orphaned, no key is doubled, no refresh takes a readable matview away | 2 models, 2 names, 2 definitions (one fans out), one failure |
| `matview_live` | the loop brings a matview up to what Oracle has, again and again | 1 model, 2 names, 2 versions, one failure |
| `type_b_mapping` | the planner accepts exactly the trees; one row per key; a saved model stays readable; text and mapping agree | mappings of up to 3 joins over 5 tables in every order, one insert, pages of one row |
| `verify` | official verdicts are true, every job of a batch is accounted for, batches end | 1 table, 2 batches with a repeated and an unknown name, one verify or round of estimates beside the queue, one event (a failure, a restart, a row or a run), counts 0 and 1 |
| `gateway` | records, lines and answers agree; attributes have columns; no record is shifted twice | 2 calls, of which one was before, 2 models, 2 names, 1 key, 3 changes (requests of administrators, restarts, runs of the backfill) |

*Why the bounds are enough.*  Three keys are a row already there, one that
appears during a pull and one after it; two days past the first let a late row
cross a day and the cursor pass it; one failure is enough to leave an orphaned
exec beside a new cycle, and a second adds one more of the same.  Two rows and
three execs let a copy be a proper part of the view while an orphan writes and
another copy is live.  Two runs are a run and the one that follows it; the
two rows are one in both ranges of a repair and one that is copied and not deleted
(section 4 has the reverse).  Two models and two names let a
name pass from one model to the other and two models swap theirs in steps.  Three
joins over a base and two tables are every order, a repetition and a cycle;
`PlanIsTree` and `RoundTrips` are about one mapping at a time, so the family of
mappings is what counts.  One table, two batches of which one can be evicted,
and one other thread are what two writers of a cache row and a post beside a
full queue need.  Three changes let a model be created, renamed and deleted, or
two edits and a delete overlap, and two runs of the backfill surround a call.
Where a theorem covers a property
the bound does not matter (section 5).  The counters bounded in guards are the clock (`MaxDay`,
`MaxTime`), failures (`MaxFaults`), failed row counts (`MaxUncounted`) and exec
slots (`Execs`), run rows (`MaxRuns`), kinds of trouble (`MaxTroubles`), versions of the
sources (`MaxVer`), inserts of other programs (`MaxInserts`), requests and events
of `Verify` (`MaxOthers`, `MaxEvents`) and changes of `Gateway` (`MaxChanges`).
Symmetry is used only in runs without liveness properties.

Deadlock is checked in every run but those of `MigrationRuns`, `verify` and `gateway`: there
the system does stop, when the last run row, batch, call or change is used, as
nobody has to send a request.

*Fairness.*  `Streaming!FairSpec` has weak fairness of the poll loop's own step:
`_loop` sleeps `wait_for(stop_event, timeout=interval)` with a finite interval
and catches every exception, `run_cycle` never raises, and a cycle whose exec
hangs is the one thing excluded.  `FullReload!FairSpec` adds that an exec runs
to its end, and `MigrationRuns!FairSpec` that a request thread and a worker
thread go on with what they began (each request, worker and exec by itself;
nothing makes a request arrive).  `Matview!FairSpec` lets sessions go on, the
source be reloaded when Oracle is ahead, and cycles of the refresh loop begin:
`_loop` waits with a finite timeout and catches every exception.  That last one
is strong, since with `Careful` a cycle waits for requests that may come without
end.  `Verify!Fairness` says that each thread goes on with its verify, that the worker
takes from its queue (`_q.get()` blocks only while it is empty) and that a request
puts the names it posted; that batches are posted, or the loop runs, is not
assumed.  Failures are finite (`MaxFaults`, `MaxEvents`); nothing is
assumed of the arrival of requests, Oracle or orphaned execs of a cycle.
`CaughtUp` says each row of the view comes to the target; `Refreshed` says that once the view stands still and has rows,
readers come to see exactly them; `Converges` that each model with an interval is
again and again up to date, unless it is gone, wants no matview, its joins fan
out or its build broke off before the first row; `RunsEnd` that each run whose row is committed
is seen to end, unless its thread died with the process or of an exception;
`BatchesEnd` that each batch that was posted has all its names done or failed,
unless the backend ends.

## 4. Where the code does not do what it says

The runs state what holds.  What follows was found with the same models; each
row is reproduced by the given changes to the cfg of a run, checking the one
property named (with SPECIFICATION `Spec` where it is an invariant or an action
property, and without SYMMETRY where it is temporal).

| Change | Property | What happens |
|---|---|---|
| `streaming_day`: `Markers = {"day"}`, `MaxFaults = 0` | `NoMissedRowAtNewYear` | the cutoff of a day marker is `cursor - lookback_days` on CYYDDD numbers (`streaming_service.py:93-98`): 124001 - 1 = 124000 does not select 123365, so a row stamped late in the old year is never pulled, while `streaming_service.py:76-78` says that "a year-boundary cutoff merely over-pulls a few rows" |
| `streaming_live`: `Markers = {"day"}`, `MaxFaults = 0` | `ChangesArrive` | `ON CONFLICT DO NOTHING` never applies an update of an existing row, while `streaming_service.py:75-76` says the lookback re-pulls "so same-day updates are not missed" |
| `streaming_day`: `Callers = {caller}`, `Markers = {"sequence"}`, `MaxDay = 0` | `NoLostRow` | the cursor is the MAX of the *target*, which another cycle also fills: if that one had the later snapshot and failed part way, ids it selected and did not insert are below the committed cursor and never pulled (`streaming_service.py:335-337`) |
| `streaming_overlap`: `Callers = {}`, `Markers = {"sequence"}`, `ExitKnown = TRUE`, 3 keys | `NoLostRow` | the cursor initialised at `streaming_service.py:320-323` is not committed before the pull; after a crash it is initialised again, from the MAX of a part of the rows |
| `config_quiet`: `Markers = {"day", "timestamp"}`, `MaxTime = 1`, `MaxDay = 1`, `EditPk = FALSE`, no failures | `NoRowSkippedByEdit` | a day pull leaves `last_watermark_time` (`streaming_service.py:338`) and a change of granularity does not reset it (`api/streaming.py:136-139`) |
| `config_quiet`: `Markers = {"day", "sequence"}`, `Careful = FALSE`, `EditPk = FALSE`, `MaxDay = 1`, no failures | `NoRowSkippedByEdit` | a cycle that runs during PUT commits the MAX of the old column after the reset (`api/streaming.py:133-147`) |
| the same, `Careful = TRUE`, `Callers = {caller}` | `NoRowSkippedByEdit` | two cycles of the table, as in the second row, after a careful edit |
| the same, `Careful = TRUE`, `MaxFaults = 1` | `NoRowSkipped` | a pull that is cut off leaves a gap below the MAX of the target; a change of the column drops the cursor, and the next cycle starts from that MAX (`streaming_service.py:320-323`) |
| the same, `Markers = {"day"}`, `EditPk = TRUE`, `Careful = TRUE`, `InReference = TRUE`, `MaxFaults = 1` | `ClearedJobStays` | DELETE forgets `pk_source`, so the next start seeds the reference key again (`pk_reference_service.py:63`) |
| the same, `Careful = FALSE`, no failures | `ClearedConfigStays` | a cycle writes the key it loaded back over the DELETE (`streaming_service.py:281-283`) |
| the same | `ManualKeyStays` | a scan that read the job before a manual edit overwrites it (`ora2pg_dashboard.py:705-714`) |
| the same | `NoDuplicates` | DELETE drops the unique index under a running pull (`ora2pg_dashboard.py:905`) |
| `streaming_overlap`: `MaxFaults = 0` | `NoDuplicates` without its premise | two full reloads of a table without a key copy into one `<target>_new` (`ora2pg_runner.py:924`), and what both wrote is swapped in |
| `reload_overlap`: `Keyed = FALSE` | `NeverEmptied` | the second of two reloads re-creates `<target>_new` between the first one's guard and its swap: an empty table is published |
| `reload_live`: `Spec` | `AlwaysWhole` | an orphaned exec writes into the next reload's `<target>_new` |
| `reload_live`: `Spec`, `MaxUncounted = 1` | `NeverEmptied` | a failed count reads as "no rows before" (`ora2pg_runner.py:986`) |
| `migration_runs`: no troubles | `RepullIsIdempotent` | `_repair_worker` deletes `col >= '<cutoff>'` in a text column and copies `col >= <cutoff>` from Oracle: when cutoff and values differ in width (99365 and 124001), rows are copied that were not deleted (`ora2pg_runner.py:587-588`), while its docstring calls the re-pull idempotent |
| the same, `Late = {r1}`, `TextLate = {r1, r2}` | `RepairedWhole` without `Dropped` | text order reaches further than numeric order: the repair deletes rows it does not copy again (`ora2pg_runner.py:587`) |
| `migration_runs`: `Admins = {a1, a2}`, no troubles | `OneWriter` | two requests pass the check before either inserts its row (`ora2pg_dashboard.py:339-356`) |
| `migration_runs`: `MaxRuns = 1`, no troubles | `UnknownIsPending` | 0 is stored as the source count when none is cached (`ora2pg_runner.py:378`, 396), so the verdict is MISMATCH where `migration_service.py:260-263` means PENDING |
| `migration_runs`: no troubles | `VerdictOnOwnRows` | a run that starts between the success of another and its `_reconcile` empties the table that is then counted (`ora2pg_runner.py:511-527`) |
| `migration_runs`: `Keyed = FALSE`, `ExitKnown = TRUE`, `MaxRuns = 1`, `Troubles = {"raise"}` | `RunsAlwaysEnd` | `_exec_collect` is called outside of every `try` (`ora2pg_runner.py:468`): when docker-py raises, the thread dies, the run is shown as running and each later start is answered "A run is already in progress" until the backend restarts |
| the same, `Troubles = {"crash"}` | `RunsAlwaysEnd` | a run row stays "running" after a restart: nothing marks it failed |
| `matview_live`: `Swapped = TRUE`, `MaxFaults = 0` | `Converges` | `_atomic_swap` drops the old table without CASCADE (`ora2pg_runner.py:911`): PostgreSQL refuses while a matview reads it, so a table under a matview is never reloaded |
| `matview_live`: `MaxVer = 0`, `MaxFaults = 0` | `NeverFails` | a build creates the matview WITH NO DATA and fills it with its last statement; when that fails (a join fans out) the empty matview stays, `matview_available` sees that it exists, and each read of the model fails, where `matview_service.py:220-221` says it "transparently falls back to the live read-through (never 500s)" |
| the same, `Careful = FALSE` | `OkIsCurrent` | a refresh that began before a save builds the definition it had loaded, and records it as ok |
| the same | `KeysUnique` | two builds of one matview: the one creates the index, the other drops and creates the matview and populates it without |
| the same | `NoOrphan` | a build that began before a rename or a deletion creates the matview after it was dropped |
| the same | `AlwaysAnswers` | one build's drop comes between the other's steps: an empty matview stays |
| `matview_live`: `MaxVer = 0`, `MaxFaults = 0` | `InactiveIsDropped` | `data_model_service.py:233` drops the matview of a deactivated model "so it can't serve stale rows"; the next refresh cycle builds it again, as `Due` does not look at `active` |
| `gateway` | `NoSharedTable` | a model renamed from a to b keeps the table of a, and a model then created as a takes that table for an orphan: `data_model_service.py:154-157` says it can "never" be "a live-model collision" |
| `gateway` | `DeletesSucceed` | a call whose line is committed between the UPDATE and the DELETE of a model or key makes the delete fail on the foreign key, while `data_model_service.py:248-249` says it "never 500s" (`api_key_service.py` deletes alike) |
| `gateway` | `RowsAreLogged` without `lost` | a commit is done and its acknowledgement lost: the call logs a failure beside the success and answers 500 of a record that is stored (`inbound_service.py:207`, 227-245) |
| `gateway` | `ReverseUndoes` | a record written between apply and reverse is moved back though it was never moved (`tz_backfill.py:132`), while `tz_backfill.py:9` calls a whole-table apply reversible |
| `verify`: `MaxOthers = 2` | `OfficialVerdictIsTrue` without its premise on `mixed` | an upsert of an estimate and one of an exact count, each over the row it loaded, write the columns that changed: the row can then have the estimate's number under mode exact, and an official verdict rests on it, where `source_count_service.py:219` says "an estimate yields ESTIMATE (never a red MISMATCH)" |
| `verify` | the same without its premise on the target's count | the count fails, is swallowed (`verify_service.py:45-57`), and the verdict of a table that was counted before is PENDING |
| `verify`: `MaxEvents = 2` | `MismatchIsVerified` | a run that finishes writes its own target count, which the dashboard compares with an exact source count of before: MISMATCH without a verify, against `ora2pg_dashboard.py:277-280` |
| `verify`: `MaxEvents = 2`, `MaxOthers = 2` | `NoFakeMismatch` | a count that fails keeps the old number with mode exact: MISMATCH, where `ora2pg_dashboard.py:375-376` says "never a fake MISMATCH" |
| `type_b_mapping` | `RoundTrips` without its premise on names | two tables of one name in two schemas become one alias: the text is outside of the subset `parse_type_b_sql` takes, while `type_b_sql_service.py:300-301` calls the two an inverse |
| `type_b_mapping` | `RoundTripsAnyType` | the validator takes a join without a type, or with null, for a left join (`type_b_mapping_service.py:273`); the generator raises or writes INNER JOIN (`type_b_sql_service.py:356`), while `type_b_sql_service.py:300-301` calls the two an inverse |
| `type_b_mapping` | `RoundTrips` without its premise on repeated joins | a join listed twice is planned once but written twice |
| `type_b_mapping` | `OneRowPerKey` without `answer.fresh` | a row that comes between the probes of a read and its SELECT doubles a key; nothing holds the data still between the two |

Read off the same models, without a property: a restart between the two commits
of PUT keeps the cursor of the old column (`api/streaming.py:142-145`; `Careful`
keeps restarts apart from edits); SQL text carries no `allow_fanout`
(`Parse`), so a mapping that needs it is refused after a round trip; "latest
only" keeps any of the rows that are equally new where the table has no `id`
(`Reduced`), so two reads of the same data may differ; the configuration of a
template takes the place of all joins a request lays over it (`FromParts`);
`sync_generated_table_columns` says that the table is "always a superset" of the
attributes (`table_generator.py:147-148`), which a rename, a table taken over from a
deleted model or a change of type makes untrue (`AttributesHaveColumns` leaves
these out); and two edits validated each by itself may be saved as a combination
that no one validated (`Overlaid`).

These are disagreements between code and comments, stated so that a reader can
judge them; the passing properties say under which conditions the intended
behaviour does hold.

## 5. Proofs

Checked by TLAPS for every set of keys, rows, workers and execs and every bound.
The only assumptions are the `ASSUME`s of the modules (types of the constants,
`Lag <= Lookback`, `None` is no value) and those named in a theorem.

`StreamingProofs`:
* `TypeCorrect`, `FreshTypeCorrect`: `TypeOK` is inductive as it stands.
* `KeyedNeverDoubled`, from an unused row and for any number of workers, from
  `Keyed`: of a table with a key each `<target>_new` was made with its unique index,
  so neither two copies in it nor strays that go on there double a key, and what is
  swapped in brings the index along.  Section 4 (`NoDuplicates` without its premise)
  shows that a table without a key is another matter.
* `NeverDuplicates`, `StreamingImplementsReplica`, for any number of workers,
  from `Indexed`: a table that streams stays keyed (so no cycle ever reloads it),
  its unique index is there, and every row in the target or on its way has a key
  of the view.  The refinement maps `source` to the keys of the view, `replica`
  to the keys of the target.
* `NoRowIsMissed`, `CursorOnlyAdvances`, when `PollAlone` (no request threads,
  exit codes arrive), from `Pursuit`.  `NoMissedRow` is not inductive: the cursor
  jumps to the MAX of the target although rows were inserted in any order and
  new ones appeared.  `Pursuit` says why it may: (a) every row on its way was
  stamped no later than now, so that whatever appears later is at or past it
  (`OracleKeeps`, where `Lag <= Lookback` is used); (b) from the pull on, each
  row of the view has its key in the target or on its way, or is selected by
  *every* row on its way taken as a cursor, orphans included; (c) the cursor is
  at most the marker of some row of the target.  When the exec is over nothing
  is on its way but orphans, and (b) gives the property for the new cursor, (c)
  gives that it did not regress.  CYYDDD numbers grow with the days (`Julian`), and
  within a year by one, so the lookback reaches as many days back as it says, or to
  the first of January: rows stamped late in an ended year are excepted
  (`PassedOver`), and `NoMissedRowAtNewYear` (section 4) shows that they have to be.  Section 4 (two cycles of one table) shows that `PollAlone` is
  needed.

About `StreamingConfig`, on top of them:
* `EditsTypeCorrect`, for any edits at any time.
* `ManualKeyHolds` and `ClearedConfigHolds`, when edits are made one at a time on a
  disabled table (`Careful`), from `ScanIsStale` (a scan that has read the job has
  not read a manual key) and `KeyIsGone` (a cleared key is on neither row and in no
  cycle that would write it back; the table is not in the reference).  Section 4
  shows that both conditions are needed.
* `NoRowSkippedByEditHolds`, when also the poll loop alone runs cycles and a table
  is not moved between granularity day and timestamp, and either no row comes late
  or the clock stays within a year (`OneByOne`), from `EditInv`
  and, until the first failure, `EditPursuit`.  `Pursuit` follows one marker; here
  the marker is a variable, so that `Gapless` says for *every* marker at once that
  a row of the view which the target lacks is at or past each row that is in the target or
  still on its way.  A cursor in the row or in the cycle is then one of the marker
  the row has (`CursorsFit`), unless a PUT has changed the marker and has still to
  drop it, and then the table is disabled and no cycle runs (`PutHeld`).  A failed
  pull leaves a gap below the target's MAX, which a change of the marker starts
  from: that is why the property stops at the first failure.  Section 4 (the
  rows of `NoRowSkippedByEdit` and `NoRowSkipped`) shows that each of these
  conditions is needed.

`FullReloadProofs`:
* `TypeCorrect`; `TargetNeverMissing` and `NothingLeftOver` for any number of
  reloaders.
* `TargetNeverEmptied` for one reloader whose counts succeed, from `Guarded`:
  what was counted and what the guard let through still holds when it is used.
  Section 4 shows that one reloader is needed.
* `LiveIsWhole` for one reloader until the first failure, from `Steady`: the
  only running exec is the one the reloader waits for, and `<target>_new` is
  exactly what that exec has written of its snapshot.

`MigrationRunsProofs`:
* `TypeCorrect`, for any number of request threads.
* `OneWriterHolds`, when there is one request thread (`OneAdmin`), from `Serial`:
  a worker that may touch the table belongs to the latest run and that run is in
  flight in the row and in `_PROGRESS` alike (so the check sees it); between a
  check and its launch there is no such worker; run ids only grow.  Most steps
  of a worker are covered by `OwnStep`: it changes its own run only and never
  begins to touch the table.
* `NoTwiceHolds`, for one request thread and any two ranges, from `Clean`: the exec
  of an attended run is the only writer while it lives, and what it has yet to write
  is not in the table, or the unique index keeps it out, or it is in `Repulled`.
* `RepairedWholeHolds`, under the same conditions, from `Whole`: what the run owes
  is in the table or still to be copied, phase by phase (`Owed`), `Dropped` aside.
  Section 4 shows that both exceptions are needed.
* `EndIsFinalHolds`, for one request thread, from `Phased`: `_PROGRESS` has entries
  for launched runs only, terminal exactly when only bookkeeping is left.

`MatviewProofs`:
* `TypeCorrect`, for any number of request threads.
* `KeysUniqueHolds` and `RefreshKeepsServingHolds`, for any number of models,
  names and failures, when operations do not overlap (`Careful`), from
  `Orderly`: at most one session is there, it holds the row as stored, names are
  unique, and each step finds the matview as the step before it left it (after
  *drop* there is none, after *create* an empty one, after *index* an empty one
  with its index).  Section 4 (`Careful = FALSE`) shows that the discipline is
  needed.

Under the same discipline and until the first failure, from `Sound` on top of
`Orderly`:
* `NoOrphanHolds`: a matview belongs to a model that wants it, or is about to be
  dropped (`Kept`).
* `OkIsCurrentHolds`: an "ok" is true of the matview, or its model's session is
  about to replace it (`Truthful`, with `Defined`).
* `AlwaysAnswersHolds`: a matview is empty only while it is built, or because its
  joins fanned out (`Filled`).  Section 4 (`NeverFails`) shows that this last case is
  real, so the theorem cannot be stronger.

`GatewayProofs`, of `TzSpec`, so beside any runs of the backfill:
* `RowsAreLoggedHolds`, from `LogInv`: types, and what each call has written so far
  (nothing before its commit; a record only with a line of success; one line of
  success from *committed* on, and before the line of a failure only when the
  acknowledgement was lost; references to live rows only).  The delicate steps are `Commit` against `DeleteRow`: a call that
  has stored its line holds the rows it refers to, and a delete that does not see
  a line must not leave it behind.
* `AttributesHaveColumnsHolds`, from `ColumnsInv`: a plain model has its table, the
  attributes it has and those any edit under way has loaded are columns of it, and
  columns are only added.  The attributes an edit does not change are the stored
  ones, those it changes it adds columns for.
* `NeverShiftedTwiceHolds`, from `ShiftInv`: one run at a time is between lock and
  commit, it has read the log as it is, each record is in one table, and a record
  hours were added to is in a table whose log entry says so.

`VerifyProofs`:
* `OfficialVerdictHolds`, without any assumption, from `VerdictInv`: a number with
  mode exact was counted, unless the table is in `mixed`; two threads that are at
  once between SELECT and read back of a row that exists have put it there and are
  not quiet; what a thread alone loaded is what is stored, and what it wrote is there
  when it reads it back; a quiet thread's counts are those of the tables.  The conclusion is about a step
  (`Record`) and follows from the invariant before it.

* `JobsAccountedHolds`, for any number of posters, tables and batches, from `JobsInv`: the queue and what each request has still
  to put are without repetitions and apart from each other (`PostersOK`, `QueueOK`),
  what is queued or carried is shown as queued in a batch that is still listed,
  and the reverse (`NoneForgotten`), and the worker holds exactly what is shown as
  running (`WorkerOK`).  `SeenIs` says what the removal of repeated names leaves.
  The delicate step is `Evict`: only batches without a job may go.

`TypeBMappingProofs`, for any tables, columns, mappings, rows and inserts:
* `SavedStaysReadableHolds`, from `ModelInv`: the stored row is always `Saved` of a
  mapping some request sent, and `SavedValidates` (a mapping is validated alike before and after a save rearranged
  it).
* `PlanIsTreeHolds`, about the planner alone.  `Laid` holds after each join it
  meets: what is in order is a FROM clause, everything in it is reachable, and a
  conflict is a real one.  `Ordering` adds, between rounds, that each join waits or
  is done.  A round takes a join from those that wait or none of them can ever be placed
  (`Stuck`); with as many rounds as joins the planner ends stuck or with nothing
  waiting.  From there: accepted exactly when the joins are a tree.
* `OneRowPerKeyHolds`, from `ReadInv`: the plan a read holds is what its probes said of
  the data as they are.  `JoinHolds` is the invariant along the FROM clause: the
  rows joined so far have different rows of the base, and all of them when each
  join is a left one.  That each join finds at most one row (`Keyed`) comes from the probe or from
  `Reduced`.
* `RoundTripsHolds`.  The generator orders names, the planner tables: `InStep` says
  that, round by round, both have placed the same joins and wait for the same ones,
  which needs different names (`NamesTell`) and joins without repetition (`Once`).
  What is written is then in the subset (`InLine`, `Written`) and is read back in the
  planner's order, which the planner keeps (`OrderKeeps`).  A third condition is that
  each join names its type (`NamesTypes`).  Section 4 shows that the three are
  needed.

`LeftFold` carries these.  `FoldLeft` is defined by a CHOOSE over a recursive
function on subsets; `FoldExists` shows there is one, `FoldSteps` that the fold
goes through a sequence of states (`Run`), and `FoldInduction` that what the base
has and each step carries over holds of the result.  The library's induction
theorems take an operator as a parameter, which the provers cannot instantiate; so
`NatSet` proves induction for *sets* of numbers, from the well-foundedness of finite
subsets, and a module that folds takes an instance of `LeftFold` for its step and
its invariant.

*Only model-checked:* liveness (`CaughtUp`, `Refreshed`, `RunsEnd`, `Converges`,
`BatchesEnd`), which needs fairness and ENABLED, both out of the reach of the provers used here.  Every
invariant and every action property of a run is the statement of a theorem.  The reading of
section 4 is TLC's as well: that a condition of a theorem is needed is shown by a
counterexample on a small instance.

## 6. What is left

Simplified on purpose: intervals and due times (fairness instead), validation
and clamping of request fields, the counts and logs a cycle reports, several
tables (cycles of different tables share nothing but the order in which the
poll loop runs them), the ways a pull can fail before it starts (one action),
data types and wording of the API, the preview of a mapping that is not saved
(the same two steps as that of a saved one).

Worth doing next:
1. `MigrationRuns` composed with `Streaming` and `FullReload` over one target: a
   full load beside a running cycle, and `InitialLoad` as its refinement; the
   swap beside a matview.
2. Validation in `TypeBMapping` composed with `Matview`: the plan of a build made
   from a mapping instead of `Valid` and `Fanout`.
3. An invariant of `MigrationRuns` for two request threads that says what is left
   of `RepairedWhole` when two workers write (section 4, `OneWriter`).
