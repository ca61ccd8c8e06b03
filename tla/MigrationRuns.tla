--------------------------- MODULE MigrationRuns ---------------------------
(***************************************************************************)
(* Migration and repair runs of one table, started from the dashboard.     *)
(* A request checks that no run is in flight, commits a run row and starts *)
(* a worker thread, which drives ora2pg in its container and reports to    *)
(* _PROGRESS (memory, lost with the process) and to the run row.           *)
(*                                                                         *)
(* mode "full" re-creates the table and copies the view into it;           *)
(* "watermark" deletes the rows from a cutoff on and copies that range     *)
(* again; "pk" inserts the whole view with ON CONFLICT DO NOTHING.         *)
(***************************************************************************)
EXTENDS Integers, FiniteSets

CONSTANTS Rows,        \* rows the view may show
          Late,        \* rows with ts_col >= cutoff as Oracle compares numbers
          TextLate,    \* rows with ts_col >= cutoff as the target compares text
          Admins,      \* request threads
          MaxRuns,     \* bound: run rows
          Keyed,       \* the job has primary_key_columns
          ExitKnown,   \* Docker knows the exit code when the output stream ends
          Estimates,   \* cached source counts, None when nothing is cached
          Troubles,    \* kinds of trouble that may happen, each once
          MaxTroubles, \* bound: how many of them
          None         \* no such table, no count

Kinds == {"fail", "lost", "crash", "raise", "persist"}

ASSUME RowsAssumption == Late \subseteq Rows /\ TextLate \subseteq Rows
ASSUME BoundAssumption == MaxRuns \in Nat /\ Troubles \subseteq Kinds
ASSUME SwitchAssumption == Keyed \in BOOLEAN /\ ExitKnown \in BOOLEAN
ASSUME NoneAssumption ==
  None \notin Nat /\ \A t \in SUBSET (Rows \X (0..MaxRuns)) : t # None
ASSUME EstimateAssumption == Estimates \subseteq Nat \cup {None} /\ Estimates # {}

VARIABLES target,    \* mdp_staging.<target>: its rows, each with the run that wrote it
          indexed,   \* ux_<target>_pk is there
          row,       \* migration_runs, by created_at
          progress,  \* _PROGRESS[run]["status"]
          request,   \* the POST each admin is waiting for
          worker,    \* the worker thread of a run
          exec,      \* the ora2pg -t COPY / INSERT of a run
          due,       \* history: rows the latest run has to leave in the table
          trouble    \* kinds of trouble so far

vars == <<target, indexed, row, progress, request, worker, exec, due, trouble>>

Runs == 1..MaxRuns
Table == SUBSET (Rows \X (0..MaxRuns))
Modes == {"full", "watermark", "pk"}
Status == {"none", "pending", "running", "success", "failed"}
Terminal == {"success", "failed"}

Load(S, i) == {<<r, i>> : r \in S}
RowsOf(t) == IF t = None THEN {} ELSE {p[1] : p \in t}
Twice(t) == \E p, q \in t : p[1] = q[1] /\ p # q

NoRow == [status |-> "none", mode |-> "full", count |-> None, verdict |-> "none"]
NoRequest == [pc |-> "idle", run |-> 0, mode |-> "full"]
NoWorker == [pc |-> "none", total |-> None]
NoExec == [state |-> "none", todo |-> {}]

Pcs == {"none", "begin", "connect", "ddl", "apply", "prepare", "delete", "copy", "wait",
        "report", "save", "reconcile", "fail", "savefail", "done", "raised"}

TypeOK ==
  /\ target \in Table \cup {None} /\ indexed \in BOOLEAN
  /\ row \in [Runs -> [status : Status, mode : Modes, count : Nat \cup {None},
                       verdict : {"none", "MATCH", "MISMATCH", "PENDING"}]]
  /\ progress \in [Runs -> Status]
  /\ request \in [Admins -> [pc : {"idle", "check", "insert", "launch"},
                             run : 0..MaxRuns, mode : Modes]]
  /\ \A a \in Admins : request[a].pc # "idle" => request[a].run \in Runs
  /\ worker \in [Runs -> [pc : Pcs, total : Nat \cup {None}]]
  /\ exec \in [Runs -> [state : {"none", "starting", "running", "done", "failed"},
                        todo : SUBSET Rows]]
  /\ due \in SUBSET Rows
  /\ trouble \in SUBSET Troubles

\* No table yet, or one with some of the rows, loaded when a key was known or
\* when it was not.
Init ==
  /\ \/ target = None /\ indexed = FALSE
     \/ \E S \in SUBSET Rows : target = Load(S, 0) /\ indexed \in {FALSE, Keyed}
  /\ row = [i \in Runs |-> NoRow]
  /\ progress = [i \in Runs |-> "none"]
  /\ request = [a \in Admins |-> NoRequest]
  /\ worker = [i \in Runs |-> NoWorker]
  /\ exec = [i \in Runs |-> NoExec]
  /\ due = {} /\ trouble = {}

Trouble(kind) ==
  /\ kind \in Troubles \ trouble /\ Cardinality(trouble) < MaxTroubles
  /\ trouble' = trouble \cup {kind}

-----------------------------------------------------------------------------
(* POST /tables/{t}/start and POST /tables/{t}/repair. *)

Taken == {i \in Runs : row[i].status # "none"}
           \cup {request[b].run : b \in {c \in Admins : request[c].pc # "idle"}}

\* created_at is the start of the request's transaction, before its check.
Arrive(a) ==
  /\ request[a].pc = "idle"
  /\ \E i \in Runs, mode \in Modes :
       /\ i \notin Taken /\ \A j \in Taken : j < i
       /\ mode = "pk" => Keyed
       /\ request' = [request EXCEPT ![a] = [pc |-> "check", run |-> i, mode |-> mode]]
  /\ UNCHANGED <<target, indexed, row, progress, worker, exec, due, trouble>>

Latest(i) == row[i].status # "none" /\ \A j \in Runs : j > i => row[j].status = "none"
Busy(s) == s \in {"pending", "running"}
InFlight(i) == Latest(i) /\ Busy(row[i].status) /\ Busy(progress[i])

Respond(a) == request' = [request EXCEPT ![a] = NoRequest]
Proceed(a, pc) == request' = [request EXCEPT ![a].pc = pc]

\* Mutant of Check: a run that has not begun is not in flight.
CheckRunning(a) ==
  /\ request[a].pc = "check"
  /\ IF \E i \in Runs : InFlight(i) /\ progress[i] = "running" THEN Respond(a)
     ELSE Proceed(a, "insert")
  /\ UNCHANGED <<target, indexed, row, progress, worker, exec, due, trouble>>

\* "Refuse to start if a run for this job is already in flight."
Check(a) ==
  /\ request[a].pc = "check"
  /\ IF \E i \in Runs : InFlight(i) THEN Respond(a) ELSE Proceed(a, "insert")
  /\ UNCHANGED <<target, indexed, row, progress, worker, exec, due, trouble>>

InsertRun(a) ==
  /\ request[a].pc = "insert"
  /\ row' = [row EXCEPT ![request[a].run] =
               [NoRow EXCEPT !.status = "pending", !.mode = request[a].mode]]
  /\ Proceed(a, "launch")
  /\ UNCHANGED <<target, indexed, progress, worker, exec, due, trouble>>

\* Mutant of Launch: the phase is stored as the status.
LaunchQueued(a) ==
  /\ request[a].pc = "launch"
  /\ progress' = [progress EXCEPT ![request[a].run] = "queued"]
  /\ worker' = [worker EXCEPT ![request[a].run].pc = "begin"]
  /\ Respond(a)
  /\ UNCHANGED <<target, indexed, row, exec, due, trouble>>

\* start_run, start_repair: the run is queued and its thread started.
Launch(a) ==
  /\ request[a].pc = "launch"
  /\ progress' = [progress EXCEPT ![request[a].run] = "pending"]
  /\ worker' = [worker EXCEPT ![request[a].run] =
                  [pc |-> "begin", total |-> None]]
  /\ due' = IF Latest(request[a].run) THEN RowsOf(target) ELSE due
  /\ Respond(a)
  /\ UNCHANGED <<target, indexed, row, exec, trouble>>

-----------------------------------------------------------------------------
(* The worker of run i: _worker, _repair_worker, _repair_pk_worker. *)

Goto(i, pc) == worker' = [worker EXCEPT ![i].pc = pc]
Full(i) == row[i].mode = "full"

\* The progress line of a full copy is seeded with the cached source count.
Begin(i) ==
  /\ worker[i].pc = "begin"
  /\ progress' = [progress EXCEPT ![i] = "running"]
  /\ row' = [row EXCEPT ![i].status = "running"]
  /\ \E n \in Estimates :
       worker' = [worker EXCEPT ![i] =
                    [pc |-> "connect", total |-> IF Full(i) /\ n # 0 THEN n ELSE None]]
  /\ UNCHANGED <<target, indexed, request, exec, due, trouble>>

\* The configuration is written, the container found.
Connect(i) ==
  /\ worker[i].pc = "connect"
  /\ Goto(i, IF Full(i) THEN "ddl" ELSE "prepare")
  /\ UNCHANGED <<target, indexed, row, progress, request, exec, due, trouble>>

\* ora2pg -t TABLE writes the DDL to a file.
ExtractDdl(i) ==
  /\ worker[i].pc = "ddl"
  /\ Goto(i, "apply")
  /\ UNCHANGED <<target, indexed, row, progress, request, exec, due, trouble>>

\* _exec_collect is called outside of every try: an error of the Docker API
\* ends the thread.
ExtractRaises(i) ==
  /\ worker[i].pc = "ddl" /\ Trouble("raise")
  /\ Goto(i, "raised")
  /\ UNCHANGED <<target, indexed, row, progress, request, exec, due>>

\* DROP TABLE IF EXISTS and CREATE TABLE are one implicit transaction.
ApplyDdl(i) ==
  /\ worker[i].pc = "apply"
  /\ target' = {} /\ indexed' = FALSE
  /\ Goto(i, "prepare")
  /\ UNCHANGED <<row, progress, request, exec, due, trouble>>

Ensured(i) == Keyed /\ row[i].mode # "watermark" /\ target # None /\ ~Twice(target)

\* Audit columns and unique index.  A full load goes on without the index, a
\* key repair does not; no repair goes on without the table.
Prepare(i) ==
  /\ worker[i].pc = "prepare"
  /\ indexed' = IF Ensured(i) THEN TRUE ELSE indexed
  /\ Goto(i, IF target = None \/ (row[i].mode = "pk" /\ ~indexed') THEN "fail"
             ELSE IF row[i].mode = "watermark" THEN "delete" ELSE "copy")
  /\ UNCHANGED <<target, row, progress, request, exec, due, trouble>>

\* Mutant of DeleteRange: the range is not cleared before it is pulled again.
DeleteNothing(i) ==
  /\ worker[i].pc = "delete"
  /\ Goto(i, "copy")
  /\ UNCHANGED <<target, indexed, row, progress, request, exec, due, trouble>>

\* The target's columns are text, so the range is compared as text.
DeleteRange(i) ==
  /\ worker[i].pc = "delete" /\ target # None
  /\ target' = {p \in target : p[1] \notin TextLate}
  /\ Goto(i, "copy")
  /\ UNCHANGED <<indexed, row, progress, request, exec, due, trouble>>

StartCopy(i) ==
  /\ worker[i].pc = "copy"
  /\ exec' = [exec EXCEPT ![i].state = "starting"]
  /\ Goto(i, "wait")
  /\ UNCHANGED <<target, indexed, row, progress, request, due, trouble>>

\* Every step before the copy has its own failure path.
StepFails(i) ==
  /\ worker[i].pc \in {"connect", "ddl", "apply", "prepare", "delete"} /\ Trouble("fail")
  /\ Goto(i, "fail")
  /\ UNCHANGED <<target, indexed, row, progress, request, exec, due>>

\* A line of output: "N/0 total rows", as ora2pg cannot count a view, so the
\* total is the seed, and 0 is stored when there is none.
ProgressLine(i) ==
  /\ worker[i].pc = "wait" /\ exec[i].state \in {"running", "done", "failed"}
  /\ row[i].count = None
  /\ row' = [row EXCEPT ![i].count = IF worker[i].total = None THEN 0 ELSE worker[i].total]
  /\ UNCHANGED <<target, indexed, progress, request, worker, exec, due, trouble>>

\* Mutant of CopyEnds: the exit code is not looked at.
CopyEndsAnyhow(i) ==
  /\ worker[i].pc = "wait" /\ exec[i].state \in {"done", "failed"}
  /\ Goto(i, "report")
  /\ UNCHANGED <<target, indexed, row, progress, request, exec, due, trouble>>

CopyEnds(i) ==
  /\ worker[i].pc = "wait" /\ exec[i].state \in {"done", "failed"}
  /\ Goto(i, IF exec[i].state = "done" THEN "report" ELSE "fail")
  /\ UNCHANGED <<target, indexed, row, progress, request, exec, due, trouble>>

\* The output stream breaks, or ends without an exit code, which counts as
\* success; ora2pg itself may go on.
StreamEnds(i) ==
  /\ worker[i].pc = "wait" /\ Trouble("lost")
  /\ \/ Goto(i, "fail")
     \/ ~ExitKnown /\ Goto(i, "report")
  /\ UNCHANGED <<target, indexed, row, progress, request, exec, due>>

Report(i) ==
  /\ worker[i].pc = "report"
  /\ progress' = [progress EXCEPT ![i] = "success"]
  /\ Goto(i, "save")
  /\ UNCHANGED <<target, indexed, row, request, exec, due, trouble>>

\* _persist swallows the errors of its own session.
Save(i) ==
  /\ worker[i].pc = "save"
  /\ \/ row' = [row EXCEPT ![i].status = "success"] /\ UNCHANGED trouble
     \/ Trouble("persist") /\ UNCHANGED row
  /\ Goto(i, "reconcile")
  /\ UNCHANGED <<target, indexed, progress, request, exec, due>>

Known(i) == IF row[i].count = None THEN worker[i].total ELSE row[i].count

Verdict(known) ==
  IF known = None \/ target = None THEN "PENDING"
  ELSE IF known = Cardinality(target) THEN "MATCH" ELSE "MISMATCH"

\* The target is counted again and compared with the stored source count.
Reconcile(i) ==
  /\ worker[i].pc = "reconcile"
  /\ row' = [row EXCEPT ![i].count = Known(i), ![i].verdict = Verdict(Known(i))]
  /\ Goto(i, "done")
  /\ UNCHANGED <<target, indexed, progress, request, exec, due, trouble>>

\* Mutant of ReportFailure: the worker goes on after fail().
FailAndGoOn(i) ==
  /\ worker[i].pc = "fail"
  /\ progress' = [progress EXCEPT ![i] = "failed"]
  /\ Goto(i, "report")
  /\ UNCHANGED <<target, indexed, row, request, exec, due, trouble>>

\* Mutant of ReportFailure: the worker returns without calling fail().
FailSilently(i) ==
  /\ worker[i].pc = "fail"
  /\ Goto(i, "done")
  /\ UNCHANGED <<target, indexed, row, progress, request, exec, due, trouble>>

ReportFailure(i) ==
  /\ worker[i].pc = "fail"
  /\ progress' = [progress EXCEPT ![i] = "failed"]
  /\ Goto(i, "savefail")
  /\ UNCHANGED <<target, indexed, row, request, exec, due, trouble>>

SaveFailure(i) ==
  /\ worker[i].pc = "savefail"
  /\ \/ row' = [row EXCEPT ![i].status = "failed"] /\ UNCHANGED trouble
     \/ Trouble("persist") /\ UNCHANGED row
  /\ Goto(i, "done")
  /\ UNCHANGED <<target, indexed, progress, request, exec, due>>

Work(i) ==
  \/ Begin(i) \/ Connect(i) \/ ExtractDdl(i) \/ ExtractRaises(i) \/ ApplyDdl(i) \/ Prepare(i)
  \/ DeleteRange(i) \/ StartCopy(i) \/ StepFails(i) \/ ProgressLine(i) \/ CopyEnds(i)
  \/ StreamEnds(i) \/ Report(i) \/ Save(i) \/ Reconcile(i) \/ ReportFailure(i) \/ SaveFailure(i)

-----------------------------------------------------------------------------
(* The ora2pg container, and the backend's end. *)

Selected(i, S) == IF row[i].mode = "watermark" THEN S \cap Late ELSE S

\* ora2pg opens its snapshot of the view, whatever it shows by then; a full copy
\* truncates the table first.
CopyOpens(i) ==
  /\ exec[i].state = "starting" /\ target # None
  /\ \E S \in SUBSET Rows :
       /\ exec' = [exec EXCEPT ![i] = [state |-> "running", todo |-> Selected(i, S)]]
       /\ due' = IF Latest(i) THEN S \cap (due \cup Selected(i, Rows)) ELSE due
  /\ target' = IF Full(i) THEN {} ELSE target
  /\ UNCHANGED <<indexed, row, progress, request, worker, trouble>>

Conflict(r) == indexed /\ r \in RowsOf(target)

\* ON CONFLICT DO NOTHING skips a key of the index, COPY stumbles over it.
CopyRow(i) ==
  /\ exec[i].state = "running" /\ target # None
  /\ \E r \in exec[i].todo :
       \/ /\ ~Conflict(r)
          /\ target' = target \cup {<<r, i>>}
          /\ exec' = [exec EXCEPT ![i].todo = @ \ {r}]
       \/ /\ Conflict(r) /\ row[i].mode = "pk"
          /\ exec' = [exec EXCEPT ![i].todo = @ \ {r}] /\ UNCHANGED target
       \/ /\ Conflict(r) /\ row[i].mode # "pk"
          /\ exec' = [exec EXCEPT ![i].state = "failed"] /\ UNCHANGED target
  /\ UNCHANGED <<indexed, row, progress, request, worker, due, trouble>>

CopyExits(i) ==
  /\ exec[i].state = "running" /\ exec[i].todo = {}
  /\ exec' = [exec EXCEPT ![i].state = "done"]
  /\ UNCHANGED <<target, indexed, row, progress, request, worker, due, trouble>>

CopyDies(i) ==
  /\ exec[i].state \in {"starting", "running"} /\ Trouble("fail")
  /\ exec' = [exec EXCEPT ![i].state = "failed"]
  /\ UNCHANGED <<target, indexed, row, progress, request, worker, due>>

Export(i) == CopyOpens(i) \/ CopyRow(i) \/ CopyExits(i) \/ CopyDies(i)

\* The backend dies and restarts: run rows, tables and execs stay.
Crash ==
  /\ Trouble("crash")
  /\ progress' = [i \in Runs |-> "none"]
  /\ request' = [a \in Admins |-> NoRequest]
  /\ worker' = [i \in Runs |-> [worker[i] EXCEPT !.pc = "none"]]
  /\ UNCHANGED <<target, indexed, row, exec, due>>

Handle(a) == Check(a) \/ InsertRun(a) \/ Launch(a)

Next ==
  \/ Crash
  \/ \E a \in Admins : Arrive(a) \/ Handle(a)
  \/ \E i \in Runs : Work(i) \/ Export(i)

Spec == Init /\ [][Next]_vars

\* Threads run, an exec comes to its end; nobody has to send a request.
FairSpec ==
  /\ Spec
  /\ \A a \in Admins : WF_vars(Handle(a))
  /\ \A i \in Runs : WF_vars(Work(i)) /\ WF_vars(Export(i))

-----------------------------------------------------------------------------
(* Properties. *)

\* A worker that may still touch the table.
Writing(i) == worker[i].pc \in {"begin", "connect", "ddl", "apply", "prepare", "delete", "copy", "wait"}

\* What GET /runs/{id} shows: live progress, or else the run row.
Shown(i) == IF progress[i] # "none" THEN progress[i] ELSE row[i].status

\* The in-flight check of start and repair: two workers of one process never
\* work on the table at once.
OneWriter == \A i, j \in Runs : Writing(i) /\ Writing(j) => i = j

\* No exec was left behind by its worker.
Attended == trouble \cap {"crash", "lost"} = {}

\* The rows a repair from a cutoff on deletes and does not pull again, and those it
\* pulls again and did not delete, as the two databases compare differently.
Dropped(i) == IF row[i].mode = "watermark" THEN TextLate \ Late ELSE {}
Repulled == Late \ TextLate

\* When the latest run is a success, the rows it was asked for and those that
\* were there before it are in the table: a full load is whole, and a repair loses
\* nothing but the rows that are past the cutoff as text and not as numbers.
RepairedWhole ==
  \A i \in Runs :
    Attended /\ Latest(i) /\ row[i].status = "success" => due \ Dropped(i) \subseteq RowsOf(target)

\* "The target range is DELETEd first so a re-pull is idempotent without needing
\* a unique constraint": no row is in the table twice but those that are past the
\* cutoff as numbers and not as text.
NoTwice ==
  Attended /\ target # None => \A p, q \in target : p[1] = q[1] /\ p # q => p[1] \in Repulled

\* What that docstring says of every row.
RepullIsIdempotent == Attended /\ target # None => ~Twice(target)

\* A run that was shown as finished does not change its mind, short of a restart.
EndIsFinal ==
  [][\A i \in Runs : Shown(i) \in Terminal
       => Shown(i)' = Shown(i) \/ "crash" \in trouble' \ trouble]_vars

\* Every run is seen to end, unless its thread died.
RunsEnd ==
  \A i \in Runs : row[i].status = "pending"
                    ~> Shown(i) \in Terminal \/ trouble \cap {"crash", "raise"} # {}

\* "the worker captures it, marks the run failed": no exception.
RunsAlwaysEnd == \A i \in Runs : row[i].status = "pending" ~> Shown(i) \in Terminal

\* "PENDING" is the verdict when source or target count is not known.
UnknownIsPending ==
  \A i \in Runs : row[i].verdict = "MISMATCH" => worker[i].total # None

\* A verdict counts the rows of its own run: no other worker has begun to change
\* the table.
VerdictOnOwnRows ==
  [][\A i, j \in Runs : row[i].verdict # row'[i].verdict /\ Writing(j) => i = j]_vars
=============================================================================
