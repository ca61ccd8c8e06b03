------------------------------- MODULE Verify -------------------------------
(***************************************************************************)
(* Verification of migrated tables: exact counts of source and target, the *)
(* cache of source counts, the verdict, and the queue that works a batch.  *)
(*                                                                         *)
(* Three kinds of threads write one cache row: the queue's single worker,  *)
(* requests to the synchronous endpoint, and the loop of estimates.  Each  *)
(* upsert is a SELECT, a commit that writes the columns whose value the    *)
(* session saw change, and a read back; Oracle is counted before.  The     *)
(* queue and the batches' status live in the memory of the backend and are *)
(* gone when it ends; the cache and the runs are rows of the database.     *)
(***************************************************************************)
EXTENDS Integers, SequencesExt

CONSTANTS
  Tables,       \* migratable tables
  Strangers,    \* names a batch may carry that no table has
  Batches,      \* the names each batch carries that is posted, in order
  Posters,      \* requests that post batches
  Requests,     \* requests that verify one table synchronously
  Worker, Loop, \* the queue's thread, the loop of estimates
  Counts,       \* row counts, from 0
  TolRows, TolRatio,  \* what a streaming table may lag: rows, or one in so many
  MaxKept,      \* finished batches are dropped when more than this are known
  MaxOthers, MaxEvents,  \* bounds
  None

Actors == {Worker, Loop} \cup Requests

ASSUME VerifyAssumption ==
  /\ Tables \cap Strangers = {}
  /\ Batches \in Seq(Seq(Tables \cup Strangers)) /\ \A b \in DOMAIN Batches : Batches[b] # <<>>
  /\ Worker # Loop /\ {Worker, Loop} \cap Requests = {}
  /\ 0 \in Counts /\ Counts \subseteq Nat /\ None \notin Counts
  /\ TolRows \in Nat /\ TolRatio \in Nat \ {0} /\ MaxKept \in Nat
  /\ None \notin [count : Counts \cup {None}, mode : {"exact", "estimate", None}, status : {"ok", "stale"}]
  /\ None \notin [batch : Nat, started : BOOLEAN, rest : Seq(Tables \cup Strangers)]

VARIABLES
  source,     \* rows of each Oracle view
  target,     \* rows of each staging table, None when it does not exist
  streamed,   \* tables whose streaming is enabled
  cache,      \* row of each table's cached source count, or None
  runs,       \* the runs of each table's job, oldest first
  status,     \* the batches known, by number: what became of each name
  queue,      \* jobs <<batch, name>> waiting
  poster,     \* per posting request, the batch it is putting in the queue
  alive,      \* the worker's thread has been started
  actor,      \* per thread, how far it has come
  estimates,  \* counts the loop has read from Oracle's statistics, still to be saved
  counted,    \* history: what exact counts of each table have returned
  mixed,      \* history: tables of whose row two upserts have overlapped
  used        \* how much of each bound is used

memory == <<status, queue, poster, alive, actor, estimates>>
world == <<source, target, streamed>>
vars == <<world, cache, runs, memory, counted, mixed, used>>

Idle == [pc |-> "idle", table |-> None, batch |-> 0, run |-> 0, rows |-> None, count |-> None,
         row |-> None, quiet |-> TRUE]

At(a, pc) == actor[a].pc = pc

Use(b) == used' = [used EXCEPT ![b] = @ + 1]

(***************************************************************************)
(* The verdict.                                                            *)
(***************************************************************************)
Tolerance(t, count) ==
  IF t \notin streamed THEN 0
  ELSE LET ratio == IF count = None THEN 0 ELSE count \div TolRatio
       IN  IF ratio > TolRows THEN ratio ELSE TolRows

Near(m, n, tol) == m - n <= tol /\ n - m <= tol

Verdict(row, rows, tol) ==
  IF row = None THEN "PENDING"
  ELSE IF row.count = None THEN "PENDING"
  ELSE IF row.mode # "exact" THEN "ESTIMATE"
  ELSE IF rows = None THEN "PENDING"
  ELSE IF Near(row.count, rows, tol) THEN "MATCH" ELSE "MISMATCH"

\* the verdict the dashboard shows, from the cache and the latest run
Page(t) ==
  LET rows == IF runs[t] = <<>> THEN None ELSE Last(runs[t]).target
      count == IF cache[t] = None THEN None ELSE cache[t].count
  IN  Verdict(cache[t], rows, Tolerance(t, count))

(***************************************************************************)
(* The cache.                                                              *)
(***************************************************************************)
\* mutant: a failed count relabels the number it keeps
UpsertedRelabels(old, count, mode) ==
  [(IF old = None THEN [count |-> None, mode |-> None, status |-> "ok"] ELSE old)
   EXCEPT !.count = IF count = None THEN @ ELSE count,
          !.mode = mode,
          !.status = IF count = None THEN "stale" ELSE "ok"]

\* a count that failed keeps the number and how it was counted
Upserted(old, count, mode) ==
  LET row == IF old = None THEN [count |-> None, mode |-> None, status |-> "ok"] ELSE old
  IN  IF count = None THEN [row EXCEPT !.status = "stale"]
      ELSE [count |-> count, mode |-> mode, status |-> "ok"]

Mode(a) == IF a = Loop THEN "estimate" ELSE "exact"

\* what is written over a row that was seen: the columns that changed since
Written(now, seen, new) == [f \in DOMAIN new |-> IF new[f] # seen[f] THEN new[f] ELSE now[f]]

Saving(a, t) == actor[a].table = t /\ actor[a].pc \in {"commit", "refresh"}

\* the threads that are saving the row that a looks at
Beside(a) == {b \in Actors \ {a} : cache[actor[a].table] # None /\ Saving(b, actor[a].table)}

\* nothing keeps two upserts of one row from overlapping
Look(a) ==
  LET disturbed == IF Beside(a) = {} THEN {} ELSE Beside(a) \cup {a}
  IN  /\ At(a, "look")
      /\ actor' = [b \in Actors |->
                    [actor[b] EXCEPT !.row = IF b = a THEN cache[actor[a].table] ELSE @,
                                     !.pc = IF b = a THEN "commit" ELSE @,
                                     !.quiet = @ /\ b \notin disturbed]]
      /\ mixed' = IF disturbed = {} THEN mixed ELSE mixed \cup {actor[a].table}
      /\ UNCHANGED <<world, cache, runs, status, queue, poster, alive, estimates, counted, used>>

\* the first row of a table is inserted, unless another thread's was first
Commit(a) ==
  LET t == actor[a].table
      new == Upserted(actor[a].row, actor[a].count, Mode(a))
  IN  /\ At(a, "commit")
      /\ actor[a].row = None => cache[t] = None
      /\ cache' = [cache EXCEPT ![t] = IF actor[a].row = None THEN new ELSE Written(@, actor[a].row, new)]
      /\ actor' = [actor EXCEPT ![a] = [@ EXCEPT !.pc = "refresh"]]
      /\ UNCHANGED <<world, runs, status, queue, poster, alive, estimates, counted, mixed, used>>

(***************************************************************************)
(* One verify.                                                             *)
(***************************************************************************)
\* a name becomes what was found of it, unless its batch is no longer known
Noted(b, name, what) == IF b \in DOMAIN status THEN [status EXCEPT ![b][name] = what] ELSE status

\* a thread is done: the worker goes back to its queue
Rest(a, what) ==
  /\ actor' = [actor EXCEPT ![a] = Idle]
  /\ status' = IF a = Worker THEN Noted(actor[a].batch, actor[a].table, what) ELSE status

\* it starts with the run that is the latest now
Begun(name, b) ==
  IF name \in Tables THEN [Idle EXCEPT !.pc = "target", !.table = name, !.batch = b, !.run = Len(runs[name])]
  ELSE [Idle EXCEPT !.pc = "unknown", !.table = name, !.batch = b]

Request(a, t) ==
  /\ a \in Requests /\ At(a, "idle") /\ used.others < MaxOthers
  /\ actor' = [actor EXCEPT ![a] = Begun(t, 0)]
  /\ Use("others")
  /\ UNCHANGED <<world, cache, runs, status, queue, poster, alive, estimates, counted, mixed>>

\* a count that the database refuses is taken for a table that does not exist
CountTarget(a) ==
  /\ At(a, "target")
  /\ \E rows \in {target[actor[a].table], None} :
       /\ actor' = [actor EXCEPT ![a] = [@ EXCEPT !.rows = rows, !.pc = "source"]]
       /\ IF rows = target[actor[a].table] THEN UNCHANGED used
          ELSE used.events < MaxEvents /\ Use("events")
  /\ UNCHANGED <<world, cache, runs, status, queue, poster, alive, estimates, counted, mixed>>

CountSource(a) ==
  LET t == actor[a].table
  IN  /\ At(a, "source")
      /\ \/ /\ actor' = [actor EXCEPT ![a] = [@ EXCEPT !.count = source[t], !.pc = "look"]]
            /\ counted' = [counted EXCEPT ![t] = @ \cup {source[t]}]
            /\ UNCHANGED used
         \/ /\ used.events < MaxEvents /\ Use("events")
            /\ actor' = [actor EXCEPT ![a] = [@ EXCEPT !.pc = "look"]]
            /\ UNCHANGED counted
      /\ UNCHANGED <<world, cache, runs, status, queue, poster, alive, estimates, mixed>>

\* the row is read back after the commit
Refresh(a) ==
  /\ At(a, "refresh") /\ a # Loop
  /\ actor' = [actor EXCEPT ![a] = [@ EXCEPT !.row = cache[actor[a].table], !.pc = "record"]]
  /\ UNCHANGED <<world, cache, runs, status, queue, poster, alive, estimates, counted, mixed, used>>

Answer(a) ==
  LET row == actor[a].row
  IN  [rows |-> actor[a].rows, count |-> row.count, status |-> row.status,
       verdict |-> Verdict(row, actor[a].rows, Tolerance(actor[a].table, row.count))]

\* an official verdict goes on the run that was the latest when the verify began
Record(a) ==
  /\ At(a, "record")
  /\ runs' = IF actor[a].run # 0 /\ Answer(a).verdict \in {"MATCH", "MISMATCH"}
             THEN [runs EXCEPT ![actor[a].table][actor[a].run] =
                    [target |-> Answer(a).rows, source |-> IF Answer(a).status = "ok" THEN Answer(a).count ELSE None,
                     verdict |-> Answer(a).verdict, verified |-> TRUE]]
             ELSE runs
  /\ Rest(a, "done")
  /\ UNCHANGED <<world, cache, queue, poster, alive, estimates, counted, mixed, used>>

\* mutant: the exception ends the thread
FailEndsWorker(a) ==
  /\ actor[a].pc \notin {"idle", "unknown"}
  /\ used.events < MaxEvents /\ Use("events")
  /\ Rest(a, "error")
  /\ alive' = (alive /\ a # Worker)
  /\ estimates' = IF a = Loop THEN <<>> ELSE estimates
  /\ UNCHANGED <<world, cache, runs, queue, poster, counted, mixed>>

\* the database refuses a statement, or another thread inserted the row first
Fail(a) ==
  /\ actor[a].pc \notin {"idle", "unknown"}
  /\ \/ /\ At(a, "commit") /\ actor[a].row = None /\ cache[actor[a].table] # None
        /\ UNCHANGED used
     \/ used.events < MaxEvents /\ Use("events")
  /\ Rest(a, "error")
  /\ estimates' = IF a = Loop THEN <<>> ELSE estimates
  /\ UNCHANGED <<world, cache, runs, queue, poster, alive, counted, mixed>>

(***************************************************************************)
(* The loop of estimates.                                                  *)
(***************************************************************************)
\* one look at Oracle's statistics, which may say any number or nothing
Estimate ==
  /\ At(Loop, "idle") /\ estimates = <<>> /\ used.others < MaxOthers
  /\ estimates' \in [Tables -> Counts \cup {None}]
  /\ Use("others")
  /\ UNCHANGED <<world, cache, runs, status, queue, poster, alive, actor, counted, mixed>>

\* the tables are saved one by one
NextEstimate ==
  /\ At(Loop, "idle")
  /\ \E t \in DOMAIN estimates :
       /\ actor' = [actor EXCEPT ![Loop] = [Idle EXCEPT !.pc = "look", !.table = t, !.count = estimates[t]]]
       /\ estimates' = [u \in DOMAIN estimates \ {t} |-> estimates[u]]
  /\ UNCHANGED <<world, cache, runs, status, queue, poster, alive, counted, mixed, used>>

EndEstimate ==
  /\ At(Loop, "refresh")
  /\ Rest(Loop, None)
  /\ UNCHANGED <<world, cache, runs, queue, poster, alive, estimates, counted, mixed, used>>

(***************************************************************************)
(* The queue.                                                              *)
(***************************************************************************)
Finished(b, S) == \A name \in DOMAIN S[b] : S[b][name] \in {"done", "error"}

Restricted(S, D) == [b \in D |-> S[b]]

\* mutant: the oldest go first, finished or not
EvictOldest(S) == Restricted(S, {b \in DOMAIN S : Cardinality({c \in DOMAIN S : c >= b}) <= MaxKept})

\* the oldest finished ones go, until so many are known or none is finished
Evict(S) ==
  LET over == Cardinality(DOMAIN S) - MaxKept
      ended == {b \in DOMAIN S : Finished(b, S)}
      gone == {b \in ended : Cardinality({c \in ended : c <= b}) <= over}
  IN  Restricted(S, DOMAIN S \ gone)

\* a repeated name counts once, where it came first
Noticed(seen, name) == IF name \in ToSet(seen) THEN seen ELSE Append(seen, name)

Seen(names) == FoldLeft(Noticed, <<>>, names)

\* the batch is registered, and old ones dropped, in one hold of the lock
Post(p) ==
  /\ poster[p] = None /\ used.posts < Len(Batches)
  /\ LET b == used.posts + 1
         names == Seen(Batches[b])
     IN  /\ status' = Evict([c \in DOMAIN status \cup {b} |->
                              IF c = b THEN [name \in ToSet(names) |-> "queued"] ELSE status[c]])
         /\ poster' = [poster EXCEPT ![p] = [batch |-> b, started |-> FALSE, rest |-> names]]
  /\ Use("posts")
  /\ UNCHANGED <<world, cache, runs, queue, alive, actor, estimates, counted, mixed>>

EnsureWorker(p) ==
  /\ poster[p] # None /\ ~poster[p].started
  /\ alive' = TRUE
  /\ poster' = [poster EXCEPT ![p].started = TRUE]
  /\ UNCHANGED <<world, cache, runs, status, queue, actor, estimates, counted, mixed, used>>

\* names are put one by one
Put(p) ==
  /\ poster[p] # None /\ poster[p].started
  /\ LET rest == Tail(poster[p].rest)
     IN  /\ queue' = Append(queue, <<poster[p].batch, Head(poster[p].rest)>>)
         /\ poster' = [poster EXCEPT ![p] = IF rest = <<>> THEN None ELSE [@ EXCEPT !.rest = rest]]
  /\ UNCHANGED <<world, cache, runs, status, alive, actor, estimates, counted, mixed, used>>

Take ==
  /\ alive /\ At(Worker, "idle") /\ queue # <<>>
  /\ LET b == Head(queue)[1]
         name == Head(queue)[2]
     IN  /\ actor' = [actor EXCEPT ![Worker] = Begun(name, b)]
         /\ status' = Noted(b, name, "running")
  /\ queue' = Tail(queue)
  /\ UNCHANGED <<world, cache, runs, poster, alive, estimates, counted, mixed, used>>

Unknown ==
  /\ At(Worker, "unknown")
  /\ Rest(Worker, "error")
  /\ UNCHANGED <<world, cache, runs, queue, poster, alive, estimates, counted, mixed, used>>

(***************************************************************************)
(* What happens around it.                                                 *)
(***************************************************************************)
Moves(t) ==
  /\ used.events < MaxEvents /\ Use("events")
  /\ actor' = [a \in Actors |-> IF actor[a].table = t THEN [actor[a] EXCEPT !.quiet = FALSE] ELSE actor[a]]
  /\ UNCHANGED <<streamed, cache, runs, status, queue, poster, alive, estimates, counted, mixed>>

SourceGrows(t) ==
  /\ source[t] + 1 \in Counts
  /\ source' = [source EXCEPT ![t] = @ + 1]
  /\ UNCHANGED target
  /\ Moves(t)

\* rows are copied, or a reload empties the table first
TargetLoads(t) ==
  /\ \E n \in {0, source[t]} \ {target[t]} : target' = [target EXCEPT ![t] = n]
  /\ UNCHANGED source
  /\ Moves(t)

StartRun(t) ==
  /\ used.events < MaxEvents /\ Use("events")
  /\ runs' = [runs EXCEPT ![t] = Append(@, [target |-> None, source |-> None, verdict |-> None, verified |-> FALSE])]
  /\ UNCHANGED <<world, cache, memory, counted, mixed>>

\* the run's worker counts the table and compares it with what ora2pg reported
FinishRun(t) ==
  /\ runs[t] # <<>> /\ Last(runs[t]).target = None /\ target[t] # None
  /\ runs' = [runs EXCEPT ![t][Len(runs[t])] =
        [@ EXCEPT !.target = target[t], !.source = source[t],
                  !.verdict = IF target[t] = source[t] THEN "MATCH" ELSE "MISMATCH"]]
  /\ UNCHANGED <<world, cache, memory, counted, mixed, used>>

\* the backend ends and starts again
Crash ==
  /\ used.events < MaxEvents /\ Use("events")
  /\ status' = <<>> /\ queue' = <<>> /\ poster' = [p \in Posters |-> None]
  /\ alive' = FALSE /\ actor' = [a \in Actors |-> Idle] /\ estimates' = <<>>
  /\ UNCHANGED <<world, cache, runs, counted, mixed>>

Init ==
  /\ source \in [Tables -> Counts] /\ target \in [Tables -> Counts \cup {None}]
  /\ streamed \in SUBSET Tables
  /\ cache = [t \in Tables |-> None] /\ runs = [t \in Tables |-> <<>>]
  /\ status = <<>> /\ queue = <<>> /\ poster = [p \in Posters |-> None]
  /\ alive = FALSE /\ actor = [a \in Actors |-> Idle] /\ estimates = <<>>
  /\ counted = [t \in Tables |-> {}] /\ mixed = {}
  /\ used = [posts |-> 0, others |-> 0, events |-> 0]

Step(a) ==
  \/ CountTarget(a) \/ CountSource(a) \/ Look(a) \/ Commit(a) \/ Refresh(a) \/ Record(a)
  \/ Fail(a)

Queue == Take \/ Unknown \/ \E p \in Posters : Post(p) \/ EnsureWorker(p) \/ Put(p)

Estimating == Estimate \/ NextEstimate \/ EndEstimate

Around ==
  \/ \E t \in Tables : SourceGrows(t) \/ TargetLoads(t) \/ StartRun(t) \/ FinishRun(t)
  \/ Crash

Next ==
  \/ \E a \in Actors : Step(a)
  \/ \E a \in Requests, t \in Tables : Request(a, t)
  \/ Queue \/ Estimating \/ Around

Spec == Init /\ [][Next]_vars

\* the threads run on: each step of a verify ends, and a request puts all its names
Fairness ==
  /\ \A a \in Actors : WF_vars(Step(a))
  /\ WF_vars(Take) /\ WF_vars(Unknown) /\ WF_vars(EndEstimate)
  /\ \A p \in Posters : WF_vars(EnsureWorker(p)) /\ WF_vars(Put(p))

FairSpec == Spec /\ Fairness

-----------------------------------------------------------------------------
(***************************************************************************)
(* Properties.                                                             *)
(***************************************************************************)
\* A verify says MATCH or MISMATCH only of a number that an exact count of the
\* view returned, unless two threads have saved the table's count at once; and when
\* both counts were answered, no row moved while it ran and no other thread was
\* saving the table's count beside it, it says what is true of the two tables.
OfficialVerdictIsTrue ==
  [][\A a \in Actors : Record(a) =>
       LET t == actor[a].table
           said == Answer(a).verdict
           true == IF target[t] = None THEN "PENDING"
                   ELSE IF Near(source[t], target[t], Tolerance(t, source[t])) THEN "MATCH" ELSE "MISMATCH"
       IN  /\ said \in {"MATCH", "MISMATCH"} /\ t \notin mixed => Answer(a).count \in counted[t]
           /\ (actor[a].count # None /\ actor[a].quiet /\ (actor[a].rows = None => target[t] = None)) =>
                said = true]_vars

\* Every name of every batch that is known is in one place: on its way to the
\* queue or in it, with the worker, or ended; and no job is left whose batch was
\* dropped, so the status a page polls always comes to an end.
JobsAccounted ==
  LET places(j) == Cardinality({i \in DOMAIN queue : queue[i] = j})
                   + Cardinality({p \in Posters : poster[p] # None /\ poster[p].batch = j[1] /\ j[2] \in ToSet(poster[p].rest)})
      held(j) == ~At(Worker, "idle") /\ actor[Worker].batch = j[1] /\ actor[Worker].table = j[2]
  IN  /\ \A b \in DOMAIN status : \A name \in DOMAIN status[b] :
            /\ places(<<b, name>>) = IF status[b][name] = "queued" THEN 1 ELSE 0
            /\ held(<<b, name>>) <=> status[b][name] = "running"
      /\ \A j \in ToSet(queue) : j[1] \in DOMAIN status
      /\ At(Worker, "idle") \/ actor[Worker].batch \in DOMAIN status

\* A batch that was posted ends, whatever fails in it, unless the backend does.
BatchesEnd ==
  \A b \in DOMAIN Batches : (b \in DOMAIN status) ~> (b \notin DOMAIN status \/ Finished(b, status))

\* The dashboard shows no MISMATCH before a verify of the latest run (a comment
\* in list_tables; false, a run's own count meets an older exact count).
MismatchIsVerified == \A t \in Tables : Page(t) = "MISMATCH" => Last(runs[t]).verified

\* What the docstring of the verify endpoint says: where Oracle cannot be counted
\* the verdict is no MISMATCH (false, an exact count of before still stands).
NoFakeMismatch ==
  [][\A a \in Actors : Record(a) /\ actor[a].count = None => Answer(a).verdict # "MISMATCH"]_vars
=============================================================================
