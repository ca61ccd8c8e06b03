----------------------------- MODULE Streaming -----------------------------
(***************************************************************************)
(* Watermark streaming of one migrated table: streaming_service.run_cycle, *)
(* the pull it makes through ora2pg (ora2pg_runner.streaming_pull_once)    *)
(* and the stored cursor streaming_configs.last_watermark[_time].          *)
(*                                                                         *)
(* A cycle is not atomic.  It loads the configuration row, may initialise  *)
(* the cursor from the target's MAX, lets ora2pg read one Oracle snapshot  *)
(* of the rows the predicate selects, has them inserted row by row in any  *)
(* order (JOBS 4) with ON CONFLICT DO NOTHING, reads the target's MAX      *)
(* again and commits the cursor.  Cycles are run by the poll loop and by   *)
(* the request threads of POST /streaming/run-once; nothing excludes two   *)
(* of them on the same table.  An ora2pg exec is not killed when the       *)
(* backend loses its stream or dies: its rows keep arriving (orphan).      *)
(*                                                                         *)
(* Without a key or a marker (Case B) a cycle copies the whole view into   *)
(* <target>_new and swaps it in.  That table has a fixed name: two cycles, *)
(* and copies left behind (stray), write into the same one.                *)
(*                                                                         *)
(* The configuration is fixed here; StreamingConfig adds the operations    *)
(* that edit it.                                                           *)
(***************************************************************************)
EXTENDS Integers, FiniteSets

CONSTANTS Keys,       \* primary keys (or ids) rows may have
          Loop,       \* the poll loop
          Callers,    \* request threads that POST run-once
          Markers,    \* watermark settings the table may have
          Lookback,   \* streaming_configs.lookback_days
          Lag,        \* days a row's UPMJ may trail the day it becomes visible
          YearDays,   \* days of a year
          MaxDay,     \* bound: last day of the calendar
          MaxTime,    \* bound: last time of day
          MaxFaults,  \* bound: failed pulls and backend crashes
          ExitKnown,  \* Docker knows the exit code when the output stream ends
          None        \* SQL NULL

Workers == {Loop} \cup Callers
MarkerKinds == {"none", "day", "timestamp", "sequence"}

Row == [key : Keys, day : Nat, time : Nat, seq : Nat]
NatOrNull == Nat \cup {None}
TempTable == [rows : SUBSET Row, uniq : BOOLEAN, dup : BOOLEAN]

ASSUME NoneAssumption == None \notin Int /\ None \notin TempTable
ASSUME YearAssumption == YearDays \in 1..999
ASSUME BoundAssumption == MaxDay \in Nat /\ MaxTime \in Nat /\ MaxFaults \in Nat
ASSUME ExitAssumption == ExitKnown \in BOOLEAN
ASSUME MarkerAssumption == Markers \subseteq MarkerKinds
\* Rows become visible in id order, and no later than the lookback covers.
ASSUME LagAssumption ==
  /\ Lag \in Nat /\ Lookback \in Nat /\ Lag <= Lookback
  /\ "timestamp" \in Markers => Lag = 0

VARIABLES now,      \* Oracle's clock: number of the day, time of day (UPMT)
          seqGen,   \* last id (UKID) Oracle handed out
          src,      \* rows the V2_PRO_ view shows
          loaded,   \* mdp_staging.<target> exists
          tgt,      \* its rows
          uniq,     \* its unique index ux_<target>_pk exists
          dup,      \* it holds one key twice
          temp,     \* mdp_staging.<target>_new: its rows, unique index, a key twice
          stray,    \* rows of abandoned execs that copy into <target>_new
          cfg,      \* the table's streaming_configs row
          jobPk,    \* migration_jobs.primary_key_columns is set
          cyc,      \* cyc[w]: the cycle worker w is in
          orphan,   \* rows of abandoned execs that insert into the target
          faults    \* failures so far

oracle == <<now, seqGen, src>>
staging == <<loaded, tgt, uniq, dup, temp, stray>>
vars == <<oracle, staging, cfg, jobPk, cyc, orphan, faults>>

KeysOf(S) == {r.key : r \in S}

\* What JDE stamps a row with on day n (UPMJ): CYYDDD, the year and the day of it.
Julian(n) == 1000 * (n \div YearDays) + (n % YearDays) + 1
Year(upmj) == upmj \div 1000

-----------------------------------------------------------------------------
(* Which rows a cycle pulls, and where the next one resumes. *)

\* upsert_key_for: a real PK, else a sequence marker is its own key; without
\* a key, or without a marker, the table is fully reloaded (Case B).
HasUpsertKey(marker, pk) == marker # "none" /\ (pk \/ marker = "sequence")

WatermarkOf(marker, r) == IF marker = "sequence" THEN r.seq ELSE r.day
TimeOf(t) == IF t = None THEN 0 ELSE t

\* Mutant of Eligible: ">" for ">=" and no lookback.
EligibleStrict(marker, r, d, t) ==
  \/ marker \in {"sequence", "day"} /\ WatermarkOf(marker, r) > d
  \/ marker = "timestamp" /\ \/ r.day > d
                             \/ r.day = d /\ r.time > TimeOf(t)

\* The WHERE predicate of one pull, for a cursor (d, t).  The lookback is plain
\* integer subtraction from a CYYDDD number: it does not reach into the year before.
Eligible(marker, r, d, t) ==
  \/ marker = "sequence" /\ r.seq > d
  \/ marker = "day" /\ r.day >= d - Lookback
  \/ marker = "timestamp" /\ \/ r.day > d
                             \/ r.day = d /\ r.time >= TimeOf(t)

\* Mutant of TargetMax: the ORDER BY is missing.
TargetAny(marker) ==
  IF tgt = {} THEN {[d |-> None, t |-> None]}
  ELSE {[d |-> WatermarkOf(marker, r),
         t |-> IF marker = "timestamp" THEN r.time ELSE None] : r \in tgt}

\* What target_max_watermark returns: NULLs for an empty table, else the
\* greatest marker, paired with the time of one of its rows: not always the
\* latest, the target may hold times as text and "93000" sorts after "120000".
TargetMax(marker) ==
  IF tgt = {} THEN {[d |-> None, t |-> None]}
  ELSE {[d |-> WatermarkOf(marker, r),
         t |-> IF marker = "timestamp" THEN r.time ELSE None] :
           r \in {q \in tgt : \A p \in tgt : WatermarkOf(marker, p) <= WatermarkOf(marker, q)}}

\* Mutant of Conflicts: the pull forgets INSERT_ON_CONFLICT.
NeverConflicts(r) == FALSE

\* INSERT ... ON CONFLICT DO NOTHING skips an existing key, as long as there
\* is a unique index to conflict with.
Conflicts(r) == uniq /\ r.key \in KeysOf(tgt)

Insert(r) ==
  /\ IF Conflicts(r) THEN UNCHANGED <<tgt, dup>>
     ELSE tgt' = tgt \cup {r} /\ dup' = (dup \/ r.key \in KeysOf(tgt))
  /\ UNCHANGED <<loaded, uniq, temp, stray>>

-----------------------------------------------------------------------------
(* States. *)

Idle == [pc |-> "idle", base |-> None, wm |-> None, wmTime |-> None,
         pk |-> FALSE, pending |-> {}]

Config == [enabled : BOOLEAN, marker : MarkerKinds, pk : BOOLEAN,
           wm : NatOrNull, wmTime : NatOrNull]

Cycle == [pc : {"idle", "init", "pull", "insert", "advance",
                "copy", "fill", "load", "swap", "finish"},
          base : Config \cup {None}, wm : NatOrNull, wmTime : NatOrNull,
          pk : BOOLEAN, pending : SUBSET Row]

\* Every variable has its type, and a cycle that pulls has a cursor to put in
\* its predicate (run_cycle's "0" for an empty target).
TypeOK ==
  /\ now \in [day : 0..MaxDay, time : 0..MaxTime] /\ seqGen \in Nat
  /\ src \in SUBSET Row /\ tgt \in SUBSET Row
  /\ loaded \in BOOLEAN /\ uniq \in BOOLEAN /\ dup \in BOOLEAN
  /\ temp \in TempTable \cup {None} /\ stray \in SUBSET Row
  /\ cfg \in Config /\ jobPk \in BOOLEAN
  /\ cyc \in [Workers -> Cycle]
  /\ \A w \in Workers :
       /\ cyc[w].pc # "idle" => cyc[w].base \in Config
       /\ cyc[w].pc \in {"pull", "insert", "advance"} => cyc[w].wm \in Nat
  /\ orphan \in SUBSET Row /\ faults \in 0..MaxFaults

\* A view that holds one row, id 1, inserted at this moment of day 0.
StartOracle ==
  /\ \E t \in 0..MaxTime, k \in Keys :
       /\ now = [day |-> 0, time |-> t]
       /\ src = {[key |-> k, day |-> Julian(0), time |-> t, seq |-> 1]}
  /\ seqGen = 1

StartCycles ==
  /\ cyc = [w \in Workers |-> Idle] /\ orphan = {} /\ faults = 0 /\ dup = FALSE
  /\ temp = None /\ stray = {}

\* A new configuration row: no cursor, the table not migrated yet.
InitFresh ==
  /\ StartOracle /\ StartCycles
  /\ loaded = FALSE /\ tgt = {} /\ uniq = FALSE /\ jobPk \in BOOLEAN
  /\ \E m \in Markers :
       cfg = [enabled |-> TRUE, marker |-> m, pk |-> FALSE, wm |-> None, wmTime |-> None]

\* A table that streams: its full load and its first cycle are behind it; its
\* key may have been seeded at the last restart and not be copied yet.
InitStreaming ==
  /\ StartOracle /\ StartCycles
  /\ loaded = TRUE /\ tgt = src /\ uniq = TRUE /\ jobPk \in BOOLEAN
  /\ \E m \in Markers, copied \in {jobPk, FALSE} : \E top \in TargetMax(m) :
       /\ HasUpsertKey(m, jobPk)
       /\ cfg = [enabled |-> TRUE, marker |-> m, pk |-> copied,
                 wm |-> top.d, wmTime |-> top.t]

-----------------------------------------------------------------------------
(* Oracle: the clock, rows becoming visible, rows being updated.  A row    *)
(* gets its id when it is inserted; an update restamps day and time only.  *)

Tick ==
  /\ \/ now.time < MaxTime /\ now' = [now EXCEPT !.time = @ + 1]
     \/ now.day < MaxDay /\ now' = [day |-> now.day + 1, time |-> 0]
  /\ UNCHANGED <<seqGen, src, staging, cfg, jobPk, cyc, orphan, faults>>

\* The stamps a row becoming visible now may have.
VisibleDays == {Julian(d) : d \in {n \in 0..now.day : n >= now.day - Lag}}

InsertRow(k) ==
  /\ k \notin KeysOf(src)
  /\ seqGen' = seqGen + 1
  /\ \E d \in VisibleDays :
       src' = src \cup {[key |-> k, day |-> d, time |-> now.time, seq |-> seqGen + 1]}
  /\ UNCHANGED <<now, staging, cfg, jobPk, cyc, orphan, faults>>

UpdateRow(r) ==
  /\ \E d \in VisibleDays :
       /\ d >= r.day
       /\ src' = (src \ {r}) \cup {[r EXCEPT !.day = d, !.time = now.time]}
  /\ UNCHANGED <<now, seqGen, staging, cfg, jobPk, cyc, orphan, faults>>

Oracle == Tick \/ (\E k \in Keys : InsertRow(k)) \/ (\E r \in src : UpdateRow(r))

\* The initial full load (ora2pg_runner._worker), by its successful outcome.
InitialLoad ==
  /\ ~loaded
  /\ loaded' = TRUE /\ tgt' = src /\ uniq' = jobPk /\ dup' = FALSE
  /\ UNCHANGED <<oracle, temp, stray, cfg, jobPk, cyc, orphan, faults>>

-----------------------------------------------------------------------------
(* One cycle of worker w. *)

Goto(w, pc) == cyc' = [cyc EXCEPT ![w].pc = pc]

\* run_cycle up to its first decision.  run-once forces a disabled table; the
\* poll loop skips it.  The session keeps the row it loaded as base.
Begin(w) ==
  /\ cyc[w].pc = "idle"
  /\ cfg.enabled \/ w \in Callers
  /\ LET pk    == jobPk \/ cfg.pk
         caseA == HasUpsertKey(cfg.marker, pk)
     IN  cyc' = [cyc EXCEPT ![w] =
                   [pc |-> IF ~caseA THEN "copy"
                           ELSE IF ~loaded THEN "finish"
                           ELSE IF cfg.wm = None THEN "init" ELSE "pull",
                    base |-> cfg, wm |-> cfg.wm, wmTime |-> cfg.wmTime,
                    pk |-> pk, pending |-> {}]]
  /\ UNCHANGED <<oracle, staging, cfg, jobPk, orphan, faults>>

\* Mutant of InitCursor: the default "0" is missing.
InitCursorNull(w) ==
  /\ cyc[w].pc = "init"
  /\ \E top \in TargetMax(cyc[w].base.marker) \cup {[d |-> None, t |-> None]} :
       cyc' = [cyc EXCEPT ![w].pc = "pull", ![w].wm = top.d, ![w].wmTime = top.t]
  /\ UNCHANGED <<oracle, staging, cfg, jobPk, orphan, faults>>

\* No cursor yet: start from the target's MAX, or from 0 when the target is
\* empty or the query fails.
InitCursor(w) ==
  /\ cyc[w].pc = "init"
  /\ \E top \in TargetMax(cyc[w].base.marker) \cup {[d |-> None, t |-> None]} :
       cyc' = [cyc EXCEPT ![w].pc = "pull",
                          ![w].wm = IF top.d = None THEN 0 ELSE top.d,
                          ![w].wmTime = top.t]
  /\ UNCHANGED <<oracle, staging, cfg, jobPk, orphan, faults>>

Selected(w) == {r \in src : Eligible(cyc[w].base.marker, r, cyc[w].wm, cyc[w].wmTime)}

\* Mutant of Pull: the unique index is not ensured.
PullWithoutIndex(w) ==
  /\ cyc[w].pc = "pull"
  /\ cyc' = [cyc EXCEPT ![w] = [@ EXCEPT !.pc = "insert", !.pending = Selected(w)]]
  /\ UNCHANGED <<oracle, staging, cfg, jobPk, orphan, faults>>

\* Mutant of Pull: build_ora2pg_conf's default TRUNCATE_TABLE 1.
PullTruncating(w) ==
  /\ cyc[w].pc = "pull"
  /\ uniq' = TRUE /\ tgt' = {} /\ dup' = FALSE
  /\ cyc' = [cyc EXCEPT ![w] = [@ EXCEPT !.pc = "insert", !.pending = Selected(w)]]
  /\ UNCHANGED <<oracle, loaded, temp, stray, cfg, jobPk, orphan, faults>>

\* The unique index is ensured, then ora2pg opens its cursor: one consistent
\* Oracle snapshot of the predicate.  On a target that holds a key twice the
\* index cannot be built, and the cycle ends with that error.
Pull(w) ==
  /\ cyc[w].pc = "pull"
  /\ uniq' = (uniq \/ ~dup)
  /\ cyc' = [cyc EXCEPT ![w] =
               IF dup THEN [@ EXCEPT !.pc = "finish"]
               ELSE [@ EXCEPT !.pc = "insert", !.pending = Selected(w)]]
  /\ UNCHANGED <<oracle, loaded, tgt, dup, temp, stray, cfg, jobPk, orphan, faults>>

\* One row of the pull is committed to the target.
InsertPulled(w) ==
  /\ cyc[w].pc = "insert"
  /\ \E r \in cyc[w].pending :
       Insert(r) /\ cyc' = [cyc EXCEPT ![w].pending = @ \ {r}]
  /\ UNCHANGED <<oracle, cfg, jobPk, orphan, faults>>

\* ora2pg ends with exit code 0.
PullDone(w) ==
  /\ cyc[w].pc = "insert" /\ cyc[w].pending = {}
  /\ Goto(w, "advance")
  /\ UNCHANGED <<oracle, staging, cfg, jobPk, orphan, faults>>

\* The pull fails before or after it inserted rows; when only its stream is
\* lost, ora2pg itself goes on.
PullFails(w) ==
  /\ cyc[w].pc \in {"pull", "insert"}
  /\ faults < MaxFaults /\ faults' = faults + 1
  /\ cyc' = [cyc EXCEPT ![w].pc = "finish", ![w].pending = {}]
  /\ orphan' = orphan \cup cyc[w].pending
  /\ UNCHANGED <<oracle, staging, cfg, jobPk>>

\* The stream ends while ora2pg still runs or just died: exec_inspect has no
\* exit code, and streaming_pull_once takes None for success.
PullUnseen(w) ==
  /\ ~ExitKnown /\ cyc[w].pc = "insert"
  /\ faults < MaxFaults /\ faults' = faults + 1
  /\ cyc' = [cyc EXCEPT ![w].pc = "advance", ![w].pending = {}]
  /\ orphan' = orphan \cup cyc[w].pending
  /\ UNCHANGED <<oracle, staging, cfg, jobPk>>

\* After a successful pull the cursor becomes the target's MAX; a query that
\* fails or an empty target leave it.
Advance(w) ==
  /\ cyc[w].pc = "advance"
  /\ \E top \in TargetMax(cyc[w].base.marker) \cup {[d |-> None, t |-> None]} :
       cyc' = [cyc EXCEPT ![w].pc = "finish",
                 ![w].wm = IF top.d = None THEN @ ELSE top.d,
                 ![w].wmTime = IF top.d # None /\ cyc[w].base.marker = "timestamp"
                               THEN top.t ELSE @]
  /\ UNCHANGED <<oracle, staging, cfg, jobPk, orphan, faults>>

\* Case B: full_reload_once.  Module FullReload has it step by step; what is kept
\* here is that <target>_new belongs to whoever writes to it.
CreateTemp(w) ==
  /\ cyc[w].pc = "copy"
  /\ temp' = [rows |-> {}, uniq |-> cyc[w].pk, dup |-> FALSE]
  /\ Goto(w, "fill")
  /\ UNCHANGED <<oracle, loaded, tgt, uniq, dup, stray, cfg, jobPk, orphan, faults>>

\* ora2pg truncates its table and opens one snapshot of the view ...
CopyAll(w) ==
  /\ cyc[w].pc = "fill" /\ temp # None
  /\ temp' = [temp EXCEPT !.rows = {}, !.dup = FALSE]
  /\ cyc' = [cyc EXCEPT ![w] = [@ EXCEPT !.pc = "load", !.pending = src]]
  /\ UNCHANGED <<oracle, loaded, tgt, uniq, dup, stray, cfg, jobPk, orphan, faults>>

\* A row finds its table gone, or its key there and a unique index.
Blocked(r) == IF temp = None THEN TRUE ELSE temp.uniq /\ r.key \in KeysOf(temp.rows)

Load(r) ==
  /\ ~Blocked(r)
  /\ temp' = [temp EXCEPT !.rows = @ \cup {r}, !.dup = @ \/ r.key \in KeysOf(temp.rows)]
  /\ UNCHANGED <<loaded, tgt, uniq, dup>>

LoadRow(w) ==
  /\ cyc[w].pc = "load"
  /\ \E r \in cyc[w].pending :
       Load(r) /\ cyc' = [cyc EXCEPT ![w].pending = @ \ {r}]
  /\ UNCHANGED <<oracle, stray, cfg, jobPk, orphan, faults>>

CopyDone(w) ==
  /\ cyc[w].pc = "load" /\ cyc[w].pending = {}
  /\ Goto(w, "swap")
  /\ UNCHANGED <<oracle, staging, cfg, jobPk, orphan, faults>>

\* ... and what is in <target>_new by then, whoever wrote it, is swapped in.
SwapAll(w) ==
  /\ cyc[w].pc = "swap" /\ temp # None
  /\ loaded' = TRUE /\ tgt' = temp.rows /\ uniq' = temp.uniq /\ dup' = temp.dup
  /\ temp' = None
  /\ Goto(w, "finish")
  /\ UNCHANGED <<oracle, stray, cfg, jobPk, orphan, faults>>

\* The exec breaks off, there is nothing to rename, or the guard counted an empty
\* copy, a step before the swap: <target>_new is dropped, whoever is writing to it.
ReloadBreaks(w) ==
  /\ \/ cyc[w].pc = "fill" /\ temp = None
     \/ cyc[w].pc = "load" /\ \E r \in cyc[w].pending : Blocked(r)
     \/ cyc[w].pc = "swap" /\ (IF temp = None THEN TRUE ELSE temp.rows = {})
  /\ temp' = None
  /\ cyc' = [cyc EXCEPT ![w] = [@ EXCEPT !.pc = "finish", !.pending = {}]]
  /\ UNCHANGED <<oracle, loaded, tgt, uniq, dup, stray, cfg, jobPk, orphan, faults>>

\* Any step fails; when only the stream of the copy is lost, ora2pg itself goes on.
ReloadFails(w) ==
  /\ cyc[w].pc \in {"copy", "fill", "load", "swap"}
  /\ faults < MaxFaults /\ faults' = faults + 1
  /\ temp' = None /\ stray' = stray \cup cyc[w].pending
  /\ cyc' = [cyc EXCEPT ![w] = [@ EXCEPT !.pc = "finish", !.pending = {}]]
  /\ UNCHANGED <<oracle, loaded, tgt, uniq, dup, cfg, jobPk, orphan>>

\* As PullUnseen: no exit code counts as success.
CopyUnseen(w) ==
  /\ ~ExitKnown /\ cyc[w].pc = "load"
  /\ faults < MaxFaults /\ faults' = faults + 1
  /\ stray' = stray \cup cyc[w].pending
  /\ cyc' = [cyc EXCEPT ![w] = [@ EXCEPT !.pc = "swap", !.pending = {}]]
  /\ UNCHANGED <<oracle, loaded, tgt, uniq, dup, temp, cfg, jobPk, orphan>>

\* _finish commits the row; SQLAlchemy writes a column only when its value
\* differs from the one the session loaded.
Finish(w) ==
  /\ cyc[w].pc = "finish"
  /\ LET base == cyc[w].base
     IN  cfg' = [cfg EXCEPT
                   !.pk     = @ \/ (cyc[w].pk /\ ~base.pk),
                   !.wm     = IF cyc[w].wm # base.wm THEN cyc[w].wm ELSE @,
                   !.wmTime = IF cyc[w].wmTime # base.wmTime THEN cyc[w].wmTime ELSE @]
  /\ cyc' = [cyc EXCEPT ![w] = Idle]
  /\ UNCHANGED <<oracle, staging, jobPk, orphan, faults>>

Reload(w) ==
  \/ CreateTemp(w) \/ CopyAll(w) \/ LoadRow(w) \/ CopyDone(w) \/ SwapAll(w)
  \/ ReloadBreaks(w) \/ ReloadFails(w) \/ CopyUnseen(w)

Work(w) ==
  \/ Begin(w) \/ InitCursor(w) \/ Pull(w) \/ InsertPulled(w) \/ PullDone(w) \/ PullFails(w)
  \/ PullUnseen(w) \/ Advance(w) \/ Reload(w) \/ Finish(w)

-----------------------------------------------------------------------------
(* The ora2pg container outlives the backend. *)

\* What the cycles in phase pc have still on its way.
Sent(pc) == UNION {cyc[w].pending : w \in {v \in Workers : cyc[v].pc = pc}}

\* The backend dies: cycles and their uncommitted cursors are lost, the
\* inserts of their ora2pg execs are not.
LoseCycles ==
  /\ faults < MaxFaults /\ faults' = faults + 1
  /\ cyc' = [w \in Workers |-> Idle]
  /\ orphan' = orphan \cup Sent("insert") /\ stray' = stray \cup Sent("load")
  /\ UNCHANGED <<oracle, loaded, tgt, uniq, dup, temp, cfg>>

Crash == LoseCycles /\ UNCHANGED jobPk

OrphanInsert ==
  /\ loaded
  /\ \E r \in orphan : Insert(r) /\ orphan' = orphan \ {r}
  /\ UNCHANGED <<oracle, cfg, jobPk, cyc, faults>>

OrphanDies ==
  /\ orphan # {} /\ orphan' = {}
  /\ UNCHANGED <<oracle, staging, cfg, jobPk, cyc, faults>>

StrayLoad ==
  /\ \E r \in stray : Load(r) /\ stray' = stray \ {r}
  /\ UNCHANGED <<oracle, cfg, jobPk, cyc, orphan, faults>>

\* By itself, or because it finds its table gone or its key there.
StrayDies ==
  /\ stray # {} /\ stray' = {}
  /\ UNCHANGED <<oracle, loaded, tgt, uniq, dup, temp, cfg, jobPk, cyc, orphan, faults>>

Container == OrphanInsert \/ OrphanDies \/ StrayLoad \/ StrayDies

Next == Oracle \/ InitialLoad \/ (\E w \in Workers : Work(w)) \/ Crash \/ Container

Spec == InitStreaming /\ [][Next]_vars

\* From a configuration row nobody has streamed with yet.
FreshSpec == InitFresh /\ [][Next]_vars

\* The poll loop is an asyncio task that sleeps a bounded interval and runs
\* its cycles to their end: it keeps taking steps, and failures are finite.
FairSpec == Spec /\ WF_vars(Work(Loop))

-----------------------------------------------------------------------------
(* Properties. *)

\* The rows a day marker gives up: stamped late, in a year that ended before the
\* day of the cursor.
PassedOver(marker, r, d) == marker = "day" /\ Lag > 0 /\ Year(r.day) < Year(d)

\* Every row of the view is in the target or selected by the predicate of the
\* next cycle: what the committed cursor has passed is never lost ...
NoMissedRow ==
  cfg.wm # None =>
    \A r \in src : \/ r.key \in KeysOf(tgt)
                   \/ Eligible(cfg.marker, r, cfg.wm, cfg.wmTime)
                   \/ PassedOver(cfg.marker, r, cfg.wm)

\* ... at a year boundary neither, if "a year-boundary cutoff merely over-pulls a
\* few rows" (build_streaming_predicate).
NoMissedRowAtNewYear ==
  cfg.wm # None =>
    \A r \in src : r.key \in KeysOf(tgt) \/ Eligible(cfg.marker, r, cfg.wm, cfg.wmTime)

\* Weaker: such a row may also be on its way in some ora2pg exec.
NoLostRow ==
  cfg.wm # None =>
    \A r \in src : \/ r.key \in KeysOf(tgt)
                   \/ Eligible(cfg.marker, r, cfg.wm, cfg.wmTime)
                   \/ PassedOver(cfg.marker, r, cfg.wm)
                   \/ r.key \in KeysOf(orphan \cup Sent("insert"))

\* A table that has a key, or an id for one, never holds a key twice: not by rows
\* that are pulled again, not by copies that meet in one <target>_new.
NoDuplicates == jobPk \/ cfg.marker = "sequence" => ~dup

\* The committed cursor never moves backwards: run_cycle only ever replaces
\* it by the MAX of a target that grows.
CursorNeverRegresses ==
  [][cfg.wm # None /\ cfg'.wm # None => cfg'.wm >= cfg.wm]_vars

Target == INSTANCE Replica WITH source <- KeysOf(src), replica <- KeysOf(tgt)

\* The target only gains keys, and only keys of the view.
ReplicaSafety == Target!Spec

\* A row of the view eventually reaches the target, whatever fails on the way.
CaughtUp == Target!CaughtUp

\* The documented effect of a pull on changed rows: once the view holds still
\* the target shows what the view shows.
ChangesArrive ==
  \A k \in Keys : []<>(\A r \in src : r.key = k => r \in tgt)
=============================================================================
