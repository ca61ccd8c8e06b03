------------------------------ MODULE Matview ------------------------------
(***************************************************************************)
(* Materialized views of Type B data models.  Requests create, save,       *)
(* deactivate, delete and refresh models; the refresh loop refreshes the   *)
(* models that have an interval.  Each statement on mdp_models is its own  *)
(* transaction, apart from the session that holds the model row, so every  *)
(* operation is a sequence of steps that others may interleave with.       *)
(*                                                                         *)
(* A definition stands for attributes and joins: the set of the columns it *)
(* exposes.  When the sources "fan out" a join yields a key twice.         *)
(***************************************************************************)
EXTENDS Integers

CONSTANTS Models,    \* data models
          Names,     \* their names, and those of their matviews
          Defs,      \* definitions, each a set of columns
          Fanout,    \* those whose joins are saved with allow_fanout
          Timed,     \* models with matview_refresh_interval_sec > 0
          Admins,    \* request threads
          Loop,      \* the refresh loop
          Swapped,   \* the source is reloaded by swap, else it is inserted into
          Careful,   \* operators' discipline: one operation at a time
          MaxVer,    \* bound: versions of the source data
          MaxFaults, \* bound: failed statements and restarts
          None       \* no row, no matview, no name

ASSUME SetAssumption == Fanout \subseteq Defs /\ Timed \subseteq Models
ASSUME LoopAssumption == Loop \notin Admins
ASSUME SwitchAssumption == Swapped \in BOOLEAN /\ Careful \in BOOLEAN
ASSUME BoundAssumption == MaxVer \in Nat /\ MaxFaults \in Nat

VARIABLES row,    \* data_models
          mv,     \* mdp_models."<name>"
          src,    \* the source tables
          oracle, \* the version of the data in Oracle
          job,    \* what each worker's session is doing
          todo,   \* due models the loop's cycle has not come to
          faults  \* failed statements and restarts so far

vars == <<row, mv, src, oracle, job, todo, faults>>

Workers == Admins \cup {Loop}
Versions == 0..MaxVer

Row == [name : Names, def : Defs, type : {"A", "B"}, enabled : BOOLEAN, active : BOOLEAN,
        status : {"none", "ok", "error"}]

\* Whether a model should have a matview.
Wanted(r) == r.enabled /\ r.type = "B"

\* ver is None when not populated; double: a key comes twice.
View == [def : Defs, ver : Versions \cup {None}, indexed : BOOLEAN, double : BOOLEAN]
Ops == {"save", "deactivate", "delete", "refresh"}
Building == {"plan", "drop", "create", "index", "populate"}
Pcs == {"save", "deactivate", "refresh", "concurrently", "unlink", "clear", "erase", "count",
        "record", "fail"} \cup Building

\* op: the operation; held: the session's copy of the row; unlink: the name of a
\* matview to be dropped.
Job == [pc : Pcs, op : Ops, model : Models, held : Row, unlink : Names \cup {None}]

ASSUME NoneAssumption ==
  None \notin Names \cup Models \cup Nat \cup Row \cup View \cup Job

TypeOK ==
  /\ row \in [Models -> Row \cup {None}]
  /\ mv \in [Names -> View \cup {None}]
  /\ src \in [ver : Versions, fanned : BOOLEAN] /\ oracle \in Versions
  /\ job \in [Workers -> Job \cup {None}]
  /\ todo \in SUBSET Models
  /\ faults \in 0..MaxFaults
Init ==
  /\ row = [m \in Models |-> None] /\ mv = [n \in Names |-> None]
  /\ src = [ver |-> 0, fanned |-> FALSE] /\ oracle = 0
  /\ job = [w \in Workers |-> None] /\ todo = {} /\ faults = 0

AtRest == todo = {} /\ \A w \in Workers : job[w] = None
Free == Careful => AtRest

Step(w, pc) == job[w] # None /\ job[w].pc = pc
Goto(w, pc) == job' = [job EXCEPT ![w].pc = pc]
Done(w) == job' = [job EXCEPT ![w] = None]
Name(w) == job[w].held.name

Fault == faults < MaxFaults /\ faults' = faults + 1

-----------------------------------------------------------------------------
(* The sources, filled from Oracle. *)

OracleChanges ==
  /\ oracle < MaxVer /\ oracle' = oracle + 1
  /\ UNCHANGED <<row, mv, src, job, todo, faults>>

\* A full reload drops the old table without CASCADE: PostgreSQL refuses as long
\* as a matview reads it, and the swap is rolled back.
Reload ==
  /\ src.ver # oracle
  /\ Swapped => \A n \in Names : mv[n] = None
  /\ src' = [src EXCEPT !.ver = oracle]
  /\ UNCHANGED <<row, mv, oracle, job, todo, faults>>

\* The right side of a join gets, or loses, a second row of some key.
FanOut ==
  /\ Free
  /\ src' = [src EXCEPT !.fanned = ~@]
  /\ UNCHANGED <<row, mv, oracle, job, todo, faults>>

\* validate_type_b_mapping: a join that fans out is an error unless allowed.
Valid(d) == ~src.fanned \/ d \in Fanout

-----------------------------------------------------------------------------
(* Requests. *)

Unique(m, n) == \A k \in Models \ {m} : row[k] # None => row[k].name # n

\* Where the reconciliation of a saved model begins.
After(unlink, build) ==
  IF unlink # None THEN "unlink" ELSE IF build THEN "plan" ELSE "done"

\* A session that goes on with m, or ends.
Go(w, pc, op, m, held, unlink) ==
  job' = [job EXCEPT ![w] =
    IF pc = "done" THEN None
    ELSE [pc |-> pc, op |-> op, model |-> m, held |-> held, unlink |-> unlink]]

\* create_data_model; the matview is built once the row is committed.
Create(w) ==
  /\ job[w] = None /\ Free
  /\ \E m \in Models \ todo, r \in Row :
       /\ row[m] = None /\ \A v \in Workers : job[v] # None => job[v].model # m
       /\ r.status = "none" /\ Unique(m, r.name)
       /\ r.type = "B" => Valid(r.def)
       /\ row' = [row EXCEPT ![m] = r]
       /\ Go(w, After(None, Wanted(r)), "save", m, r, None)
  /\ UNCHANGED <<mv, src, oracle, todo, faults>>

\* A request loads the model it is about.  Only a model that is enabled is
\* refreshed, and deleting one that is not has no matview to drop.
Arrive(w) ==
  /\ job[w] = None /\ Free
  /\ \E m \in Models, op \in Ops :
       /\ row[m] # None
       /\ op = "refresh" => Wanted(row[m])
       /\ IF op # "delete" THEN Go(w, op, op, m, row[m], None)
          ELSE IF ~row[m].enabled THEN Go(w, "erase", op, m, row[m], None)
          ELSE Go(w, "unlink", op, m, row[m], row[m].name)
  /\ UNCHANGED <<row, mv, src, oracle, todo, faults>>

\* SQLAlchemy writes a column when it differs from what the session loaded.
Put(loaded, new, stored) == IF new = loaded THEN stored ELSE new
Merge(loaded, new, stored) ==
  [name |-> Put(loaded.name, new.name, stored.name),
   def |-> Put(loaded.def, new.def, stored.def),
   type |-> Put(loaded.type, new.type, stored.type),
   enabled |-> Put(loaded.enabled, new.enabled, stored.enabled),
   active |-> Put(loaded.active, new.active, stored.active),
   status |-> stored.status]

\* Mutant of Obsolete: a rename is forgotten.
ObsoleteWhenOff(loaded, saved) ==
  IF loaded.enabled /\ ~Wanted(saved) THEN loaded.name ELSE None

\* The old matview goes when the saved model wants none, or another name.
Obsolete(loaded, saved) ==
  IF loaded.enabled /\ (~Wanted(saved) \/ saved.name # loaded.name)
  THEN loaded.name ELSE None

\* Mutant of Save: a matview is built when it is enabled, not when it changes.
SaveBuildsOnce(w) ==
  /\ Step(w, "save") /\ row[job[w].model] # None
  /\ \E new \in Row :
       LET m == job[w].model
           loaded == job[w].held
           saved == Merge(loaded, new, row[m])
           unlink == Obsolete(loaded, saved)
       IN /\ new.type = "B" => Valid(new.def)
          /\ Unique(m, saved.name)
          /\ row' = [row EXCEPT ![m] = saved]
          /\ Go(w, After(unlink, Wanted(saved) /\ ~Wanted(loaded)),
                "save", m, saved, unlink)
  /\ UNCHANGED <<mv, src, oracle, todo, faults>>

\* update_data_model up to its commit and refresh.
Save(w) ==
  /\ Step(w, "save") /\ row[job[w].model] # None
  /\ \E new \in Row :
       LET m == job[w].model
           loaded == job[w].held
           saved == Merge(loaded, new, row[m])
           unlink == Obsolete(loaded, saved)
       IN /\ new.type = "B" => Valid(new.def)
          /\ Unique(m, saved.name)
          /\ row' = [row EXCEPT ![m] = saved]
          /\ Go(w, After(unlink, Wanted(saved)), "save", m, saved, unlink)
  /\ UNCHANGED <<mv, src, oracle, todo, faults>>

\* Validation fails, or the row is gone.
Refuse(w) ==
  /\ Step(w, "save") \/ (Step(w, "deactivate") /\ row[job[w].model] = None)
  /\ Done(w)
  /\ UNCHANGED <<row, mv, src, oracle, todo, faults>>

\* deactivate_data_model.
Deactivate(w) ==
  /\ Step(w, "deactivate") /\ row[job[w].model] # None
  /\ LET m == job[w].model
         saved == [row[m] EXCEPT !.active = FALSE]
     IN /\ row' = [row EXCEPT ![m] = saved]
        /\ IF ~saved.enabled THEN Done(w)
           ELSE Go(w, "unlink", "deactivate", m, saved, saved.name)
  /\ UNCHANGED <<mv, src, oracle, todo, faults>>

Erase(w) ==
  /\ Step(w, "erase")
  /\ row' = [row EXCEPT ![job[w].model] = None]
  /\ Done(w)
  /\ UNCHANGED <<mv, src, oracle, todo, faults>>

-----------------------------------------------------------------------------
(* matview_service: what a request or the loop does with the matview. *)

Stored(w, status) == [row[job[w].model] EXCEPT
                        !.status = Put(job[w].held.status, status, @)]

\* _record_metadata, _clear_metadata.  When the row is gone the commit fails; in
\* the loop so does the handler, which reads the name of the model it logs.
Note(w, status, pc) ==
  LET m == job[w].model IN
  IF row[m] = None
  THEN /\ Done(w) /\ todo' = IF w = Loop THEN {} ELSE todo
       /\ UNCHANGED row
  ELSE /\ row' = [row EXCEPT ![m] = Stored(w, status)]
       /\ Go(w, pc, job[w].op, m, Stored(w, status), None)
       /\ UNCHANGED todo

\* _drop_matview_named.
Unlink(w) ==
  /\ Step(w, "unlink")
  /\ mv' = [mv EXCEPT ![job[w].unlink] = None]
  /\ Goto(w, IF job[w].op = "save" /\ Wanted(job[w].held) THEN "plan" ELSE "clear")
  /\ UNCHANGED <<row, src, oracle, todo, faults>>

\* A save records that the drop failed and goes on, other requests end.
UnlinkFails(w) ==
  /\ Step(w, "unlink") /\ Fault
  /\ IF job[w].op = "save"
     THEN Note(w, "error", IF Wanted(job[w].held) THEN "plan" ELSE "done")
     ELSE Done(w) /\ UNCHANGED <<row, todo>>
  /\ UNCHANGED <<mv, src, oracle>>

ClearMetadata(w) ==
  /\ Step(w, "clear")
  /\ Note(w, "none", IF job[w].op = "delete" THEN "erase" ELSE "done")
  /\ UNCHANGED <<mv, src, oracle, faults>>

\* Mutant of Exists: every refresh is a rebuild.
RebuildAlways(w) ==
  /\ Step(w, "refresh")
  /\ Goto(w, "plan")
  /\ UNCHANGED <<row, mv, src, oracle, todo, faults>>

\* refresh_matview builds the matview when it does not exist.
Exists(w) ==
  /\ Step(w, "refresh")
  /\ Goto(w, IF mv[Name(w)] = None THEN "plan" ELSE "concurrently")
  /\ UNCHANGED <<row, mv, src, oracle, todo, faults>>

\* REFRESH ... CONCURRENTLY needs a populated matview, its unique index and rows
\* that satisfy it.
RefreshConcurrently(w) ==
  /\ Step(w, "concurrently")
  /\ IF /\ mv[Name(w)] # None /\ mv[Name(w)].indexed /\ mv[Name(w)].ver # None
        /\ ~src.fanned
     THEN /\ mv' = [mv EXCEPT ![Name(w)].ver = src.ver]
          /\ Goto(w, "count")
     ELSE Goto(w, "fail") /\ UNCHANGED mv
  /\ UNCHANGED <<row, src, oracle, todo, faults>>

\* enable_matview: build_matview_plan and the statements of _create_matview_ddl.
Plan(w) ==
  /\ Step(w, "plan")
  /\ Goto(w, IF Valid(job[w].held.def) THEN "drop" ELSE "fail")
  /\ UNCHANGED <<row, mv, src, oracle, todo, faults>>

\* Mutant of Drop: the old matview is not dropped first.
DropNothing(w) ==
  /\ Step(w, "drop") /\ Goto(w, "create")
  /\ UNCHANGED <<row, mv, src, oracle, todo, faults>>

Drop(w) ==
  /\ Step(w, "drop")
  /\ mv' = [mv EXCEPT ![Name(w)] = None]
  /\ Goto(w, "create")
  /\ UNCHANGED <<row, src, oracle, todo, faults>>

\* Mutant of CreateEmpty: the unique index comes after the rows.
CreateUnindexed(w) ==
  /\ Step(w, "create")
  /\ IF mv[Name(w)] = None
     THEN /\ mv' = [mv EXCEPT ![Name(w)] =
                      [def |-> job[w].held.def, ver |-> None,
                       indexed |-> FALSE, double |-> FALSE]]
          /\ Goto(w, "populate")
     ELSE Goto(w, "fail") /\ UNCHANGED mv
  /\ UNCHANGED <<row, src, oracle, todo, faults>>

\* WITH NO DATA.
CreateEmpty(w) ==
  /\ Step(w, "create")
  /\ IF mv[Name(w)] = None
     THEN /\ mv' = [mv EXCEPT ![Name(w)] =
                      [def |-> job[w].held.def, ver |-> None,
                       indexed |-> FALSE, double |-> FALSE]]
          /\ Goto(w, "index")
     ELSE Goto(w, "fail") /\ UNCHANGED mv
  /\ UNCHANGED <<row, src, oracle, todo, faults>>

CreateIndex(w) ==
  /\ Step(w, "index")
  /\ IF mv[Name(w)] # None /\ ~mv[Name(w)].indexed /\ ~mv[Name(w)].double
     THEN /\ mv' = [mv EXCEPT ![Name(w)].indexed = TRUE]
          /\ Goto(w, "populate")
     ELSE Goto(w, "fail") /\ UNCHANGED mv
  /\ UNCHANGED <<row, src, oracle, todo, faults>>

Populate(w) ==
  /\ Step(w, "populate")
  /\ IF mv[Name(w)] # None /\ ~(mv[Name(w)].indexed /\ src.fanned)
     THEN /\ mv' = [mv EXCEPT ![Name(w)].ver = src.ver, ![Name(w)].double = src.fanned]
          /\ Goto(w, "count")
     ELSE Goto(w, "fail") /\ UNCHANGED mv
  /\ UNCHANGED <<row, src, oracle, todo, faults>>

\* _count_rows, on a connection of its own.
Count(w) ==
  /\ Step(w, "count")
  /\ Goto(w, IF mv[Name(w)] # None /\ mv[Name(w)].ver # None THEN "record" ELSE "fail")
  /\ UNCHANGED <<row, mv, src, oracle, todo, faults>>

\* Mutant of Record: a status nobody knows.
RecordBuilt(w) ==
  /\ Step(w, "record") /\ Note(w, "built", "done")
  /\ UNCHANGED <<mv, src, oracle, faults>>

Record(w) ==
  /\ Step(w, "record") /\ Note(w, "ok", "done")
  /\ UNCHANGED <<mv, src, oracle, faults>>

RecordError(w) ==
  /\ Step(w, "fail") /\ Note(w, "error", "done")
  /\ UNCHANGED <<mv, src, oracle, faults>>

\* A lock timeout, a lost connection.
StatementFails(w) ==
  /\ job[w] # None /\ job[w].pc \in Building \cup {"concurrently", "count"} /\ Fault
  /\ Goto(w, "fail")
  /\ UNCHANGED <<row, mv, src, oracle, todo>>

-----------------------------------------------------------------------------
(* The refresh loop, and the backend's end. *)

\* Mutant of Due: a model whose last refresh failed is left alone.
DueUnlessFailed(m) ==
  row[m] # None /\ Wanted(row[m]) /\ row[m].status # "error" /\ m \in Timed

\* A model's interval has passed; its status and whether it is active are not
\* looked at.
Due(m) == row[m] # None /\ Wanted(row[m]) /\ m \in Timed

\* A cycle loads the due models; the session keeps the first one as loaded.
BeginCycle ==
  /\ job[Loop] = None /\ todo = {} /\ Free
  /\ \E m \in Models : \E S \in SUBSET {k \in Models \ {m} : Due(k)} :
       /\ Due(m)
       /\ Go(Loop, "refresh", "refresh", m, row[m], None)
       /\ todo' = S
  /\ UNCHANGED <<row, mv, src, oracle, faults>>

\* The others are loaded again, as the commit in between expired them; a deleted
\* one ends the cycle.
NextDue ==
  /\ job[Loop] = None
  /\ \E m \in todo :
       IF row[m] = None THEN todo' = {} /\ UNCHANGED job
       ELSE todo' = todo \ {m} /\ Go(Loop, "refresh", "refresh", m, row[m], None)
  /\ UNCHANGED <<row, mv, src, oracle, faults>>

\* Rows and matviews survive, sessions do not.
Crash ==
  /\ Fault
  /\ job' = [w \in Workers |-> None] /\ todo' = {}
  /\ UNCHANGED <<row, mv, src, oracle>>

Reconcile(w) ==
  \/ Unlink(w) \/ UnlinkFails(w) \/ ClearMetadata(w) \/ Exists(w) \/ RefreshConcurrently(w)
  \/ Plan(w) \/ Drop(w) \/ CreateEmpty(w) \/ CreateIndex(w) \/ Populate(w) \/ Count(w)
  \/ Record(w) \/ RecordError(w) \/ StatementFails(w)

Handle(w) == Save(w) \/ Refuse(w) \/ Deactivate(w) \/ Erase(w) \/ Reconcile(w)

Next ==
  \/ OracleChanges \/ Reload \/ FanOut \/ BeginCycle \/ NextDue \/ Crash
  \/ \E w \in Admins : Create(w) \/ Arrive(w)
  \/ \E w \in Workers : Handle(w)

Spec == Init /\ [][Next]_vars

\* Sessions go on, the source is kept up to date, and the loop's timeout is finite
\* (strongly fair, as the discipline of Careful makes it wait for others).
FairSpec ==
  /\ Spec /\ WF_vars(Reload) /\ SF_vars(BeginCycle) /\ WF_vars(NextDue)
  /\ \A w \in Workers : WF_vars(Handle(w))

-----------------------------------------------------------------------------
(* Properties. *)

\* What GET /outbound/{name} does with m: list_outbound.  A Type B model that wants
\* a matview that exists is read from there, else its joins are read through.
Available(m) == Wanted(row[m]) /\ mv[row[m].name] # None
Answer(m) ==
  IF row[m] = None \/ ~row[m].active THEN "not found"
  ELSE IF row[m].type = "A" THEN "rows"
  ELSE IF ~Available(m) THEN IF Valid(row[m].def) THEN "rows" ELSE "invalid"
  ELSE IF /\ mv[row[m].name].ver # None
          /\ row[m].def \subseteq mv[row[m].name].def THEN "rows"
  ELSE "error"

\* While nothing is going on, no read fails: "the outbound read path gates on this
\* so an enabled-but-not-yet-built or failed-build model transparently falls back
\* to the live read-through (never 500s)".
NeverFails == AtRest => \A m \in Models : Answer(m) # "error"

\* The part of it that holds until something fails: a saved model can be read
\* unless its own joins fan out while it is built.
AlwaysAnswers ==
  AtRest /\ faults = 0 =>
    \A m \in Models : Answer(m) = "error" => row[m].def \in Fanout

\* "Definition change = rebuild": a matview shown as refreshed has the model's
\* present definition.
OkIsCurrent ==
  AtRest /\ faults = 0 =>
    \A m \in Models : row[m] # None /\ Wanted(row[m]) /\ row[m].status = "ok" =>
      /\ mv[row[m].name] # None /\ mv[row[m].name].indexed
      /\ mv[row[m].name].ver # None /\ mv[row[m].name].def = row[m].def

\* "mdp_models is left with no orphan": renamed, disabled and deleted models
\* leave no matview behind.
NoOrphan ==
  AtRest /\ faults = 0 =>
    \A n \in Names : mv[n] # None =>
      \E m \in Models : row[m] # None /\ row[m].name = n /\ Wanted(row[m])

\* "Drop the matview when the model is deactivated so it can't serve stale rows".
\* The refresh loop builds it again.
InactiveIsDropped ==
  AtRest /\ faults = 0 =>
    \A m \in Models : row[m] # None /\ ~row[m].active => mv[row[m].name] = None

\* A reader of a matview never sees a key twice, although its joins may fan out.
KeysUnique == \A n \in Names : mv[n] # None => ~mv[n].double

\* "Subsequent calls run REFRESH ... CONCURRENTLY so readers never block": no
\* refresh, however it ends, makes a matview unreadable that was readable.
Served(m) ==
  /\ row[m] # None /\ Available(m)
  /\ mv[row[m].name].ver # None /\ row[m].def \subseteq mv[row[m].name].def
RefreshKeepsServing ==
  [][(\A w \in Workers : job[w] # None => job[w].op = "refresh") =>
       \A m \in Models : Served(m) => Served(m)']_vars

\* Every model with an interval is refreshed up to what Oracle has, again and
\* again, whatever failed before, unless its build broke off before the first
\* row or its joins fan out.
UpToDate(m) == mv[row[m].name] # None /\ mv[row[m].name].ver = oracle
Unpopulated(m) == mv[row[m].name] # None /\ mv[row[m].name].ver = None
Converges ==
  \A m \in Timed : []<>(\/ row[m] = None \/ ~Wanted(row[m]) \/ src.fanned
                       \/ UpToDate(m) \/ Unpopulated(m))
=============================================================================
