-------------------------- MODULE StreamingConfig --------------------------
(***************************************************************************)
(* The operations that edit what a streaming cycle reads, beside running   *)
(* cycles: PUT /streaming/config (watermark column, kind, granularity,     *)
(* enabled), which saves the fields and resets the cursor in two commits,  *)
(* the primary-key endpoints of the migration dashboard, and the reference *)
(* keys every backend start seeds.                                         *)
(***************************************************************************)
EXTENDS Streaming

CONSTANTS Careful,     \* edits are made one at a time, on a disabled table
          EditPk,      \* the primary-key endpoints are used
          InReference  \* the table is in the primary-key reference file

ASSUME SwitchAssumption == Careful \in BOOLEAN /\ EditPk \in BOOLEAN /\ InReference \in BOOLEAN

VARIABLES put,       \* a PUT /streaming/config in progress
          scan,      \* a POST /discover-keys: what it found or read, not saved yet
          pkSource,  \* migration_jobs.config.pk_source
          cleared    \* history: the last edit of the key was DELETE

admin == <<put, scan, pkSource, cleared>>
allVars == <<vars, admin>>

NoPut == [pc |-> "idle", base |-> None, marker |-> "none", enabled |-> FALSE, reset |-> FALSE]

NoScan == [pc |-> "idle", jobPk |-> FALSE, cfgPk |-> FALSE, source |-> "none"]
Sources == {"none", "reference", "scanned", "manual"}

AdminTypeOK ==
  /\ TypeOK
  /\ put \in [pc : {"idle", "fields", "reset"}, base : Config \cup {None},
              marker : MarkerKinds, enabled : BOOLEAN, reset : BOOLEAN]
  /\ scan \in [pc : {"idle", "found", "read"}, jobPk : BOOLEAN, cfgPk : BOOLEAN, source : Sources]
  /\ pkSource \in Sources /\ cleared \in BOOLEAN

\* The precaution Careful stands for: nothing streams, no other edit runs, and
\* no restart interrupts one.
Editing == put.pc # "idle" \/ scan.pc # "idle"
Quiet == ~cfg.enabled /\ (\A w \in Workers : cyc[w].pc = "idle") /\ ~Editing
MayEdit == Careful => Quiet

-----------------------------------------------------------------------------
(* PUT /streaming/config. *)

\* Mutant of MarkerChanged: the cursor survives every change.
MarkerNeverChanges(old, new) == FALSE

\* ts_col and ts_kind decide the value space of the cursor; granularity and
\* ts_time_col do not count.
MarkerChanged(old, new) ==
  old # new /\ ~{old, new} \subseteq {"day", "timestamp"}

\* The handler loads the row and validates the request (a probe of Oracle).
PutRead(m, e) ==
  /\ put.pc = "idle"
  /\ m # cfg.marker => MayEdit /\ (Careful => ~e)
  /\ put' = [pc |-> "fields", base |-> cfg, marker |-> m, enabled |-> e,
             reset |-> MarkerChanged(cfg.marker, m)]
  /\ UNCHANGED <<vars, scan, pkSource, cleared>>

\* upsert_config commits the fields that differ from the loaded row.
PutFields ==
  /\ put.pc = "fields"
  /\ cfg' = [cfg EXCEPT
       !.marker  = IF put.marker # put.base.marker THEN put.marker ELSE @,
       !.enabled = IF put.enabled # put.base.enabled THEN put.enabled ELSE @]
  /\ put' = IF put.reset THEN [put EXCEPT !.pc = "reset", !.base = cfg'] ELSE NoPut
  /\ UNCHANGED <<oracle, staging, jobPk, cyc, orphan, faults, scan, pkSource, cleared>>

\* A second commit drops the cursor of the old column.
PutReset ==
  /\ put.pc = "reset"
  /\ cfg' = [cfg EXCEPT
       !.wm     = IF put.base.wm # None THEN None ELSE @,
       !.wmTime = IF put.base.wmTime # None THEN None ELSE @]
  /\ put' = NoPut
  /\ UNCHANGED <<oracle, staging, jobPk, cyc, orphan, faults, scan, pkSource, cleared>>

-----------------------------------------------------------------------------
(* The primary key.  Every source of it is taken to name the same columns. *)

\* Built under another name and renamed: a key that comes twice leaves the old one.
RebuildIndex == IF loaded THEN ~dup /\ uniq' = TRUE ELSE UNCHANGED uniq

\* set_primary_key: index first, then both rows; no index, no key.
SetPk ==
  /\ EditPk /\ MayEdit
  /\ RebuildIndex
  /\ jobPk' = TRUE /\ cfg' = [cfg EXCEPT !.pk = TRUE]
  /\ pkSource' = "manual" /\ cleared' = FALSE
  /\ UNCHANGED <<oracle, loaded, tgt, dup, temp, stray, cyc, orphan, faults, put, scan>>

\* Mutant of ClearPk: the key stays on the migration job.
ClearConfigOnly ==
  /\ EditPk /\ MayEdit
  /\ uniq' \in {FALSE, uniq}
  /\ cfg' = [cfg EXCEPT !.pk = FALSE]
  /\ pkSource' = "none" /\ cleared' = TRUE
  /\ UNCHANGED <<oracle, loaded, tgt, dup, temp, stray, jobPk, cyc, orphan, faults, put, scan>>

\* clear_primary_key: the index is dropped if that works, and the key removed
\* from both rows.
ClearPk ==
  /\ EditPk /\ MayEdit
  /\ uniq' \in {FALSE, uniq}
  /\ jobPk' = FALSE /\ cfg' = [cfg EXCEPT !.pk = FALSE]
  /\ pkSource' = "none" /\ cleared' = TRUE
  /\ UNCHANGED <<oracle, loaded, tgt, dup, temp, stray, cyc, orphan, faults, put, scan>>

\* discover_keys asks Oracle first for a unique index the view shows all columns of;
\* an Oracle that cannot be asked, or that has none, ends it.
Discover ==
  /\ EditPk /\ MayEdit /\ scan.pc = "idle"
  /\ scan' = [NoScan EXCEPT !.pc = "found"]
  /\ UNCHANGED <<vars, put, pkSource, cleared>>

\* Mutant of ScanRead: a scan takes a key set by hand for its own.
ScanReadAny ==
  /\ scan.pc = "found"
  /\ scan' = [pc |-> "read", jobPk |-> jobPk, cfgPk |-> cfg.pk, source |-> pkSource]
  /\ UNCHANGED <<vars, put, pkSource, cleared>>

\* ... then it reads the job of the table and skips a manual key ...
ScanRead ==
  /\ scan.pc = "found"
  /\ scan' = IF pkSource = "manual" THEN NoScan
             ELSE [pc |-> "read", jobPk |-> jobPk, cfgPk |-> cfg.pk, source |-> pkSource]
  /\ UNCHANGED <<vars, put, pkSource, cleared>>

\* ... and commits what differs from its reading after the last table.
ScanCommit ==
  /\ scan.pc = "read" /\ scan' = NoScan
  /\ jobPk' = (jobPk \/ ~scan.jobPk)
  /\ cfg' = [cfg EXCEPT !.pk = @ \/ ~scan.cfgPk]
  /\ pkSource' = IF scan.source # "scanned" THEN "scanned" ELSE pkSource
  /\ cleared' = FALSE
  /\ UNCHANGED <<oracle, staging, cyc, orphan, faults, put>>

\* The reference never takes the place of a key set by hand or scanned.
Seed ==
  IF InReference /\ pkSource \notin {"manual", "scanned"}
  THEN jobPk' = TRUE /\ pkSource' = "reference"
  ELSE UNCHANGED <<jobPk, pkSource>>

\* A restarted backend seeds the reference keys before it serves, if that works.
Restart ==
  /\ Careful => ~Editing
  /\ LoseCycles
  /\ Seed \/ UNCHANGED <<jobPk, pkSource>>
  /\ put' = NoPut /\ scan' = NoScan
  /\ UNCHANGED cleared

-----------------------------------------------------------------------------
AdminInit ==
  /\ InitStreaming
  /\ put = NoPut /\ scan = NoScan /\ cleared = FALSE
  /\ pkSource = IF ~jobPk THEN "none" ELSE IF InReference THEN "reference" ELSE "scanned"

Edit ==
  \/ \E m \in Markers, e \in BOOLEAN : PutRead(m, e)
  \/ PutFields \/ PutReset \/ SetPk \/ ClearPk \/ Discover \/ ScanRead \/ ScanCommit

Cycles ==
  /\ Oracle \/ (\E w \in Workers : Work(w)) \/ Container
  /\ UNCHANGED admin

AdminNext == Edit \/ Cycles \/ Restart

AdminSpec == AdminInit /\ [][AdminNext]_allVars

-----------------------------------------------------------------------------
(* Properties. *)

\* Between two edits the next cycle never compares the new column with a value of
\* the old one: nothing it has not pulled is behind the cursor.
NoRowSkipped ==
  put.pc = "idle" /\ (\A w \in Workers : cyc[w].pc = "idle") => NoLostRow

\* A cursor is dropped when its column changes and starts again from the target's
\* MAX, in the new column: as long as no pull failed and no restart cut one off, no
\* row is below that MAX that the target does not have.
NoRowSkippedByEdit == faults = 0 => NoRowSkipped

\* A key an operator cleared does not come back by itself: neither on the
\* migration job ...
ClearedJobStays == [][cleared /\ cleared' /\ ~jobPk => ~jobPk']_allVars

\* ... nor on the streaming configuration, where a cycle would pick it up.
ClearedConfigStays == [][cleared /\ cleared' /\ ~cfg.pk => ~cfg'.pk]_allVars

\* A scan never replaces a key an operator set.
ManualKeyStays == [][pkSource = "manual" => pkSource' = "manual" \/ cleared']_allVars
=============================================================================
