---------------------------- MODULE FullReload ----------------------------
(***************************************************************************)
(* Case B of streaming, ora2pg_runner.full_reload_once: the whole view is  *)
(* copied into <target>_new and swapped into place, so that readers of     *)
(* <target> never see an empty or missing table.                           *)
(*                                                                         *)
(* The temporary table has a fixed name.  ora2pg resolves it again at each *)
(* batch of rows, and its exec goes on when the backend loses the output   *)
(* stream or dies.  <target>_old exists only inside the transaction of     *)
(* _atomic_swap, so it is not a variable.                                  *)
(***************************************************************************)
EXTENDS Integers

CONSTANTS Rows,          \* rows the view may show
          Reloaders,     \* the poll loop and request threads that POST run-once
          Execs,         \* bound: ora2pg execs whose rows or runs still matter
          Keyed,         \* the table has a primary key, so a unique index
          ExitKnown,     \* Docker knows the exit code when the output stream ends
          MaxFaults,     \* bound: failed passes, lost streams, backend crashes
          MaxUncounted,  \* bound: row counts that fail (_count_target = None)
          None           \* no such table, no exec

ASSUME NoneAssumption == None \notin Execs /\ \A t \in SUBSET (Rows \X Execs) : t # None
ASSUME BoundAssumption == MaxFaults \in Nat /\ MaxUncounted \in Nat
ASSUME SwitchAssumption == Keyed \in BOOLEAN /\ ExitKnown \in BOOLEAN

VARIABLES source,    \* rows the V2_PRO_ view shows
          live,      \* mdp_staging.<target>: its rows, each with the exec that wrote it
          temp,      \* mdp_staging.<target>_new
          run,       \* run[w]: the reload worker w is in
          exec,      \* exec[e]: an ora2pg -t COPY in the container
          faults,    \* failures so far
          uncounted  \* failed counts so far

vars == <<source, live, temp, run, exec, faults, uncounted>>

Table == SUBSET (Rows \X Execs)
Load(S, e) == {<<r, e>> : r \in S}
RowsOf(t) == {p[1] : p \in t}

Idle == [pc |-> "idle", before |-> FALSE, exec |-> None]
Unused == [state |-> "free", snap |-> {}, todo |-> {}]

TypeOK ==
  /\ source \in SUBSET Rows
  /\ live \in Table \cup {None} /\ temp \in Table \cup {None}
  /\ run \in [Reloaders ->
       [pc : {"idle", "drop", "create", "copy", "wait", "guard", "swap", "clean"},
        before : BOOLEAN, exec : Execs \cup {None}]]
  /\ exec \in [Execs -> [state : {"free", "running", "done", "failed"},
                         snap : SUBSET Rows, todo : SUBSET Rows]]
  /\ \A e \in Execs : exec[e].todo \subseteq exec[e].snap
  /\ \A w \in Reloaders : run[w].pc = "wait" => run[w].exec \in Execs
  /\ faults \in 0..MaxFaults /\ uncounted \in 0..MaxUncounted

\* No target yet, or one an earlier reload published.
Init ==
  /\ source \in SUBSET Rows
  /\ temp = None /\ run = [w \in Reloaders |-> Idle] /\ faults = 0 /\ uncounted = 0
  /\ \/ live = None /\ exec = [e \in Execs |-> Unused]
     \/ \E e \in Execs :
          /\ live = Load(source, e)
          /\ exec = [f \in Execs |-> IF f = e THEN [Unused EXCEPT !.state = "done", !.snap = source]
                                     ELSE Unused]

SourceChanges ==
  /\ source' \in SUBSET Rows
  /\ UNCHANGED <<live, temp, run, exec, faults, uncounted>>

-----------------------------------------------------------------------------
(* One reload of worker w. *)

Goto(w, pc) == run' = [run EXCEPT ![w].pc = pc]
Fault == faults < MaxFaults /\ faults' = faults + 1
Miscount == uncounted < MaxUncounted /\ uncounted' = uncounted + 1

NonEmpty(t) == t # None /\ t # {}

\* rows_before: a missing table and a failed count both read as "no rows".
Count(w) ==
  /\ run[w].pc = "idle"
  /\ \/ /\ run' = [run EXCEPT ![w].pc = "drop", ![w].before = NonEmpty(live)]
        /\ UNCHANGED uncounted
     \/ Miscount /\ run' = [run EXCEPT ![w].pc = "drop", ![w].before = FALSE]
  /\ UNCHANGED <<source, live, temp, exec, faults>>

\* A leftover of a prior crash is dropped.
DropLeftover(w) ==
  /\ run[w].pc = "drop"
  /\ temp' = None /\ Goto(w, "create")
  /\ UNCHANGED <<source, live, exec, faults, uncounted>>

\* The DDL pass, DROP TABLE IF EXISTS and CREATE TABLE of <target>_new.
Create(w) ==
  /\ run[w].pc = "create"
  /\ temp' = {} /\ Goto(w, "copy")
  /\ UNCHANGED <<source, live, exec, faults, uncounted>>

CreateFails(w) ==
  /\ run[w].pc = "create" /\ Fault
  /\ Goto(w, "clean")
  /\ UNCHANGED <<source, live, temp, exec, uncounted>>

\* An exec slot is free again once nothing it wrote is live and nobody waits
\* for it; what it left in temp is about to be truncated.
Free(e) ==
  /\ exec[e].state # "running"
  /\ live # None => \A p \in live : p[2] # e
  /\ \A w \in Reloaders : run[w].pc = "wait" => run[w].exec # e

\* Mutant of StartCopy: the worker does not keep the id of its exec.
StartCopyUnwatched(w) ==
  /\ run[w].pc = "copy" /\ temp # None
  /\ \E e \in Execs :
       /\ Free(e)
       /\ exec' = [exec EXCEPT ![e] = [state |-> "running", snap |-> source, todo |-> source]]
  /\ Goto(w, "wait") /\ temp' = {}
  /\ UNCHANGED <<source, live, faults, uncounted>>

\* The COPY pass starts: ora2pg truncates its table and opens one snapshot.
StartCopy(w) ==
  /\ run[w].pc = "copy" /\ temp # None
  /\ \E e \in Execs :
       /\ Free(e)
       /\ exec' = [exec EXCEPT ![e] = [state |-> "running", snap |-> source, todo |-> source]]
       /\ run' = [run EXCEPT ![w] = [pc |-> "wait", before |-> @.before, exec |-> e]]
  /\ temp' = {}
  /\ UNCHANGED <<source, live, faults, uncounted>>

\* Its table was dropped or renamed away by another reload.
CopyMissing(w) ==
  /\ run[w].pc = "copy" /\ temp = None
  /\ Goto(w, "clean")
  /\ UNCHANGED <<source, live, temp, exec, faults, uncounted>>

\* Mutant of CopyEnds: the worker does not wait for ora2pg.
CopyNotAwaited(w) ==
  /\ run[w].pc = "wait"
  /\ Goto(w, "guard")
  /\ UNCHANGED <<source, live, temp, exec, faults, uncounted>>

CopyEnds(w) ==
  /\ run[w].pc = "wait"
  /\ exec[run[w].exec].state # "running"
  /\ Goto(w, IF exec[run[w].exec].state = "done" THEN "guard" ELSE "clean")
  /\ UNCHANGED <<source, live, temp, exec, faults, uncounted>>

\* The output stream is lost; ora2pg itself may go on.
StreamLost(w) ==
  /\ run[w].pc = "wait" /\ Fault
  /\ Goto(w, "clean")
  /\ UNCHANGED <<source, live, temp, exec, uncounted>>

\* The stream ends without an exit code, which counts as success.
StreamUnseen(w) ==
  /\ ~ExitKnown /\ run[w].pc = "wait" /\ Fault
  /\ Goto(w, "guard")
  /\ UNCHANGED <<source, live, temp, exec, uncounted>>

\* Mutant of Guard: every copy is published.
GuardNothing(w) ==
  /\ run[w].pc = "guard" /\ Goto(w, "swap")
  /\ UNCHANGED <<source, live, temp, exec, faults, uncounted>>

\* Mutant of Guard: a table that has rows is never replaced.
GuardEverything(w) ==
  /\ run[w].pc = "guard" /\ Goto(w, IF run[w].before THEN "clean" ELSE "swap")
  /\ UNCHANGED <<source, live, temp, exec, faults, uncounted>>

\* The non-empty guard; a failed count of the copy reads as an empty copy.
Guard(w) ==
  /\ run[w].pc = "guard"
  /\ \/ /\ Goto(w, IF run[w].before /\ ~NonEmpty(temp) THEN "clean" ELSE "swap")
        /\ UNCHANGED uncounted
     \/ Miscount /\ Goto(w, IF run[w].before THEN "clean" ELSE "swap")
  /\ UNCHANGED <<source, live, temp, exec, faults>>

\* Mutant of Swap: the target is dropped in a transaction of its own.
SwapInTwo(w) ==
  /\ run[w].pc = "swap"
  /\ live' = temp /\ temp' = None
  /\ run' = [run EXCEPT ![w] = Idle]
  /\ UNCHANGED <<source, exec, faults, uncounted>>

\* _atomic_swap: one transaction renames <target>_new to <target>.
Swap(w) ==
  /\ run[w].pc = "swap" /\ temp # None
  /\ live' = temp /\ temp' = None
  /\ run' = [run EXCEPT ![w] = Idle]
  /\ UNCHANGED <<source, exec, faults, uncounted>>

\* There is nothing to rename: the transaction rolls back.
SwapFails(w) ==
  /\ run[w].pc = "swap" /\ temp = None
  /\ Goto(w, "clean")
  /\ UNCHANGED <<source, live, temp, exec, faults, uncounted>>

\* Mutant of Clean: the temporary table stays.
CleanNothing(w) ==
  /\ run[w].pc = "clean"
  /\ run' = [run EXCEPT ![w] = Idle]
  /\ UNCHANGED <<source, live, temp, exec, faults, uncounted>>

\* Every failure drops <target>_new and leaves the live target alone.
Clean(w) ==
  /\ run[w].pc = "clean"
  /\ temp' = None
  /\ run' = [run EXCEPT ![w] = Idle]
  /\ UNCHANGED <<source, live, exec, faults, uncounted>>

Reload(w) ==
  \/ Count(w) \/ DropLeftover(w) \/ Create(w) \/ CreateFails(w) \/ StartCopy(w) \/ CopyMissing(w)
  \/ CopyEnds(w) \/ StreamLost(w) \/ StreamUnseen(w) \/ Guard(w) \/ Swap(w) \/ SwapFails(w)
  \/ Clean(w)

-----------------------------------------------------------------------------
(* The ora2pg container, and the backend's end. *)

Conflict(r) == Keyed /\ r \in RowsOf(temp)
Blocked(r) == IF temp = None THEN TRUE ELSE Conflict(r)

CopyRow(e) ==
  /\ exec[e].state = "running"
  /\ \E r \in exec[e].todo :
       /\ ~Blocked(r)
       /\ temp' = temp \cup {<<r, e>>}
       /\ exec' = [exec EXCEPT ![e].todo = @ \ {r}]
  /\ UNCHANGED <<source, live, run, faults, uncounted>>

\* A batch finds its table gone, or a key that is already there.
CopyBreaks(e) ==
  /\ exec[e].state = "running"
  /\ \E r \in exec[e].todo : Blocked(r)
  /\ exec' = [exec EXCEPT ![e].state = "failed"]
  /\ UNCHANGED <<source, live, temp, run, faults, uncounted>>

CopyDies(e) ==
  /\ exec[e].state = "running" /\ Fault
  /\ exec' = [exec EXCEPT ![e].state = "failed"]
  /\ UNCHANGED <<source, live, temp, run, uncounted>>

CopyExits(e) ==
  /\ exec[e].state = "running" /\ exec[e].todo = {}
  /\ exec' = [exec EXCEPT ![e].state = "done"]
  /\ UNCHANGED <<source, live, temp, run, faults, uncounted>>

Export(e) == CopyRow(e) \/ CopyBreaks(e) \/ CopyDies(e) \/ CopyExits(e)

\* The backend dies and restarts; tables and execs stay as they are.
Crash ==
  /\ Fault
  /\ run' = [w \in Reloaders |-> Idle]
  /\ UNCHANGED <<source, live, temp, exec, uncounted>>

Next ==
  \/ SourceChanges \/ Crash
  \/ \E w \in Reloaders : Reload(w)
  \/ \E e \in Execs : Export(e)

Spec == Init /\ [][Next]_vars

\* A due table is reloaded again and again, an exec runs to its end.
FairSpec ==
  /\ Spec
  /\ \A w \in Reloaders : WF_vars(Reload(w))
  /\ \A e \in Execs : WF_vars(Export(e))

-----------------------------------------------------------------------------
(* Properties. *)

\* Readers see one whole snapshot of the view: no part of one, no mixture of
\* two, no row twice.
Whole(t) == NonEmpty(t) => \E e \in Execs : t = Load(exec[e].snap, e)

\* This holds as long as no exec was ever abandoned ...
LiveWhole == faults = 0 => Whole(live)

\* ... and is what "full re-copy ... then an ATOMIC SWAP" says of every reload.
AlwaysWhole == Whole(live)

\* "The live target is NEVER empty for readers": once it has rows, a reload
\* never takes them all away.
NeverEmptied == [][NonEmpty(live) => NonEmpty(live')]_vars

\* ... and it is never missing again, whatever runs at the same time.
NeverMissing == [][live # None => live' # None]_vars

\* While nothing has failed, <target>_new is gone whenever no reload is running.
NoLeftover == faults = 0 /\ (\A w \in Reloaders : run[w].pc = "idle") => temp = None

\* When the view stands still and has rows, readers come to see exactly them.
Refreshed ==
  \A S \in SUBSET Rows : S # {} /\ <>[](source = S) => <>[](live # None /\ RowsOf(live) = S)
=============================================================================
