------------------------- MODULE FullReloadProofs -------------------------
(***************************************************************************)
(* What holds of FullReload for every set of rows, reloaders and execs and *)
(* every bound.  The two theorems about what readers see need a single     *)
(* reloader: two of them break NeverEmptied (README, section 4).           *)
(***************************************************************************)
EXTENDS FullReload, TLAPS

LEMMA NoTable == ASSUME NEW t \in Table PROVE t # None
  BY NoneAssumption DEF Table

(***************************************************************************)
(* Types.                                                                  *)
(***************************************************************************)
Pcs == {"idle", "drop", "create", "copy", "wait", "guard", "swap", "clean"}

LEMMA TypeInit == Init => TypeOK
<1> SUFFICES ASSUME Init PROVE TypeOK
  OBVIOUS
<1>1. faults \in 0..MaxFaults /\ uncounted \in 0..MaxUncounted
  BY BoundAssumption DEF Init
<1>2. \A S \in SUBSET Rows : \A e \in Execs : Load(S, e) \in Table
  BY DEF Load, Table
<1>3. /\ source \in SUBSET Rows /\ temp \in Table \cup {None} /\ live \in Table \cup {None}
      /\ run \in [Reloaders -> [pc : Pcs, before : BOOLEAN, exec : Execs \cup {None}]]
      /\ \A w \in Reloaders : run[w].pc # "wait"
  BY <1>2 DEF Init, Idle, Pcs
<1>4. exec \in [Execs -> [state : {"free", "running", "done", "failed"},
                         snap : SUBSET Rows, todo : SUBSET Rows]]
      /\ \A e \in Execs : exec[e].todo = {}
  <2>1. /\ Unused \in [state : {"free", "running", "done", "failed"},
                      snap : SUBSET Rows, todo : SUBSET Rows]
        /\ [Unused EXCEPT !.state = "done", !.snap = source] \in
              [state : {"free", "running", "done", "failed"}, snap : SUBSET Rows, todo : SUBSET Rows]
        /\ Unused.todo = {} /\ [Unused EXCEPT !.state = "done", !.snap = source].todo = {}
    BY DEF Init, Unused
  <2> QED
    BY <2>1, Zenon DEF Init
<1> QED
  BY <1>1, <1>3, <1>4 DEF TypeOK, Pcs

\* A failure that is counted stays within its bound.
LEMMA FaultType == TypeOK /\ Fault => faults' \in 0..MaxFaults
  BY BoundAssumption DEF TypeOK, Fault

LEMMA MiscountType == TypeOK /\ Miscount => uncounted' \in 0..MaxUncounted
  BY BoundAssumption DEF TypeOK, Miscount

\* Moving a worker to a place where it does not wait keeps the types.
LEMMA GotoType ==
  ASSUME TypeOK, NEW w \in Reloaders, NEW pc \in Pcs \ {"wait"}, Goto(w, pc)
  PROVE  /\ run' \in [Reloaders -> [pc : Pcs, before : BOOLEAN, exec : Execs \cup {None}]]
         /\ \A v \in Reloaders : run'[v].pc = "wait" => run'[v].exec \in Execs
  BY DEF TypeOK, Goto, Pcs

LEMMA TypeStep == TypeOK /\ [Next]_vars => TypeOK'
<1> SUFFICES ASSUME TypeOK, [Next]_vars PROVE TypeOK'
  OBVIOUS
<1> USE DEF Pcs
<1>0. CASE UNCHANGED vars
  BY <1>0 DEF TypeOK, vars
<1>1. CASE SourceChanges
  BY <1>1 DEF TypeOK, SourceChanges
<1>2. CASE Crash
  BY <1>2, FaultType DEF TypeOK, Crash, Idle
<1>3. ASSUME NEW w \in Reloaders, Reload(w) PROVE TypeOK'
  <2>1. CASE Count(w)
    <3>1. uncounted' \in 0..MaxUncounted
      BY <2>1, MiscountType DEF Count, TypeOK
    <3> QED
      BY <2>1, <3>1 DEF TypeOK, Count, NonEmpty
  <2>2. CASE DropLeftover(w)
    BY <2>2, GotoType DEF TypeOK, DropLeftover
  <2>3. CASE Create(w)
    BY <2>3, GotoType DEF TypeOK, Create, Table
  <2>4. CASE CreateFails(w)
    BY <2>4, GotoType, FaultType DEF TypeOK, CreateFails
  <2>5. CASE StartCopy(w)
    <3>1. PICK e \in Execs :
            /\ exec' = [exec EXCEPT ![e] = [state |-> "running", snap |-> source, todo |-> source]]
            /\ run' = [run EXCEPT ![w] = [pc |-> "wait", before |-> @.before, exec |-> e]]
      BY <2>5 DEF StartCopy
    <3>2. exec' \in [Execs -> [state : {"free", "running", "done", "failed"},
                             snap : SUBSET Rows, todo : SUBSET Rows]]
          /\ \A f \in Execs : exec'[f].todo \subseteq exec'[f].snap
      BY <3>1 DEF TypeOK
    <3>3. run' \in [Reloaders -> [pc : Pcs, before : BOOLEAN, exec : Execs \cup {None}]]
          /\ \A v \in Reloaders : run'[v].pc = "wait" => run'[v].exec \in Execs
      BY <3>1 DEF TypeOK
    <3>4. temp' \in Table \cup {None} /\ UNCHANGED <<source, live, faults, uncounted>>
      BY <2>5 DEF StartCopy, Table
    <3> QED
      BY <3>2, <3>3, <3>4 DEF TypeOK
  <2>6. CASE CopyMissing(w)
    BY <2>6, GotoType DEF TypeOK, CopyMissing
  <2>7. CASE CopyEnds(w)
    BY <2>7, GotoType DEF TypeOK, CopyEnds
  <2>8. CASE StreamLost(w)
    BY <2>8, GotoType, FaultType DEF TypeOK, StreamLost
  <2>9. CASE StreamUnseen(w)
    BY <2>9, GotoType, FaultType DEF TypeOK, StreamUnseen
  <2>10. CASE Guard(w)
    <3>1. uncounted' \in 0..MaxUncounted
      BY <2>10, MiscountType DEF Guard, TypeOK
    <3>2. Goto(w, "clean") \/ Goto(w, "swap")
      BY <2>10 DEF Guard
    <3> QED
      BY <2>10, <3>1, <3>2, GotoType DEF TypeOK, Guard
  <2>11. CASE Swap(w)
    BY <2>11 DEF TypeOK, Swap, Idle
  <2>12. CASE SwapFails(w)
    BY <2>12, GotoType DEF TypeOK, SwapFails
  <2>13. CASE Clean(w)
    BY <2>13 DEF TypeOK, Clean, Idle
  <2> QED
    BY <1>3, <2>1, <2>2, <2>3, <2>4, <2>5, <2>6, <2>7, <2>8, <2>9, <2>10, <2>11, <2>12, <2>13
       DEF Reload
<1>4. ASSUME NEW e \in Execs, Export(e) PROVE TypeOK'
  <2>1. CASE CopyRow(e)
    <3>1. temp' \in Table \cup {None}
      BY <2>1 DEF TypeOK, CopyRow, Table, Blocked
    <3> QED
      BY <2>1, <3>1 DEF TypeOK, CopyRow
  <2>2. CASE CopyBreaks(e)
    BY <2>2 DEF TypeOK, CopyBreaks
  <2>3. CASE CopyDies(e)
    BY <2>3, FaultType DEF TypeOK, CopyDies
  <2>4. CASE CopyExits(e)
    BY <2>4 DEF TypeOK, CopyExits
  <2> QED
    BY <1>4, <2>1, <2>2, <2>3, <2>4 DEF Export
<1> QED
  BY <1>0, <1>1, <1>2, <1>3, <1>4 DEF Next

\* Every reachable state of full_reload_once and of the execs it started is
\* well typed; in particular a worker that waits knows the exec it waits for.
THEOREM TypeCorrect == Spec => []TypeOK
<1> QED
  BY TypeInit, TypeStep, PTL DEF Spec

(***************************************************************************)
(* Any number of reloaders.                                                *)
(***************************************************************************)

\* _atomic_swap only renames a table that exists, so whichever of several
\* reloads publishes, readers of <target> find a table from the first
\* published copy on.
THEOREM TargetNeverMissing == Spec => NeverMissing
<1>1. [Next]_vars => (live # None => live' # None)
  BY DEF Next, Reload, Export, vars, SourceChanges, Crash, Count, DropLeftover, Create,
         CreateFails, StartCopy, CopyMissing, CopyEnds, StreamLost, StreamUnseen, Guard, Swap,
         SwapFails, Clean, CopyRow, CopyBreaks, CopyDies, CopyExits
<1> QED
  BY <1>1, PTL DEF Spec, NeverMissing

\* What is counted was not there before.
LEMMA FaultCounts == TypeOK /\ Fault => faults' # 0
  BY BoundAssumption DEF TypeOK, Fault

LEMMA NoLeftoverStep == TypeOK /\ NoLeftover /\ [Next]_vars => NoLeftover'
<1> SUFFICES ASSUME TypeOK, NoLeftover, [Next]_vars,
                    faults' = 0, \A v \in Reloaders : run'[v].pc = "idle"
             PROVE  temp' = None
  BY DEF NoLeftover
<1>0. CASE UNCHANGED vars
  BY <1>0 DEF NoLeftover, vars
<1>1. CASE SourceChanges
  BY <1>1 DEF NoLeftover, SourceChanges
<1>2. CASE Crash
  BY <1>2, FaultCounts DEF Crash
<1>3. ASSUME NEW w \in Reloaders, Reload(w) PROVE temp' = None
  \* A reload that goes on is not idle, and the two ways to end it drop temp.
  <2>1. CASE Swap(w) \/ Clean(w)
    BY <2>1 DEF Swap, Clean
  <2>2. CASE Count(w)
    BY <2>2 DEF Count, TypeOK
  <2>3. CASE \E pc \in Pcs \ {"idle"} : Goto(w, pc)
    BY <2>3 DEF Goto, TypeOK
  <2>4. CASE StartCopy(w)
    BY <2>4 DEF StartCopy, TypeOK
  <2>5. Goto(w, "create") \/ Goto(w, "copy") \/ Goto(w, "clean") \/ Goto(w, "guard")
          \/ Goto(w, "swap") => \E pc \in Pcs \ {"idle"} : Goto(w, pc)
    BY DEF Pcs
  <2> QED
    BY <1>3, <2>1, <2>2, <2>3, <2>4, <2>5 DEF Reload, DropLeftover, Create, CreateFails,
       CopyMissing, CopyEnds, StreamLost, StreamUnseen, Guard, SwapFails
<1>4. ASSUME NEW e \in Execs, Export(e) PROVE temp' = None
  BY <1>4, FaultCounts DEF Export, CopyRow, CopyBreaks, CopyDies, CopyExits, Blocked, NoLeftover
<1> QED
  BY <1>0, <1>1, <1>2, <1>3, <1>4 DEF Next

\* Every way out of full_reload_once removes <target>_new, by the rename or by
\* _drop_table: with no failure behind it the system at rest holds no half-built
\* copy, however many reloads shared the name.
THEOREM NothingLeftOver == Spec => []NoLeftover
<1>1. Init => NoLeftover
  BY DEF Init, NoLeftover
<1> QED
  BY <1>1, TypeCorrect, NoLeftoverStep, PTL DEF Spec

(***************************************************************************)
(* A single reloader whose row counts succeed: a filled target is never    *)
(* emptied.  NeverEmptied follows from Guarded, which says what the count  *)
(* and the guard established and nothing has undone since.                 *)
(***************************************************************************)
Alone == \A v, w \in Reloaders : v = w

\* What the worker counted still holds, and what the guard let through is
\* still there when it is swapped in.
Guarded ==
  \A w \in Reloaders :
    /\ run[w].pc # "idle" /\ NonEmpty(live) => run[w].before
    /\ run[w].pc = "swap" /\ run[w].before => NonEmpty(temp)

LEMMA GuardedStep ==
  ASSUME Alone, MaxUncounted = 0, TypeOK, Guarded, [Next]_vars
  PROVE  Guarded' /\ (NonEmpty(live) => NonEmpty(live'))
<1> USE DEF Guarded, NonEmpty
<1>a. ~Miscount
  BY DEF TypeOK, Miscount
<1>0. CASE UNCHANGED vars
  BY <1>0 DEF vars
<1>1. CASE SourceChanges
  BY <1>1 DEF SourceChanges
<1>2. CASE Crash
  BY <1>2 DEF Crash, Idle
<1>3. ASSUME NEW w \in Reloaders, Reload(w)
      PROVE  Guarded' /\ (NonEmpty(live) => NonEmpty(live'))
  <2>0. \A v \in Reloaders : v = w
    BY DEF Alone
  <2>1. CASE Count(w)
    BY <2>0, <2>1, <1>a DEF Count, TypeOK
  <2>2. CASE DropLeftover(w) \/ Create(w) \/ CreateFails(w) \/ CopyMissing(w) \/ StreamLost(w)
               \/ StreamUnseen(w) \/ SwapFails(w)
    BY <2>0, <2>2 DEF DropLeftover, Create, CreateFails, CopyMissing, StreamLost, StreamUnseen,
       SwapFails, Goto, TypeOK
  <2>3. CASE StartCopy(w)
    BY <2>0, <2>3 DEF StartCopy, TypeOK
  <2>4. CASE CopyEnds(w)
    BY <2>0, <2>4 DEF CopyEnds, Goto, TypeOK
  <2>5. CASE Guard(w)
    BY <2>0, <2>5, <1>a DEF Guard, Goto, TypeOK
  <2>6. CASE Swap(w)
    BY <2>0, <2>6 DEF Swap, Idle, TypeOK
  <2>7. CASE Clean(w)
    BY <2>0, <2>7 DEF Clean, Idle, TypeOK
  <2> QED
    BY <1>3, <2>1, <2>2, <2>3, <2>4, <2>5, <2>6, <2>7 DEF Reload
<1>4. ASSUME NEW e \in Execs, Export(e)
      PROVE  Guarded' /\ (NonEmpty(live) => NonEmpty(live'))
  <2>1. CASE CopyRow(e)
    \* An exec, even one nobody waits for, only adds rows.
    <3>1. live' = live /\ run' = run
      BY <2>1 DEF CopyRow
    <3>2. PICK r \in exec[e].todo : temp # None /\ temp' = temp \cup {<<r, e>>}
      BY <2>1 DEF CopyRow, Blocked
    <3>3. r \in Rows /\ temp \in Table
      BY <3>2 DEF TypeOK
    <3>4. temp \cup {<<r, e>>} \in Table
      BY <3>3 DEF Table
    <3>5. temp' # None /\ temp' # {}
      BY <3>2, <3>4, NoTable
    <3>6. Guarded'
      BY <3>1, <3>5
    <3> QED
      BY <3>1, <3>6
  <2> QED
    BY <1>4, <2>1 DEF Export, CopyBreaks, CopyDies, CopyExits
<1> QED
  BY <1>0, <1>1, <1>2, <1>3, <1>4 DEF Next

\* "The live target is NEVER empty for readers": one reloader never takes the
\* rows of a filled target away, whatever the view shows, however its passes
\* fail and whatever earlier ora2pg execs still write.
THEOREM TargetNeverEmptied ==
  ASSUME Alone, MaxUncounted = 0
  PROVE  Spec => NeverEmptied
<1>1. Init => Guarded
  BY DEF Init, Idle, Guarded
<1>2. TypeOK /\ Guarded /\ [Next]_vars => Guarded'
  BY GuardedStep
<1>3. TypeOK /\ Guarded /\ [Next]_vars => [NonEmpty(live) => NonEmpty(live')]_vars
  BY GuardedStep
<1> QED
  BY <1>1, <1>2, <1>3, TypeCorrect, PTL DEF Spec, NeverEmptied

(***************************************************************************)
(* A single reloader, until something fails: what readers see is one whole *)
(* snapshot of the view.  LiveWhole is not inductive: Steady adds that the *)
(* only running exec is the one the reloader waits for, so that nothing    *)
(* but its rows gets into <target>_new between CREATE and rename.          *)
(***************************************************************************)
Written(x) == Load(exec[x].snap \ exec[x].todo, x)

Steady ==
  faults = 0 =>
    /\ Whole(live)
    /\ \A x \in Execs : exec[x].state = "running" =>
         \E w \in Reloaders : run[w].pc = "wait" /\ run[w].exec = x
    /\ \A w \in Reloaders : run[w].pc = "wait" =>
         LET x == run[w].exec
         IN  temp = Written(x) /\ (exec[x].state = "done" => exec[x].todo = {})
    /\ \A w \in Reloaders : run[w].pc \in {"guard", "swap"} => Whole(temp)

\* While the reloader is not waiting, no exec runs and no row is written.
LEMMA SteadyReload ==
  ASSUME Alone, TypeOK, Steady, NEW w \in Reloaders, Reload(w), faults' = 0
  PROVE  Steady'
<1>0. faults = 0 /\ ~Fault /\ \A v \in Reloaders : v = w
  BY FaultCounts, BoundAssumption DEF Alone, TypeOK, Reload, Count, DropLeftover, Create,
     CreateFails, StartCopy, CopyMissing, CopyEnds, StreamLost, StreamUnseen, Guard, Swap,
     SwapFails, Clean, Fault
<1>2. CASE Count(w)
  BY <1>0, <1>2 DEF Steady, Whole, Count, TypeOK
<1>3. CASE DropLeftover(w) \/ Create(w)
  BY <1>0, <1>3 DEF Steady, Whole, DropLeftover, Create, Goto, TypeOK
<1>4. CASE CopyMissing(w) \/ SwapFails(w)
  BY <1>0, <1>4 DEF Steady, Whole, CopyMissing, SwapFails, Goto, TypeOK
<1>5. CASE StartCopy(w)
  <2>1. PICK e \in Execs :
          /\ Free(e)
          /\ exec' = [exec EXCEPT ![e] = [state |-> "running", snap |-> source, todo |-> source]]
          /\ run' = [run EXCEPT ![w] = [pc |-> "wait", before |-> @.before, exec |-> e]]
    BY <1>5 DEF StartCopy
  <2>2. exec'[e] = [state |-> "running", snap |-> source, todo |-> source]
        /\ \A x \in Execs : x # e => exec'[x] = exec[x]
    BY <2>1 DEF TypeOK
  <2>3. run'[w].pc = "wait" /\ run'[w].exec = e
    BY <2>1 DEF TypeOK
  <2>4. temp' = Load(source \ source, e) /\ live' = live
    BY <1>5 DEF StartCopy, Load
  <2>5. Whole(live)'
    <3>1. SUFFICES ASSUME NonEmpty(live) PROVE \E x \in Execs : live = Load(exec'[x].snap, x)
      BY <2>4 DEF Whole
    <3>2. PICK x \in Execs : live = Load(exec[x].snap, x)
      BY <1>0, <3>1 DEF Steady, Whole
    <3>3. x # e
      BY <2>1, <3>1, <3>2 DEF Free, NonEmpty, Load
    <3> QED
      BY <2>2, <3>2, <3>3
  <2>6. \A x \in Execs : x # e => exec[x].state # "running"
    BY <1>0, <1>5 DEF Steady, StartCopy
  <2> QED
    BY <1>0, <2>2, <2>3, <2>4, <2>5, <2>6 DEF Steady, Written
<1>6. CASE CopyEnds(w)
  <2>1. exec[run[w].exec].state = "done" => Whole(temp)
    <3>1. SUFFICES ASSUME exec[run[w].exec].state = "done" PROVE Whole(temp)
      OBVIOUS
    <3>2. run[w].pc = "wait" /\ run[w].exec \in Execs
      BY <1>6 DEF CopyEnds, TypeOK
    <3>3. temp = Load(exec[run[w].exec].snap \ {}, run[w].exec)
      BY <1>0, <3>1, <3>2 DEF Steady, Written
    <3>4. exec[run[w].exec].snap \ {} = exec[run[w].exec].snap
      OBVIOUS
    <3> QED
      BY <3>2, <3>3, <3>4 DEF Whole
  <2>2. \A x \in Execs : exec[x].state # "running"
    BY <1>0, <1>6 DEF Steady, CopyEnds
  <2> QED
    BY <1>0, <1>6, <2>1, <2>2 DEF Steady, Whole, CopyEnds, Goto, TypeOK
<1>7. CASE Guard(w)
  BY <1>0, <1>7 DEF Steady, Whole, Guard, Goto, TypeOK
<1>8. CASE Swap(w) \/ Clean(w)
  BY <1>0, <1>8 DEF Steady, Whole, Swap, Clean, Idle, TypeOK
<1> QED
  BY <1>0, <1>2, <1>3, <1>4, <1>5, <1>6, <1>7, <1>8 DEF Reload, CreateFails, StreamLost, StreamUnseen

\* While it waits, the exec it waits for adds the rows of its own snapshot.
LEMMA SteadyExport ==
  ASSUME Alone, TypeOK, Steady, NEW e \in Execs, Export(e), faults' = 0
  PROVE  Steady'
<1>0. faults = 0 /\ ~Fault /\ UNCHANGED <<live, run, faults>>
  BY FaultCounts, BoundAssumption DEF Export, CopyRow, CopyBreaks, CopyDies, CopyExits, Fault, TypeOK
<1>1. PICK w \in Reloaders : run[w].pc = "wait" /\ run[w].exec = e
  BY <1>0 DEF Steady, Export, CopyRow, CopyBreaks, CopyDies, CopyExits
<1>2. \A v \in Reloaders : v = w
  BY DEF Alone
<1>3. temp = Written(e)
  BY <1>0, <1>1 DEF Steady
<1>4. \A x \in Execs : exec'[x].snap = exec[x].snap /\ (x # e => exec'[x] = exec[x])
  BY <1>0 DEF Export, CopyRow, CopyBreaks, CopyExits, CopyDies, TypeOK
<1>5. Whole(live)'
  BY <1>0, <1>4 DEF Steady, Whole
<1>6. temp' = Written(e)'
  <2>1. CASE CopyRow(e)
    <3>1. PICK r \in exec[e].todo :
            temp' = temp \cup {<<r, e>>} /\ exec' = [exec EXCEPT ![e].todo = @ \ {r}]
      BY <2>1 DEF CopyRow
    <3>2. exec[e].todo \subseteq exec[e].snap
      BY DEF TypeOK
    <3>3. exec'[e].snap \ exec'[e].todo = (exec[e].snap \ exec[e].todo) \cup {r}
      BY <3>1, <3>2 DEF TypeOK
    <3>4. temp' = {<<q, e>> : q \in exec[e].snap \ exec[e].todo} \cup {<<r, e>>}
      BY <1>3, <3>1 DEF Written, Load
    <3> QED
      BY <3>3, <3>4 DEF Written, Load
  <2>2. CASE CopyBreaks(e) \/ CopyExits(e)
    <3>1. temp' = temp /\ exec'[e].snap = exec[e].snap /\ exec'[e].todo = exec[e].todo
      BY <2>2 DEF CopyBreaks, CopyExits, TypeOK
    <3> QED
      BY <1>3, <3>1 DEF Written
  <2> QED
    BY <1>0, <2>1, <2>2 DEF Export, CopyDies
<1>7. exec'[e].state = "done" => exec'[e].todo = {}
  BY <1>0 DEF Export, CopyRow, CopyBreaks, CopyExits, CopyDies, TypeOK
<1>8. \A x \in Execs : exec'[x].state = "running" => x = e
  BY <1>0, <1>1, <1>2, <1>4 DEF Steady
<1> QED
  BY <1>0, <1>1, <1>2, <1>5, <1>6, <1>7, <1>8 DEF Steady

\* full_reload_once publishes "a full re-copy of the view": without a failure a
\* reader of <target> never sees a part of a snapshot, rows of two snapshots or
\* a row twice.
THEOREM LiveIsWhole ==
  ASSUME Alone
  PROVE  Spec => []LiveWhole
<1>1. Init => Steady
  <2>1. SUFFICES ASSUME Init PROVE Whole(live) /\ \A x \in Execs : exec[x].state # "running"
    BY DEF Init, Idle, Steady
  <2>2. CASE live = None /\ exec = [e \in Execs |-> Unused]
    BY <2>2 DEF Whole, NonEmpty, Unused
  <2>3. CASE \E e \in Execs :
            /\ live = Load(source, e)
            /\ exec = [f \in Execs |-> IF f = e THEN [Unused EXCEPT !.state = "done", !.snap = source]
                                       ELSE Unused]
    <3>1. PICK e \in Execs :
            /\ live = Load(source, e)
            /\ exec = [f \in Execs |-> IF f = e THEN [Unused EXCEPT !.state = "done", !.snap = source]
                                       ELSE Unused]
      BY <2>3
    <3>2. exec[e].snap = source /\ \A x \in Execs : exec[x].state # "running"
      BY <3>1 DEF Unused
    <3> QED
      BY <3>1, <3>2 DEF Whole
  <2> QED
    BY <2>1, <2>2, <2>3 DEF Init
<1>2. TypeOK /\ Steady /\ [Next]_vars => Steady'
  <2> SUFFICES ASSUME TypeOK, Steady, [Next]_vars, faults' = 0 PROVE Steady'
    BY DEF Steady
  <2>1. CASE UNCHANGED vars
    BY <2>1 DEF Steady, Whole, Written, vars
  <2>2. CASE SourceChanges
    BY <2>2 DEF Steady, Whole, Written, SourceChanges, NonEmpty
  <2>3. CASE Crash
    BY <2>3, FaultCounts DEF Crash
  <2> QED
    BY <2>1, <2>2, <2>3, SteadyReload, SteadyExport DEF Next
<1>3. Steady => LiveWhole
  BY DEF Steady, LiveWhole
<1> QED
  BY <1>1, <1>2, <1>3, TypeCorrect, PTL DEF Spec
=============================================================================
