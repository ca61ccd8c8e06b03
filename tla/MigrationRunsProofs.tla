------------------------ MODULE MigrationRunsProofs ------------------------
(***************************************************************************)
(* What holds of MigrationRuns for every set of rows, number of runs and   *)
(* kinds of trouble.  All but the types need a single request thread: the  *)
(* in-flight check is no lock.                                             *)
(***************************************************************************)
EXTENDS MigrationRuns, TLAPS

LEMMA NoTable == ASSUME NEW t \in Table PROVE t # None
  BY NoneAssumption DEF Table

(***************************************************************************)
(* Types.                                                                  *)
(***************************************************************************)
RowType == [status : Status, mode : Modes, count : Nat \cup {None},
            verdict : {"none", "MATCH", "MISMATCH", "PENDING"}]
RequestType == [pc : {"idle", "check", "insert", "launch"}, run : 0..MaxRuns, mode : Modes]
WorkerType == [pc : Pcs, total : Nat \cup {None}]
ExecType == [state : {"none", "starting", "running", "done", "failed"}, todo : SUBSET Rows]

\* The conjuncts of TypeOK, by variable.
TargetOK == target \in Table \cup {None} /\ indexed \in BOOLEAN /\ due \in SUBSET Rows
RunsOK == row \in [Runs -> RowType] /\ progress \in [Runs -> Status]
RequestOK ==
  request \in [Admins -> RequestType] /\ \A a \in Admins : request[a].pc # "idle" => request[a].run \in Runs
WorkOK == worker \in [Runs -> WorkerType] /\ exec \in [Runs -> ExecType]

LEMMA TypeParts ==
  TypeOK <=> TargetOK /\ RunsOK /\ RequestOK /\ WorkOK /\ trouble \in SUBSET Troubles
  BY DEF TypeOK, TargetOK, RunsOK, RequestOK, WorkOK, RowType, RequestType, WorkerType, ExecType

LEMMA TypePartsNext ==
  TypeOK' <=> TargetOK' /\ RunsOK' /\ RequestOK' /\ WorkOK' /\ (trouble \in SUBSET Troubles)'
  BY DEF TypeOK, TargetOK, RunsOK, RequestOK, WorkOK, RowType, RequestType, WorkerType, ExecType

LEMMA TypeInit == Init => TypeOK
<1> SUFFICES ASSUME Init PROVE TypeOK
  OBVIOUS
<1>1. TargetOK
  <2>1. \A S \in SUBSET Rows : Load(S, 0) \in Table
    BY BoundAssumption DEF Load, Table
  <2> QED
    BY <2>1, SwitchAssumption DEF Init, TargetOK
<1>2. RunsOK
  BY DEF Init, RunsOK, RowType, NoRow, Status, Modes
<1>3. RequestOK
  BY BoundAssumption DEF Init, RequestOK, RequestType, NoRequest, Modes
<1>4. WorkOK
  BY DEF Init, WorkOK, WorkerType, ExecType, NoWorker, NoExec, Pcs
<1>5. trouble \in SUBSET Troubles
  BY DEF Init
<1> QED
  BY <1>1, <1>2, <1>3, <1>4, <1>5, TypeParts

LEMMA TroubleType ==
  ASSUME NEW kind, Trouble(kind), trouble \in SUBSET Troubles PROVE trouble' \in SUBSET Troubles
  BY DEF Trouble

LEMMA GotoType ==
  ASSUME NEW i \in Runs, NEW pc \in Pcs, Goto(i, pc), worker \in [Runs -> WorkerType]
  PROVE  worker' \in [Runs -> WorkerType]
  BY DEF Goto, WorkerType

LEMMA RequestStep ==
  ASSUME TypeOK, NEW a \in Admins, Arrive(a) \/ Handle(a) PROVE TypeOK'
<1> USE TypeParts
<1>1. CASE Arrive(a)
  <2>1. PICK i \in Runs, mode \in Modes :
          request' = [request EXCEPT ![a] = [pc |-> "check", run |-> i, mode |-> mode]]
    BY <1>1 DEF Arrive
  <2>2. RequestOK'
    BY <2>1, BoundAssumption DEF RequestOK, RequestType, Runs
  <2> QED
    BY <1>1, <2>2, TypePartsNext DEF Arrive, TargetOK, RunsOK, WorkOK
<1>2. CASE Check(a)
  <2>1. RequestOK'
    BY <1>2, BoundAssumption DEF Check, RequestOK, RequestType, Respond, Proceed, NoRequest, Modes
  <2> QED
    BY <1>2, <2>1, TypePartsNext DEF Check, TargetOK, RunsOK, WorkOK
<1>3. CASE InsertRun(a)
  <2>1. RequestOK'
    BY <1>3 DEF InsertRun, RequestOK, RequestType, Proceed
  <2>2. RunsOK'
    BY <1>3 DEF InsertRun, RunsOK, RequestOK, RequestType, RowType, NoRow, Status
  <2> QED
    BY <1>3, <2>1, <2>2, TypePartsNext DEF InsertRun, TargetOK, WorkOK
<1>4. CASE Launch(a)
  <2>1. RequestOK'
    BY <1>4, BoundAssumption DEF Launch, RequestOK, RequestType, Respond, NoRequest, Modes
  <2>2. RunsOK' /\ WorkOK'
    BY <1>4 DEF Launch, RunsOK, WorkOK, WorkerType, Status, Pcs
  <2>3. RowsOf(target) \in SUBSET Rows
    BY DEF RowsOf, TargetOK, Table
  <2>4. TargetOK'
    BY <1>4, <2>3 DEF Launch, TargetOK
  <2> QED
    BY <1>4, <2>1, <2>2, <2>4, TypePartsNext DEF Launch
<1> QED
  BY <1>1, <1>2, <1>3, <1>4 DEF Handle

LEMMA WorkStep == ASSUME TypeOK, NEW i \in Runs, Work(i) PROVE TypeOK'
<1> USE TypeParts
<1>0. UNCHANGED request => RequestOK'
  BY DEF RequestOK
<1>1. CASE Begin(i)
  <2>1. RunsOK'
    BY <1>1 DEF Begin, RunsOK, RowType, Status
  <2>2. PICK total \in Nat \cup {None} :
          worker' = [worker EXCEPT ![i] = [pc |-> "connect", total |-> total]]
    BY <1>1, EstimateAssumption DEF Begin
  <2>3. WorkOK'
    BY <1>1, <2>2 DEF Begin, WorkOK, WorkerType, Pcs
  <2> QED
    BY <1>0, <1>1, <2>1, <2>3, TypePartsNext DEF Begin, TargetOK
<1>2. CASE Connect(i)
  <2>1. WorkOK'
    BY <1>2, GotoType DEF Connect, WorkOK, Pcs
  <2> QED
    BY <1>0, <1>2, <2>1, TypePartsNext DEF Connect, TargetOK, RunsOK
<1>3. CASE ExtractDdl(i)
  <2>1. WorkOK'
    BY <1>3, GotoType DEF ExtractDdl, WorkOK, Pcs
  <2> QED
    BY <1>0, <1>3, <2>1, TypePartsNext DEF ExtractDdl, TargetOK, RunsOK
<1>4. CASE ExtractRaises(i)
  <2>1. WorkOK'
    BY <1>4, GotoType DEF ExtractRaises, WorkOK, Pcs
  <2> QED
    BY <1>0, <1>4, <2>1, TroubleType, TypePartsNext DEF ExtractRaises, TargetOK, RunsOK
<1>5. CASE ApplyDdl(i)
  <2>1. WorkOK'
    BY <1>5, GotoType DEF ApplyDdl, WorkOK, Pcs
  <2>2. TargetOK'
    BY <1>5 DEF ApplyDdl, TargetOK, Table
  <2> QED
    BY <1>0, <1>5, <2>1, <2>2, TypePartsNext DEF ApplyDdl, RunsOK
<1>6. CASE Prepare(i)
  <2>1. \E pc \in Pcs : Goto(i, pc)
    BY <1>6 DEF Prepare, Pcs
  <2>2. WorkOK'
    BY <1>6, <2>1, GotoType DEF Prepare, WorkOK
  <2>3. TargetOK'
    <3>1. indexed' \in {TRUE, indexed}
      BY <1>6 DEF Prepare
    <3> QED
      BY <1>6, <3>1 DEF Prepare, TargetOK
  <2> QED
    BY <1>0, <1>6, <2>2, <2>3, TypePartsNext DEF Prepare, RunsOK
<1>7. CASE DeleteRange(i)
  <2>1. WorkOK'
    BY <1>7, GotoType DEF DeleteRange, WorkOK, Pcs
  <2>2. TargetOK'
    BY <1>7 DEF DeleteRange, TargetOK, Table
  <2> QED
    BY <1>0, <1>7, <2>1, <2>2, TypePartsNext DEF DeleteRange, RunsOK
<1>8. CASE StartCopy(i)
  <2>1. WorkOK'
    BY <1>8, GotoType DEF StartCopy, WorkOK, Pcs, ExecType
  <2> QED
    BY <1>0, <1>8, <2>1, TypePartsNext DEF StartCopy, TargetOK, RunsOK
<1>9. CASE StepFails(i)
  <2>1. WorkOK'
    BY <1>9, GotoType DEF StepFails, WorkOK, Pcs
  <2> QED
    BY <1>0, <1>9, <2>1, TroubleType, TypePartsNext DEF StepFails, TargetOK, RunsOK
<1>10. CASE ProgressLine(i)
  <2>1. PICK n \in Nat \cup {None} : row' = [row EXCEPT ![i].count = n]
    BY <1>10 DEF ProgressLine, WorkOK, WorkerType
  <2>2. RunsOK'
    BY <1>10, <2>1 DEF ProgressLine, RunsOK, RowType
  <2> QED
    BY <1>0, <1>10, <2>2, TypePartsNext DEF ProgressLine, TargetOK, WorkOK
<1>11. CASE CopyEnds(i)
  <2>1. WorkOK'
    BY <1>11, GotoType DEF CopyEnds, WorkOK, Pcs
  <2> QED
    BY <1>0, <1>11, <2>1, TypePartsNext DEF CopyEnds, TargetOK, RunsOK
<1>12. CASE StreamEnds(i)
  <2>1. WorkOK'
    BY <1>12, GotoType DEF StreamEnds, WorkOK, Pcs
  <2> QED
    BY <1>0, <1>12, <2>1, TroubleType, TypePartsNext DEF StreamEnds, TargetOK, RunsOK
<1>13. CASE Report(i)
  <2>1. WorkOK'
    BY <1>13, GotoType DEF Report, WorkOK, Pcs
  <2>2. RunsOK'
    BY <1>13 DEF Report, RunsOK, Status
  <2> QED
    BY <1>0, <1>13, <2>1, <2>2, TypePartsNext DEF Report, TargetOK
<1>14. CASE Save(i)
  <2>1. WorkOK'
    BY <1>14, GotoType DEF Save, WorkOK, Pcs
  <2>2. RunsOK'
    BY <1>14 DEF Save, RunsOK, RowType, Status
  <2>3. trouble' \in SUBSET Troubles
    BY <1>14, TroubleType DEF Save
  <2> QED
    BY <1>0, <1>14, <2>1, <2>2, <2>3, TypePartsNext DEF Save, TargetOK
<1>15. CASE Reconcile(i)
  <2>1. WorkOK'
    BY <1>15, GotoType DEF Reconcile, WorkOK, Pcs
  <2>2. Known(i) \in Nat \cup {None}
    BY DEF Known, RunsOK, RowType, WorkOK, WorkerType
  <2>3. Verdict(Known(i)) \in {"MATCH", "MISMATCH", "PENDING"}
    BY DEF Verdict
  <2>4. RunsOK'
    BY <1>15, <2>2, <2>3 DEF Reconcile, RunsOK, RowType
  <2> QED
    BY <1>0, <1>15, <2>1, <2>4, TypePartsNext DEF Reconcile, TargetOK
<1>16. CASE ReportFailure(i)
  <2>1. WorkOK'
    BY <1>16, GotoType DEF ReportFailure, WorkOK, Pcs
  <2>2. RunsOK'
    BY <1>16 DEF ReportFailure, RunsOK, Status
  <2> QED
    BY <1>0, <1>16, <2>1, <2>2, TypePartsNext DEF ReportFailure, TargetOK
<1>17. CASE SaveFailure(i)
  <2>1. WorkOK'
    BY <1>17, GotoType DEF SaveFailure, WorkOK, Pcs
  <2>2. RunsOK'
    BY <1>17 DEF SaveFailure, RunsOK, RowType, Status
  <2>3. trouble' \in SUBSET Troubles
    BY <1>17, TroubleType DEF SaveFailure
  <2> QED
    BY <1>0, <1>17, <2>1, <2>2, <2>3, TypePartsNext DEF SaveFailure, TargetOK
<1> QED
  BY <1>1, <1>2, <1>3, <1>4, <1>5, <1>6, <1>7, <1>8, <1>9, <1>10, <1>11, <1>12, <1>13, <1>14,
     <1>15, <1>16, <1>17 DEF Work

LEMMA ExportStep == ASSUME TypeOK, NEW i \in Runs, Export(i) PROVE TypeOK'
<1> USE TypeParts
<1>0. UNCHANGED <<request, row, progress>> => RequestOK' /\ RunsOK'
  BY DEF RequestOK, RunsOK
<1>1. CASE CopyOpens(i)
  <2>1. PICK S \in SUBSET Rows :
          /\ exec' = [exec EXCEPT ![i] = [state |-> "running", todo |-> Selected(i, S)]]
          /\ due' = IF Latest(i) THEN S \cap (due \cup Selected(i, Rows)) ELSE due
    BY <1>1 DEF CopyOpens
  <2>2. WorkOK'
    BY <1>1, <2>1 DEF CopyOpens, WorkOK, ExecType, Selected
  <2>3. TargetOK'
    BY <1>1, <2>1 DEF CopyOpens, TargetOK, Table
  <2> QED
    BY <1>0, <1>1, <2>2, <2>3, TypePartsNext DEF CopyOpens
<1>2. CASE CopyRow(i)
  <2>1. PICK r \in exec[i].todo :
          /\ target' = target \cup {<<r, i>>} \/ UNCHANGED target
          /\ \/ exec' = [exec EXCEPT ![i].todo = @ \ {r}]
             \/ exec' = [exec EXCEPT ![i].state = "failed"]
    BY <1>2 DEF CopyRow
  <2>2. WorkOK'
    BY <1>2, <2>1 DEF CopyRow, WorkOK, ExecType
  <2>3. TargetOK'
    BY <1>2, <2>1 DEF CopyRow, TargetOK, Table, WorkOK, ExecType, Runs
  <2> QED
    BY <1>0, <1>2, <2>2, <2>3, TypePartsNext DEF CopyRow
<1>3. CASE CopyExits(i)
  BY <1>0, <1>3, TypePartsNext DEF CopyExits, WorkOK, ExecType, TargetOK
<1>4. CASE CopyDies(i)
  BY <1>0, <1>4, TroubleType, TypePartsNext DEF CopyDies, WorkOK, ExecType, TargetOK
<1> QED
  BY <1>1, <1>2, <1>3, <1>4 DEF Export

LEMMA CrashStep == ASSUME TypeOK, Crash PROVE TypeOK'
<1> USE TypeParts
<1>1. RunsOK' /\ RequestOK'
  BY BoundAssumption DEF Crash, RunsOK, RequestOK, RequestType, NoRequest, Status, Modes
<1>2. WorkOK' /\ TargetOK'
  BY DEF Crash, WorkOK, WorkerType, TargetOK, Pcs
<1> QED
  BY <1>1, <1>2, TroubleType, TypePartsNext DEF Crash

LEMMA TypeStep == TypeOK /\ [Next]_vars => TypeOK'
<1> SUFFICES ASSUME TypeOK, [Next]_vars PROVE TypeOK'
  OBVIOUS
<1>1. CASE UNCHANGED vars
  BY <1>1, TypeParts, TypePartsNext DEF vars, TargetOK, RunsOK, RequestOK, WorkOK
<1>2. CASE Next
  BY <1>2, RequestStep, WorkStep, ExportStep, CrashStep DEF Next
<1> QED
  BY <1>1, <1>2

\* Every reachable state of start, repair, their workers and their execs is
\* well typed, for any number of requests at once.
THEOREM TypeCorrect == Spec => []TypeOK
<1> QED
  BY TypeInit, TypeStep, PTL DEF Spec

(***************************************************************************)
(* One writer.  With one request thread the in-flight check is reliable:   *)
(* a worker that may touch the table belongs to the latest run, and that   *)
(* run is in flight in the row and in _PROGRESS alike; from the check to   *)
(* the launch no such worker is there and the run ids only grow.           *)
(***************************************************************************)
OneAdmin == \A a, b \in Admins : a = b

WritersInFlight == \A i \in Runs : Writing(i) => InFlight(i)
WorkersHaveRows == \A i \in Runs : worker[i].pc # "none" => row[i].status # "none"
RequestsAhead ==
  \A a \in Admins : \A j \in Runs :
    request[a].pc \in {"check", "insert"} /\ row[j].status # "none" => j < request[a].run
LaunchesAlone ==
  \A a \in Admins : request[a].pc \in {"insert", "launch"} => \A i \in Runs : ~Writing(i)
LaunchesLatest ==
  \A a \in Admins : request[a].pc = "launch" =>
    /\ Latest(request[a].run) /\ row[request[a].run].status = "pending"
    /\ worker[request[a].run].pc = "none"

Serial ==
  /\ WritersInFlight /\ WorkersHaveRows /\ RequestsAhead
  /\ LaunchesAlone /\ LaunchesLatest

LEMMA SerialIsOneWriter == ASSUME TypeOK, Serial PROVE OneWriter
  BY BoundAssumption DEF Serial, WritersInFlight, OneWriter, InFlight, Latest, Runs

LEMMA SerialInit == Init => Serial
  BY DEF Init, Serial, WritersInFlight, WorkersHaveRows, RequestsAhead, LaunchesAlone,
         LaunchesLatest, Writing, NoRow, NoRequest, NoWorker

\* What a step of the worker of run i may do: it stays with its own run, and
\* while it may touch the table it keeps the run in flight.
OwnStep(i) ==
  /\ worker[i].pc # "none" /\ UNCHANGED request
  /\ \A j \in Runs \ {i} : row'[j] = row[j] /\ progress'[j] = progress[j] /\ worker'[j] = worker[j]
  /\ row'[i].status # "none" /\ row'[i].mode = row[i].mode
  /\ Writing(i)' => Writing(i) /\ Busy(row'[i].status) /\ Busy(progress'[i])

LEMMA GotoOwn ==
  ASSUME TypeOK, Serial, NEW i \in Runs, NEW pc, Goto(i, pc), UNCHANGED <<request, row, progress>>,
         worker[i].pc # "none", Writing(i)' => Writing(i)
  PROVE  OwnStep(i)
<1>1. \A j \in Runs \ {i} : worker'[j] = worker[j]
  BY TypeParts DEF WorkOK, Goto
<1>2. Writing(i) => Busy(row[i].status) /\ Busy(progress[i])
  BY DEF Serial, WritersInFlight, InFlight
<1>3. row[i].status # "none"
  BY DEF Serial, WorkersHaveRows
<1> QED
  BY <1>1, <1>2, <1>3 DEF OwnStep

LEMMA WorkOwn == ASSUME TypeOK, Serial, NEW i \in Runs, Work(i) PROVE OwnStep(i)
<1> USE TypeParts
<1>1. \A pc \in Pcs : Goto(i, pc) => worker'[i].pc = pc
  BY DEF Goto, WorkOK, WorkerType
<1>2. row[i].status # "none" \/ worker[i].pc = "none"
  BY DEF Serial, WorkersHaveRows
<1>3. Writing(i) => Busy(row[i].status) /\ Busy(progress[i])
  BY DEF Serial, WritersInFlight, InFlight
<1>4. CASE Begin(i)
  BY <1>4 DEF Begin, OwnStep, Writing, Busy, RunsOK, RowType, WorkOK, WorkerType
<1>5. CASE Connect(i) \/ ExtractDdl(i) \/ ExtractRaises(i) \/ ApplyDdl(i) \/ DeleteRange(i) \/ StartCopy(i)
  BY <1>1, <1>5, GotoOwn
     DEF Connect, ExtractDdl, ExtractRaises, ApplyDdl, DeleteRange, StartCopy, Writing, Pcs
<1>6. CASE Prepare(i)
  <2>1. PICK pc \in Pcs : Goto(i, pc)
    BY <1>6 DEF Prepare, Pcs
  <2> QED
    BY <1>6, <2>1, GotoOwn DEF Prepare, Writing
<1>7. CASE StepFails(i) \/ CopyEnds(i) \/ StreamEnds(i)
  BY <1>1, <1>7, GotoOwn DEF StepFails, CopyEnds, StreamEnds, Writing, Pcs
<1>8. CASE ProgressLine(i)
  <2>1. PICK n : row' = [row EXCEPT ![i].count = n]
    BY <1>8 DEF ProgressLine
  <2> QED
    BY <1>2, <1>3, <1>8, <2>1 DEF ProgressLine, OwnStep, Writing, RunsOK, RowType
<1>9. CASE Report(i) \/ ReportFailure(i)
  <2>1. ~Writing(i)'
    BY <1>1, <1>9 DEF Report, ReportFailure, Writing, Pcs
  <2> QED
    BY <1>2, <1>9, <2>1 DEF Report, ReportFailure, OwnStep, Goto, RunsOK, WorkOK
<1>10. CASE Save(i) \/ SaveFailure(i)
  <2>1. ~Writing(i)'
    BY <1>1, <1>10 DEF Save, SaveFailure, Writing, Pcs
  <2> QED
    BY <1>2, <1>10, <2>1 DEF Save, SaveFailure, OwnStep, Goto, RunsOK, RowType, WorkOK
<1>11. CASE Reconcile(i)
  <2>1. ~Writing(i)'
    BY <1>1, <1>11 DEF Reconcile, Writing, Pcs
  <2> QED
    BY <1>2, <1>11, <2>1 DEF Reconcile, OwnStep, Goto, RunsOK, RowType, WorkOK
<1> QED
  BY <1>4, <1>5, <1>6, <1>7, <1>8, <1>9, <1>10, <1>11 DEF Work

LEMMA SerialOwn == ASSUME TypeOK, Serial, NEW i \in Runs, OwnStep(i) PROVE Serial'
<1> USE TypeParts
<1>1. \A j \in Runs : (row'[j].status = "none") <=> (row[j].status = "none")
  BY DEF OwnStep, Serial, WorkersHaveRows
<1>2. \A j \in Runs : Latest(j)' <=> Latest(j)
  BY <1>1 DEF Latest
<1>3. \A j \in Runs : Writing(j)' => Writing(j)
  BY DEF OwnStep, Writing
<1>4. WritersInFlight'
  BY <1>2, <1>3 DEF OwnStep, Serial, WritersInFlight, InFlight
<1>5. WorkersHaveRows'
  BY DEF OwnStep, Serial, WorkersHaveRows
<1>6. RequestsAhead'
  BY <1>1 DEF OwnStep, Serial, RequestsAhead
<1>7. LaunchesAlone'
  BY <1>3 DEF OwnStep, Serial, LaunchesAlone
<1>8. LaunchesLatest'
  BY <1>2 DEF OwnStep, Serial, LaunchesLatest, RequestOK
<1> QED
  BY <1>4, <1>5, <1>6, <1>7, <1>8 DEF Serial

LEMMA SerialRequest ==
  ASSUME OneAdmin, TypeOK, Serial, NEW a \in Admins, Arrive(a) \/ Handle(a) PROVE Serial'
<1> USE TypeParts DEF Serial
<1>0. \A b \in Admins : b = a
  BY DEF OneAdmin
<1>1. CASE Arrive(a)
  <2>1. PICK i \in Runs, mode \in Modes :
          /\ \A j \in Taken : j < i
          /\ request' = [request EXCEPT ![a] = [pc |-> "check", run |-> i, mode |-> mode]]
    BY <1>1 DEF Arrive
  <2>2. request'[a].pc = "check" /\ request'[a].run = i
    BY <2>1 DEF RequestOK
  <2>3. RequestsAhead' /\ LaunchesAlone' /\ LaunchesLatest'
    BY <1>0, <1>1, <2>1, <2>2 DEF Arrive, RequestsAhead, LaunchesAlone, LaunchesLatest, Taken
  <2> QED
    BY <1>1, <2>3 DEF Arrive, WritersInFlight, WorkersHaveRows, InFlight, Latest, Writing
<1>2. CASE Check(a)
  <2>1. WritersInFlight' /\ WorkersHaveRows'
    BY <1>2 DEF Check, WritersInFlight, WorkersHaveRows, InFlight, Latest, Writing
  <2>2. CASE Respond(a)
    <3>1. request'[a].pc = "idle"
      BY <2>2 DEF Respond, NoRequest, RequestOK
    <3> QED
      BY <1>0, <2>1, <3>1 DEF RequestsAhead, LaunchesAlone, LaunchesLatest
  <2>3. CASE Proceed(a, "insert") /\ ~\E i \in Runs : InFlight(i)
    <3>1. request'[a].pc = "insert" /\ request'[a].run = request[a].run
      BY <2>3 DEF Proceed, RequestOK, RequestType
    <3>2. RequestsAhead'
      BY <1>0, <1>2, <3>1 DEF Check, RequestsAhead
    <3>3. \A i \in Runs : ~Writing(i)'
      BY <1>2, <2>3 DEF Check, WritersInFlight, Writing
    <3> QED
      BY <1>0, <2>1, <3>1, <3>2, <3>3 DEF LaunchesAlone, LaunchesLatest
  <2> QED
    BY <1>2, <2>2, <2>3 DEF Check
<1>3. CASE InsertRun(a)
  <2> DEFINE n == request[a].run
  <2>1. n \in Runs /\ request'[a].pc = "launch" /\ request'[a].run = n
    BY <1>3 DEF InsertRun, Proceed, RequestOK, RequestType
  <2>2. row'[n].status = "pending" /\ \A j \in Runs \ {n} : row'[j] = row[j]
    BY <1>3, <2>1 DEF InsertRun, RunsOK, NoRow
  <2>3. \A j \in Runs : row[j].status # "none" => j < n
    BY <1>3 DEF InsertRun, RequestsAhead
  <2>4. Latest(n)'
    <3> SUFFICES ASSUME NEW j \in Runs, j > n PROVE row'[j].status = "none"
      BY <2>1, <2>2 DEF Latest
    <3> QED
      BY <2>1, <2>2, <2>3, BoundAssumption DEF Runs
  <2>5. row[n].status = "none"
    BY <2>1, <2>3, BoundAssumption DEF Runs
  <2>6. worker'[n].pc = "none"
    BY <1>3, <2>1, <2>5 DEF InsertRun, WorkersHaveRows
  <2>7. \A j \in Runs : ~Writing(j)'
    BY <1>3 DEF InsertRun, LaunchesAlone, Writing
  <2>8. WorkersHaveRows'
    BY <1>3, <2>1, <2>2 DEF InsertRun, WorkersHaveRows
  <2> QED
    BY <1>0, <2>1, <2>2, <2>4, <2>6, <2>7, <2>8
       DEF WritersInFlight, RequestsAhead, LaunchesAlone, LaunchesLatest
<1>4. CASE Launch(a)
  <2> DEFINE n == request[a].run
  <2>1. n \in Runs /\ request'[a].pc = "idle"
    BY <1>4 DEF Launch, Respond, NoRequest, RequestOK
  <2>2. Latest(n) /\ row[n].status = "pending" /\ \A j \in Runs : ~Writing(j)
    BY <1>4 DEF Launch, LaunchesLatest, LaunchesAlone
  <2>3. progress'[n] = "pending" /\ \A j \in Runs \ {n} : worker'[j] = worker[j]
    BY <1>4, <2>1 DEF Launch, RunsOK, WorkOK
  <2>4. WritersInFlight'
    BY <1>4, <2>1, <2>2, <2>3 DEF Launch, WritersInFlight, InFlight, Latest, Busy, Writing
  <2>5. WorkersHaveRows'
    BY <1>4, <2>1, <2>2, <2>3 DEF Launch, WorkersHaveRows
  <2> QED
    BY <1>0, <2>1, <2>4, <2>5 DEF RequestsAhead, LaunchesAlone, LaunchesLatest
<1> QED
  BY <1>1, <1>2, <1>3, <1>4 DEF Handle

LEMMA SerialStep == OneAdmin /\ TypeOK /\ Serial /\ [Next]_vars => Serial'
<1> SUFFICES ASSUME OneAdmin, TypeOK, Serial, [Next]_vars PROVE Serial'
  OBVIOUS
<1>1. CASE UNCHANGED <<row, progress, request, worker>>
  BY <1>1 DEF Serial, WritersInFlight, WorkersHaveRows, RequestsAhead, LaunchesAlone,
              LaunchesLatest, InFlight, Latest, Writing
<1>2. CASE Crash
  <2>1. \A a \in Admins : request'[a].pc = "idle"
    BY <1>2 DEF Crash, NoRequest
  <2>2. \A i \in Runs : worker'[i].pc = "none"
    BY <1>2, TypeParts DEF Crash, WorkOK, WorkerType
  <2> QED
    BY <2>1, <2>2 DEF Serial, WritersInFlight, WorkersHaveRows, RequestsAhead, LaunchesAlone,
                      LaunchesLatest, Writing
<1>3. CASE \E a \in Admins : Arrive(a) \/ Handle(a)
  BY <1>3, SerialRequest
<1>4. CASE \E i \in Runs : Work(i)
  BY <1>4, WorkOwn, SerialOwn
<1>5. CASE \E i \in Runs : Export(i)
  BY <1>1, <1>5 DEF Export, CopyOpens, CopyRow, CopyExits, CopyDies
<1> QED
  BY <1>1, <1>2, <1>3, <1>4, <1>5 DEF Next, vars

\* With one request thread, two workers of one process never work on the table
\* at once: the check against the latest run and its progress entry is enough.
THEOREM OneWriterHolds == ASSUME OneAdmin PROVE Spec => []OneWriter
<1>1. Init => TypeOK /\ Serial
  BY TypeInit, SerialInit
<1>2. TypeOK /\ Serial /\ [Next]_vars => (TypeOK /\ Serial)'
  BY TypeStep, SerialStep
<1>3. TypeOK /\ Serial => OneWriter
  BY SerialIsOneWriter
<1> QED
  BY <1>1, <1>2, <1>3, PTL DEF Spec

(***************************************************************************)
(* No row twice, but those a repair pulls again without having deleted     *)
(* them.  The worker waits for its exec, so with one writer nothing else   *)
(* touches the table meanwhile; what the exec has yet to write is not in   *)
(* the table, or the index keeps it out.                                   *)
(***************************************************************************)
Active(i) == exec[i].state \in {"starting", "running"}

ExecsWaited == \A i \in Runs : Active(i) => worker[i].pc = "wait"
TodoMissing ==
  \A i \in Runs : exec[i].state = "running" /\ row[i].mode # "pk"
                   => exec[i].todo \cap RowsOf(target) \subseteq Repulled
RangeCleared ==
  \A i \in Runs : row[i].mode = "watermark" /\ (worker[i].pc = "copy" \/ exec[i].state = "starting")
                   => Late \cap RowsOf(target) \subseteq Repulled
KeyGuarded ==
  \A i \in Runs : row[i].mode = "pk" =>
    worker[i].pc # "delete" /\ (worker[i].pc \in {"copy", "wait"} => indexed)

Clean == Attended => ExecsWaited /\ TodoMissing /\ RangeCleared /\ KeyGuarded /\ NoTwice

\* what NoTwice says of the table
Apart(t) == \A p, q \in t : p[1] = q[1] /\ p # q => p[1] \in Repulled

LEMMA ApartSubset == ASSUME NEW t, NEW u \in SUBSET t, Apart(t) PROVE Apart(u)
  BY DEF Apart

LEMMA ApartAdd ==
  ASSUME NEW t \in Table, Apart(t), NEW r, r \in RowsOf(t) => r \in Repulled, NEW i
  PROVE  Apart(t \cup {<<r, i>>})
<1>1. \A p \in t : p[1] = r => r \in Repulled
  BY NoTable DEF RowsOf
<1> DEFINE q == <<r, i>>
<1>2. q[1] = r
  OBVIOUS
<1> HIDE DEF q
<1>3. Apart(t \cup {q})
  BY <1>1, <1>2 DEF Apart
<1> QED
  BY <1>3 DEF q

LEMMA RowsAdd ==
  ASSUME NEW t \in Table, NEW r \in Rows, NEW i \in Runs
  PROVE  RowsOf(t \cup {<<r, i>>}) = RowsOf(t) \cup {r}
<1>1. t \cup {<<r, i>>} \in Table
  BY BoundAssumption DEF Table, Runs
<1>2. RowsOf(t) = {p[1] : p \in t} /\ RowsOf(t \cup {<<r, i>>}) = {p[1] : p \in t \cup {<<r, i>>}}
  BY <1>1, NoTable DEF RowsOf
<1>3. {p[1] : p \in t \cup {<<r, i>>}} = {p[1] : p \in t} \cup {r}
  <2>1. <<r, i>>[1] = r
    OBVIOUS
  <2> QED
    BY <2>1, Zenon
<1> QED
  BY <1>2, <1>3

LEMMA RowsNone == RowsOf({}) = {} /\ RowsOf(None) = {}
<1>1. {} \in Table
  BY DEF Table
<1> QED
  BY <1>1, NoTable DEF RowsOf

LEMMA CleanInit == Init => Clean
<1> SUFFICES ASSUME Init PROVE Clean
  OBVIOUS
<1>1. ExecsWaited /\ TodoMissing /\ RangeCleared /\ KeyGuarded
  BY DEF Init, ExecsWaited, TodoMissing, RangeCleared, KeyGuarded, Active, NoExec, NoWorker
<1>2. \A S \in SUBSET Rows : Apart(Load(S, 0))
  BY DEF Apart, Load
<1>3. NoTwice
  BY <1>2 DEF Init, NoTwice, Apart
<1> QED
  BY <1>1, <1>3 DEF Clean

LEMMA AttendedStep == [Next]_vars /\ Attended' => Attended
<1>1. \A kind : Trouble(kind) => trouble \subseteq trouble'
  BY DEF Trouble
<1>2. [Next]_vars => trouble \subseteq trouble'
  BY <1>1 DEF Next, vars, Crash, Arrive, Handle, Check, InsertRun, Launch, Work, Export, Begin,
     Connect, ExtractDdl, ExtractRaises, ApplyDdl, Prepare, DeleteRange, StartCopy, StepFails,
     ProgressLine, CopyEnds, StreamEnds, Report, Save, Reconcile, ReportFailure, SaveFailure,
     CopyOpens, CopyRow, CopyExits, CopyDies
<1> QED
  BY <1>2 DEF Attended

\* A step that leaves the table, its index and the execs alone, keeps the mode
\* of a run that has a worker, and starts, ends and deletes nothing.
LEMMA CleanFrame ==
  ASSUME Attended, Clean, UNCHANGED <<target, indexed, exec>>,
         \A i \in Runs : worker[i].pc # "none" => row'[i].mode = row[i].mode,
         \A i \in Runs : worker'[i].pc \in {"copy", "wait"} <=> worker[i].pc \in {"copy", "wait"},
         \A i \in Runs : worker'[i].pc = "wait" <=> worker[i].pc = "wait",
         \A i \in Runs : worker'[i].pc = "delete" => worker[i].pc = "delete"
  PROVE  Clean'
<1>1. ExecsWaited'
  BY DEF Clean, ExecsWaited, Active
<1>2. TodoMissing'
  BY DEF Clean, TodoMissing, ExecsWaited, Active
<1>3. RangeCleared'
  BY DEF Clean, RangeCleared, ExecsWaited, Active
<1>4. KeyGuarded'
  BY DEF Clean, KeyGuarded
<1>5. Attended /\ NoTwice
  BY DEF Clean
<1>6. NoTwice'
  BY <1>5 DEF NoTwice
<1> QED
  BY <1>1, <1>2, <1>3, <1>4, <1>6 DEF Clean

LEMMA CleanRequest ==
  ASSUME TypeOK, Serial, Attended, Clean, NEW a \in Admins, Arrive(a) \/ Handle(a) PROVE Clean'
<1> USE TypeParts
<1>1. CASE Arrive(a) \/ Check(a)
  BY <1>1, CleanFrame DEF Arrive, Check
<1>2. CASE InsertRun(a)
  <2>1. request[a].run \in Runs /\ row[request[a].run].status = "none"
    BY <1>2, BoundAssumption DEF InsertRun, RequestOK, Serial, RequestsAhead, Runs
  <2>2. worker[request[a].run].pc = "none"
    BY <2>1 DEF Serial, WorkersHaveRows
  <2>3. \A i \in Runs : worker[i].pc # "none" => row'[i].mode = row[i].mode
    BY <1>2, <2>2 DEF InsertRun, RunsOK
  <2> QED
    BY <1>2, <2>3, CleanFrame DEF InsertRun
<1>3. CASE Launch(a)
  <2>1. request[a].run \in Runs /\ worker[request[a].run].pc = "none"
    BY <1>3 DEF Launch, RequestOK, Serial, LaunchesLatest
  <2>2. worker'[request[a].run].pc = "begin"
        /\ \A i \in Runs \ {request[a].run} : worker'[i] = worker[i]
    BY <1>3, <2>1 DEF Launch, WorkOK
  <2> QED
    BY <1>3, <2>1, <2>2, CleanFrame DEF Launch
<1> QED
  BY <1>1, <1>2, <1>3 DEF Handle

LEMMA CleanWork ==
  ASSUME TypeOK, Serial, Attended, Clean, Attended', NEW i \in Runs, Work(i)
  PROVE  Clean'
<1> USE TypeParts
<1>1. OwnStep(i)
  BY WorkOwn
<1>2. \A j \in Runs : row'[j].mode = row[j].mode
  BY <1>1 DEF OwnStep
<1>3. \A pc \in Pcs : Goto(i, pc) => worker'[i].pc = pc
  BY DEF Goto, WorkOK, WorkerType
<1>4. \A j \in Runs \ {i} : worker'[j] = worker[j]
  BY <1>1 DEF OwnStep
<1>5. Writing(i) => \A j \in Runs \ {i} : ~Writing(j) /\ ~Active(j)
  BY SerialIsOneWriter DEF OneWriter, Clean, ExecsWaited, Writing
<1>6. ExecsWaited /\ TodoMissing /\ RangeCleared /\ KeyGuarded /\ NoTwice
  BY DEF Clean
<1>7. CASE /\ UNCHANGED <<target, indexed, exec>>
           /\ worker[i].pc \notin {"copy", "wait"} /\ worker'[i].pc \notin {"delete", "copy", "wait"}
  BY <1>2, <1>4, <1>7, CleanFrame
<1>8. CASE Begin(i) \/ Connect(i) \/ ExtractDdl(i) \/ ExtractRaises(i) \/ StepFails(i)
  BY <1>3, <1>7, <1>8 DEF Begin, Connect, ExtractDdl, ExtractRaises, StepFails, Pcs, WorkOK
<1>9. CASE Report(i) \/ Save(i) \/ Reconcile(i) \/ ReportFailure(i) \/ SaveFailure(i)
  BY <1>3, <1>7, <1>9 DEF Report, Save, Reconcile, ReportFailure, SaveFailure, Pcs
<1>10. CASE ApplyDdl(i)
  <2>1. worker'[i].pc = "prepare" /\ \A j \in Runs : ~Active(j)
    BY <1>3, <1>5, <1>6, <1>10 DEF ApplyDdl, Writing, ExecsWaited, Pcs
  <2>2. \A j \in Runs : worker'[j].pc \notin {"delete", "copy", "wait"}
    BY <1>4, <1>5, <1>10, <2>1 DEF ApplyDdl, Writing
  <2>3. NoTwice'
    BY <1>10 DEF ApplyDdl, NoTwice
  <2> QED
    BY <1>10, <2>1, <2>2, <2>3
       DEF ApplyDdl, Clean, ExecsWaited, TodoMissing, RangeCleared, KeyGuarded, Active
<1>11. CASE Prepare(i)
  <2>1. \A j \in Runs : ~Active(j)
    BY <1>5, <1>6, <1>11 DEF Prepare, Writing, ExecsWaited
  <2>2. worker'[i].pc \in {"fail", "delete", "copy"}
        /\ (worker'[i].pc = "copy" => row[i].mode # "watermark" /\ (row[i].mode = "pk" => indexed'))
        /\ (worker'[i].pc = "delete" => row[i].mode # "pk")
    BY <1>3, <1>11 DEF Prepare, Pcs
  <2>3. \A j \in Runs \ {i} : worker'[j].pc \notin {"delete", "copy", "wait"}
    BY <1>4, <1>5, <1>11 DEF Prepare, Writing
  <2>4. NoTwice'
    BY <1>6, <1>11 DEF Prepare, NoTwice
  <2>5. ExecsWaited' /\ TodoMissing'
    BY <1>11, <2>1 DEF Prepare, ExecsWaited, TodoMissing, Active
  <2>6. RangeCleared' /\ KeyGuarded'
    BY <1>2, <1>11, <2>1, <2>2, <2>3 DEF Prepare, RangeCleared, KeyGuarded, Active
  <2> QED
    BY <2>4, <2>5, <2>6 DEF Clean
<1>12. CASE DeleteRange(i)
  <2>1. worker'[i].pc = "copy" /\ \A j \in Runs : ~Active(j)
    BY <1>3, <1>5, <1>6, <1>12 DEF DeleteRange, Writing, ExecsWaited, Pcs
  <2>2. target \in Table /\ target' \in SUBSET target /\ target' \in Table
    BY <1>12 DEF DeleteRange, TargetOK, Table
  <2>3. Late \cap RowsOf(target') \subseteq Repulled
    BY <1>12, <2>2, NoTable DEF DeleteRange, RowsOf, Repulled
  <2>4. NoTwice'
    BY <1>6, <1>12, <2>2 DEF DeleteRange, NoTwice
  <2>5. KeyGuarded'
    BY <1>2, <1>4, <1>5, <1>6, <1>12, <2>1 DEF DeleteRange, KeyGuarded, Writing, Modes
  <2> QED
    BY <1>12, <2>1, <2>3, <2>4, <2>5 DEF DeleteRange, Clean, ExecsWaited, TodoMissing, RangeCleared, Active
<1>13. CASE StartCopy(i)
  <2>1. worker'[i].pc = "wait" /\ exec'[i].state = "starting" /\ \A j \in Runs \ {i} : exec'[j] = exec[j]
    BY <1>3, <1>13 DEF StartCopy, WorkOK, ExecType, Pcs
  <2>2. \A j \in Runs \ {i} : ~Writing(j) /\ ~Active(j)
    BY <1>5, <1>13 DEF StartCopy, Writing
  <2>3. ExecsWaited' /\ TodoMissing'
    BY <2>1, <2>2 DEF ExecsWaited, TodoMissing, Active
  <2>4. RangeCleared' /\ KeyGuarded'
    BY <1>2, <1>4, <1>6, <1>13, <2>1, <2>2 DEF StartCopy, RangeCleared, KeyGuarded, Active, Writing
  <2>5. NoTwice'
    BY <1>6, <1>13 DEF StartCopy, NoTwice
  <2> QED
    BY <2>3, <2>4, <2>5 DEF Clean
<1>14. CASE ProgressLine(i)
  BY <1>2, <1>4, <1>14, CleanFrame DEF ProgressLine
<1>15. CASE CopyEnds(i)
  <2>1. worker'[i].pc \in {"report", "fail"} /\ ~Active(i)
    BY <1>3, <1>15 DEF CopyEnds, Active, Pcs
  <2>2. ExecsWaited'
    BY <1>4, <1>6, <1>15, <2>1 DEF CopyEnds, ExecsWaited, Active
  <2>3. TodoMissing' /\ RangeCleared' /\ KeyGuarded'
    BY <1>2, <1>4, <1>6, <1>15, <2>1 DEF CopyEnds, TodoMissing, RangeCleared, KeyGuarded
  <2>4. NoTwice'
    BY <1>6, <1>15 DEF CopyEnds, NoTwice
  <2> QED
    BY <2>2, <2>3, <2>4 DEF Clean
<1>16. CASE StreamEnds(i)
  BY <1>16 DEF StreamEnds, Trouble, Attended
<1> QED
  BY <1>8, <1>9, <1>10, <1>11, <1>12, <1>13, <1>14, <1>15, <1>16 DEF Work

LEMMA CleanExport ==
  ASSUME TypeOK, Serial, Attended, Clean, NEW i \in Runs, Export(i)
  PROVE  Clean'
<1> USE TypeParts
<1>1. ExecsWaited /\ TodoMissing /\ RangeCleared /\ KeyGuarded /\ NoTwice
  BY DEF Clean
<1>2. Active(i) => \A j \in Runs \ {i} : ~Writing(j) /\ ~Active(j)
  BY <1>1, SerialIsOneWriter DEF ExecsWaited, OneWriter, Writing
<1>3. CASE CopyOpens(i)
  <2>1. PICK S \in SUBSET Rows :
          exec' = [exec EXCEPT ![i] = [state |-> "running", todo |-> Selected(i, S)]]
    BY <1>3 DEF CopyOpens
  <2>2. exec'[i].state = "running" /\ exec'[i].todo = Selected(i, S)
        /\ \A j \in Runs \ {i} : exec'[j] = exec[j] /\ ~Writing(j) /\ ~Active(j)
    BY <1>2, <1>3, <2>1 DEF CopyOpens, WorkOK, Active
  <2>3. worker[i].pc = "wait"
    BY <1>1, <1>3 DEF CopyOpens, ExecsWaited, Active
  <2>4. ExecsWaited' /\ RangeCleared' /\ KeyGuarded'
    BY <1>1, <1>3, <2>2, <2>3
       DEF CopyOpens, ExecsWaited, RangeCleared, KeyGuarded, Active, Writing
  <2>5. TodoMissing'
    <3>1. row[i].mode = "full" => RowsOf(target') = {}
      BY <1>3, RowsNone DEF CopyOpens, Full
    <3>2. row[i].mode = "watermark" => Selected(i, S) \cap RowsOf(target') \subseteq Repulled
      BY <1>1, <1>3 DEF CopyOpens, Full, RangeCleared, Selected
    <3>3. row[i].mode \in Modes
      BY DEF RunsOK, RowType
    <3> QED
      BY <1>3, <2>2, <3>1, <3>2, <3>3 DEF CopyOpens, TodoMissing, Active, Modes
  <2>6. NoTwice'
    BY <1>1, <1>3 DEF CopyOpens, NoTwice
  <2> QED
    BY <2>4, <2>5, <2>6 DEF Clean
<1>4. CASE CopyRow(i)
  <2>1. PICK r \in exec[i].todo :
          \/ /\ ~Conflict(r) /\ target' = target \cup {<<r, i>>}
             /\ exec' = [exec EXCEPT ![i].todo = @ \ {r}]
          \/ /\ UNCHANGED target
             /\ \/ exec' = [exec EXCEPT ![i].todo = @ \ {r}]
                \/ exec' = [exec EXCEPT ![i].state = "failed"]
    BY <1>4 DEF CopyRow
  <2>2. /\ exec[i].state = "running" /\ worker[i].pc = "wait" /\ r \in Rows /\ target \in Table
        /\ exec'[i].state \in {"running", "failed"}
        /\ \A j \in Runs \ {i} : exec'[j] = exec[j] /\ ~Writing(j) /\ ~Active(j)
    BY <1>1, <1>2, <1>4, <2>1 DEF CopyRow, ExecsWaited, Active, WorkOK, ExecType, TargetOK
  <2>3. ExecsWaited' /\ RangeCleared' /\ KeyGuarded'
    BY <1>1, <1>4, <2>2 DEF CopyRow, ExecsWaited, RangeCleared, KeyGuarded, Active, Writing
  <2>4. CASE ~Conflict(r) /\ target' = target \cup {<<r, i>>} /\ exec' = [exec EXCEPT ![i].todo = @ \ {r}]
    <3>1. r \in RowsOf(target) => r \in Repulled
      BY <1>1, <2>2, <2>4 DEF TodoMissing, KeyGuarded, Conflict
    <3>2. RowsOf(target') = RowsOf(target) \cup {r} /\ exec'[i].todo = exec[i].todo \ {r}
      BY <2>2, <2>4, RowsAdd DEF WorkOK, ExecType
    <3>3. TodoMissing'
      BY <1>1, <1>4, <2>2, <3>2 DEF CopyRow, TodoMissing, Active
    <3>4. NoTwice'
      <4>1. Apart(target)
        BY <1>1, <2>2, NoTable DEF NoTwice, Apart
      <4>2. Apart(target \cup {<<r, i>>})
        BY <2>2, <3>1, <4>1, ApartAdd
      <4> QED
        BY <2>4, <4>2 DEF NoTwice, Apart
    <3> QED
      BY <2>3, <3>3, <3>4 DEF Clean
  <2>5. CASE /\ UNCHANGED target
             /\ \/ exec' = [exec EXCEPT ![i].todo = @ \ {r}]
                \/ exec' = [exec EXCEPT ![i].state = "failed"]
    <3>1. exec'[i].todo \subseteq exec[i].todo
      BY <2>5 DEF WorkOK, ExecType
    <3>2. TodoMissing'
      BY <1>1, <1>4, <2>2, <2>5, <3>1 DEF CopyRow, TodoMissing, Active
    <3>3. NoTwice'
      BY <1>1, <1>4, <2>5 DEF CopyRow, NoTwice
    <3> QED
      BY <2>3, <3>2, <3>3 DEF Clean
  <2> QED
    BY <2>1, <2>4, <2>5
<1>5. CASE CopyExits(i) \/ CopyDies(i)
  <2>1. exec'[i].state \in {"done", "failed"} /\ \A j \in Runs \ {i} : exec'[j] = exec[j]
    BY <1>5 DEF CopyExits, CopyDies, WorkOK, ExecType
  <2>2. ExecsWaited' /\ TodoMissing' /\ RangeCleared' /\ KeyGuarded'
    BY <1>1, <1>5, <2>1
       DEF CopyExits, CopyDies, ExecsWaited, TodoMissing, RangeCleared, KeyGuarded, Active
  <2>3. NoTwice'
    BY <1>1, <1>5 DEF CopyExits, CopyDies, NoTwice, Attended, Trouble
  <2> QED
    BY <2>2, <2>3 DEF Clean
<1> QED
  BY <1>3, <1>4, <1>5 DEF Export

LEMMA CleanStep ==
  ASSUME TypeOK, Serial, Clean, [Next]_vars PROVE Clean'
<1>1. SUFFICES ASSUME Attended' PROVE Clean'
  BY DEF Clean
<1>2. Attended
  BY <1>1, AttendedStep
<1>3. CASE UNCHANGED vars
  BY <1>2, <1>3, CleanFrame DEF vars
<1>4. CASE Crash
  BY <1>1, <1>4 DEF Crash, Trouble, Attended
<1> QED
  BY <1>1, <1>2, <1>3, <1>4, CleanRequest, CleanWork, CleanExport DEF Next

\* With one request thread, neither a full load nor a repair, nor any sequence of
\* them, puts a row into the table twice while every exec is attended by its worker,
\* except the rows past the cutoff as numbers and not as text: a repair pulls these
\* again and leaves them, whatever the cutoff and however the two orders differ.
THEOREM NoTwiceHolds == ASSUME OneAdmin PROVE Spec => []NoTwice
<1>1. Init => TypeOK /\ Serial /\ Clean
  BY TypeInit, SerialInit, CleanInit
<1>2. TypeOK /\ Serial /\ Clean /\ [Next]_vars => (TypeOK /\ Serial /\ Clean)'
  BY TypeStep, SerialStep, CleanStep
<1>3. Clean => NoTwice
  BY DEF Clean, NoTwice
<1> QED
  BY <1>1, <1>2, <1>3, PTL DEF Spec

(***************************************************************************)
(* A successful run leaves what it had to.  What is due is in the table    *)
(* when a repair begins; the range it clears is due again from the view,   *)
(* but for the rows that are in it as text alone, and until the exec is    *)
(* done the rows it has yet to write make up for those that are missing.   *)
(***************************************************************************)
Kept(i) == due \ Dropped(i)

Owed(i) ==
  /\ worker[i].pc \in {"ddl", "apply"} => row[i].mode = "full"
  /\ row[i].mode # "full" /\ worker[i].pc \in {"begin", "connect", "prepare", "delete"}
       => due \subseteq RowsOf(target)
  /\ row[i].mode = "watermark" /\ (worker[i].pc = "copy" \/ exec[i].state = "starting")
       => Kept(i) \ Late \subseteq RowsOf(target)
  /\ exec[i].state = "running" => Kept(i) \subseteq RowsOf(target) \cup exec[i].todo
  /\ worker[i].pc = "wait" /\ exec[i].state = "done" => Kept(i) \subseteq RowsOf(target)
  /\ worker[i].pc \in {"report", "save"} \/ row[i].status = "success" => Kept(i) \subseteq RowsOf(target)

Whole == Attended => \A i \in Runs : Latest(i) => Owed(i)

LEMMA WholeInit == Init => Whole
  BY DEF Init, Whole, Owed, Latest, NoRow, NoWorker, NoExec

LEMMA OneLatest == ASSUME NEW i \in Runs, NEW j \in Runs, Latest(i), Latest(j) PROVE i = j
  BY BoundAssumption DEF Latest, Runs

LEMMA LatestSame ==
  ASSUME TypeOK, Serial, NEW i \in Runs, OwnStep(i) PROVE \A j \in Runs : Latest(j)' <=> Latest(j)
<1>1. \A j \in Runs : (row'[j].status = "none") <=> (row[j].status = "none")
  BY DEF OwnStep, Serial, WorkersHaveRows
<1> QED
  BY <1>1 DEF Latest

LEMMA OwedSame ==
  ASSUME NEW j \in Runs, row'[j] = row[j], worker'[j] = worker[j], UNCHANGED <<target, exec, due>>, Owed(j)
  PROVE  Owed(j)'
  BY DEF Owed, Kept, Dropped

LEMMA WholeRequest ==
  ASSUME TypeOK, Serial, Serial', Attended, Clean, Whole, NEW a \in Admins, Arrive(a) \/ Handle(a)
  PROVE  Whole'
<1> USE TypeParts
<1>1. CASE Arrive(a) \/ Check(a)
  BY <1>1, OwedSame DEF Arrive, Check, Whole, Latest
<1>2. CASE InsertRun(a)
  <2>1. PICK n \in Runs : request[a].run = n
    BY <1>2 DEF InsertRun, RequestOK
  <2>2. request'[a].pc = "launch" /\ request'[a].run = n
    BY <1>2, <2>1 DEF InsertRun, Proceed, RequestOK, RequestType
  <2>3. Latest(n)' /\ worker'[n].pc = "none" /\ row'[n].status = "pending"
    BY <2>2 DEF Serial, LaunchesLatest
  <2>4. ~Active(n)
    BY <1>2, <2>1, <2>3 DEF InsertRun, Clean, ExecsWaited
  <2>5. Owed(n)'
    BY <1>2, <2>3, <2>4 DEF InsertRun, Owed, Active
  <2>6. \A j \in Runs : Latest(j)' => j = n
    BY <2>1, <2>3, BoundAssumption DEF Latest, Runs
  <2> QED
    BY <2>5, <2>6 DEF Whole
<1>3. CASE Launch(a)
  <2>1. PICK n \in Runs :
          request[a].run = n /\ Latest(n) /\ row[n].status = "pending" /\ worker[n].pc = "none"
    BY <1>3 DEF Launch, RequestOK, Serial, LaunchesLatest
  <2>2. worker'[n].pc = "begin" /\ due' = RowsOf(target)
    BY <1>3, <2>1 DEF Launch, WorkOK
  <2>3. ~Active(n)
    BY <2>1 DEF Clean, ExecsWaited
  <2>4. Owed(n)'
    BY <1>3, <2>1, <2>2, <2>3 DEF Launch, Owed, Active
  <2>5. \A j \in Runs : Latest(j)' => j = n
    BY <1>3, <2>1, OneLatest DEF Launch, Latest
  <2> QED
    BY <2>4, <2>5 DEF Whole
<1> QED
  BY <1>1, <1>2, <1>3 DEF Handle

LEMMA OwedWork ==
  ASSUME TypeOK, Serial, Attended, Attended', Clean, NEW i \in Runs,
         Latest(i), Owed(i), Work(i)
  PROVE  Owed(i)'
<1> USE TypeParts
<1>1. OwnStep(i) /\ row'[i].mode = row[i].mode /\ row[i].mode \in Modes
  BY WorkOwn DEF OwnStep, RunsOK, RowType
<1>2. \A pc \in Pcs : Goto(i, pc) => worker'[i].pc = pc
  BY DEF Goto, WorkOK, WorkerType
<1>3. Writing(i) => row[i].status # "success"
  BY DEF Serial, WritersInFlight, InFlight, Busy
<1>4. Active(i) => worker[i].pc = "wait"
  BY DEF Clean, ExecsWaited
<1>18. Dropped(i)' = Dropped(i) /\ (UNCHANGED due => Kept(i)' = Kept(i))
  BY <1>1 DEF Dropped, Kept
<1>5. CASE Begin(i)
  <2>1. worker'[i].pc = "connect" /\ row'[i].status = "running"
    BY <1>5 DEF Begin, WorkOK, WorkerType, RunsOK, RowType
  <2> QED
    BY <1>1, <1>18, <1>4, <1>5, <2>1 DEF Begin, Owed, Active
<1>6. CASE Connect(i) \/ ExtractDdl(i)
  BY <1>1, <1>18, <1>2, <1>3, <1>4, <1>6 DEF Connect, ExtractDdl, Full, Owed, Active, Writing, Pcs
<1>7. CASE ExtractRaises(i) \/ StepFails(i)
  <2>1. worker'[i].pc \in {"raised", "fail"} /\ Writing(i)
    BY <1>2, <1>7 DEF ExtractRaises, StepFails, Writing, Pcs
  <2> QED
    BY <1>3, <1>4, <1>7, <1>18, <2>1 DEF ExtractRaises, StepFails, Owed, Active
<1>8. CASE ApplyDdl(i)
  BY <1>1, <1>18, <1>2, <1>3, <1>4, <1>8 DEF ApplyDdl, Owed, Active, Writing, Pcs
<1>9. CASE Prepare(i)
  <2>1. worker'[i].pc \in {"fail", "delete", "copy"} /\ (worker'[i].pc = "copy" => row[i].mode # "watermark")
    BY <1>2, <1>9 DEF Prepare, Pcs
  <2>2. row[i].status # "success"
    BY <1>3, <1>9 DEF Prepare, Writing
  <2> QED
    BY <1>1, <1>18, <1>4, <1>9, <2>1, <2>2 DEF Prepare, Owed, Active
<1>10. CASE DeleteRange(i)
  <2>1. worker'[i].pc = "copy" /\ row[i].status # "success"
    BY <1>2, <1>3, <1>10 DEF DeleteRange, Writing, Pcs
  <2>2. target \in Table /\ target' \in Table
    BY <1>10 DEF DeleteRange, TargetOK, Table
  <2>3. RowsOf(target) \ TextLate \subseteq RowsOf(target')
    BY <1>10, <2>2, NoTable DEF DeleteRange, RowsOf
  <2> QED
    BY <1>1, <1>18, <1>4, <1>10, <2>1, <2>3 DEF DeleteRange, Owed, Active, Kept, Dropped
<1>11. CASE StartCopy(i)
  <2>1. worker'[i].pc = "wait" /\ exec'[i].state = "starting" /\ row[i].status # "success"
    BY <1>2, <1>3, <1>11 DEF StartCopy, Writing, WorkOK, ExecType, Pcs
  <2> QED
    BY <1>1, <1>18, <1>11, <2>1 DEF StartCopy, Owed
<1>12. CASE ProgressLine(i)
  <2>1. PICK n : row' = [row EXCEPT ![i].count = n]
    BY <1>12 DEF ProgressLine
  <2>2. row'[i].status = row[i].status
    BY <2>1 DEF RunsOK, RowType
  <2> QED
    BY <1>1, <1>18, <1>12, <2>2 DEF ProgressLine, Owed
<1>13. CASE CopyEnds(i)
  <2>1. worker'[i].pc = (IF exec[i].state = "done" THEN "report" ELSE "fail") /\ row[i].status # "success"
    BY <1>2, <1>3, <1>13 DEF CopyEnds, Writing, Pcs
  <2> QED
    BY <1>13, <1>18, <2>1 DEF CopyEnds, Owed
<1>14. CASE StreamEnds(i)
  BY <1>14 DEF StreamEnds, Trouble, Attended
<1>15. CASE Report(i) \/ ReportFailure(i)
  BY <1>2, <1>4, <1>15, <1>18 DEF Report, ReportFailure, Owed, Active, Pcs, Kept
<1>16. CASE Save(i) \/ SaveFailure(i)
  <2>1. worker'[i].pc \in {"reconcile", "done"}
    BY <1>2, <1>16 DEF Save, SaveFailure, Pcs
  <2>2. row'[i].status = "success" => worker[i].pc = "save" \/ row[i].status = "success"
    BY <1>16 DEF Save, SaveFailure, RunsOK, RowType
  <2> QED
    BY <1>1, <1>18, <1>4, <1>16, <2>1, <2>2 DEF Save, SaveFailure, Owed, Active
<1>17. CASE Reconcile(i)
  <2>1. worker'[i].pc = "done" /\ row'[i].status = row[i].status
    BY <1>2, <1>17 DEF Reconcile, RunsOK, RowType, Pcs
  <2> QED
    BY <1>1, <1>18, <1>4, <1>17, <2>1 DEF Reconcile, Owed, Active
<1> QED
  BY <1>5, <1>6, <1>7, <1>8, <1>9, <1>10, <1>11, <1>12, <1>13, <1>14, <1>15, <1>16, <1>17 DEF Work

\* A worker that may not touch the table any more leaves it and its execs alone.
LEMMA WorkLate ==
  ASSUME NEW i \in Runs, Work(i), ~Writing(i) PROVE UNCHANGED <<target, exec, due>>
  BY DEF Work, Writing, Begin, Connect, ExtractDdl, ExtractRaises, ApplyDdl, Prepare, DeleteRange,
         StartCopy, StepFails, ProgressLine, CopyEnds, StreamEnds, Report, Save, Reconcile,
         ReportFailure, SaveFailure

LEMMA WholeWork ==
  ASSUME TypeOK, Serial, Attended, Attended', Clean, Whole,
         NEW i \in Runs, Work(i)
  PROVE  Whole'
<1>1. OwnStep(i) /\ \A j \in Runs : Latest(j)' <=> Latest(j)
  BY WorkOwn, LatestSame
<1>2. Latest(i) => Owed(i)'
  BY OwedWork DEF Whole
<1>3. CASE Latest(i)
  BY <1>1, <1>2, <1>3, OneLatest DEF Whole
<1>4. CASE ~Latest(i)
  <2>1. UNCHANGED <<target, exec, due>>
    BY <1>4, WorkLate DEF Serial, WritersInFlight, InFlight
  <2>2. \A j \in Runs : Latest(j) => Owed(j)'
    BY <1>1, <1>4, <2>1, OwedSame DEF OwnStep, Whole
  <2> QED
    BY <1>1, <2>2 DEF Whole
<1> QED
  BY <1>3, <1>4

LEMMA WholeExport ==
  ASSUME TypeOK, Serial, Attended, Clean, Whole, NEW i \in Runs, Export(i)
  PROVE  Whole'
<1> USE TypeParts
<1>1. Active(i) /\ worker[i].pc = "wait"
  BY DEF Export, CopyOpens, CopyRow, CopyExits, CopyDies, Active, Clean, ExecsWaited
<1>2. Latest(i) /\ row[i].status # "success" /\ Owed(i)
  BY <1>1 DEF Serial, WritersInFlight, InFlight, Writing, Busy, Whole
<1>3. UNCHANGED <<row, worker>>
  BY DEF Export, CopyOpens, CopyRow, CopyExits, CopyDies
<1>4. SUFFICES Owed(i)'
  BY <1>2, <1>3, OneLatest DEF Whole, Latest
<1>5. CASE CopyOpens(i)
  <2>1. PICK S \in SUBSET Rows :
          /\ exec' = [exec EXCEPT ![i] = [state |-> "running", todo |-> Selected(i, S)]]
          /\ due' = S \cap (due \cup Selected(i, Rows))
    BY <1>2, <1>5 DEF CopyOpens
  <2>2. exec'[i].state = "running" /\ exec'[i].todo = Selected(i, S)
    BY <2>1 DEF WorkOK
  <2>3. row[i].mode # "watermark" => due' \subseteq exec'[i].todo
    BY <2>1, <2>2 DEF Selected
  <2>4. row[i].mode = "watermark" => Kept(i)' \subseteq RowsOf(target') \cup exec'[i].todo
    BY <1>2, <1>3, <1>5, <2>1, <2>2, RowsAssumption DEF CopyOpens, Full, Owed, Selected, Kept, Dropped
  <2>5. Kept(i)' \subseteq RowsOf(target') \cup exec'[i].todo
    BY <2>3, <2>4 DEF Kept
  <2> QED
    BY <1>1, <1>2, <1>3, <2>2, <2>5 DEF Owed
<1>6. CASE CopyRow(i)
  <2>1. PICK r \in exec[i].todo :
          \/ target' = target \cup {<<r, i>>} /\ exec' = [exec EXCEPT ![i].todo = @ \ {r}]
          \/ /\ UNCHANGED target /\ r \in RowsOf(target)
             /\ \/ exec' = [exec EXCEPT ![i].todo = @ \ {r}]
                \/ exec' = [exec EXCEPT ![i].state = "failed"]
    BY <1>6 DEF CopyRow, Conflict
  <2>2. exec[i].state = "running" /\ r \in Rows /\ target \in Table /\ Kept(i)' = Kept(i)
    BY <1>6, <2>1 DEF CopyRow, TargetOK, WorkOK, ExecType, Kept, Dropped
  <2>3. Kept(i) \subseteq RowsOf(target) \cup exec[i].todo
    BY <1>2, <2>2 DEF Owed
  <2>4. CASE /\ target' = target \cup {<<r, i>>} \/ (UNCHANGED target /\ r \in RowsOf(target))
             /\ exec' = [exec EXCEPT ![i].todo = @ \ {r}]
    <3>1. exec'[i].state = "running" /\ exec'[i].todo = exec[i].todo \ {r}
      BY <2>2, <2>4 DEF WorkOK, ExecType
    <3>2. RowsOf(target') = RowsOf(target) \cup {r}
      BY <2>2, <2>4, RowsAdd
    <3> QED
      BY <1>1, <1>2, <1>3, <2>2, <2>3, <3>1, <3>2 DEF Owed
  <2>5. CASE UNCHANGED target /\ exec' = [exec EXCEPT ![i].state = "failed"]
    <3>1. exec'[i].state = "failed"
      BY <2>5 DEF WorkOK, ExecType
    <3> QED
      BY <1>1, <1>2, <1>3, <3>1 DEF Owed
  <2> QED
    BY <2>1, <2>4, <2>5
<1>7. CASE CopyExits(i)
  <2>1. exec[i].state = "running" /\ exec[i].todo = {} /\ exec'[i].state = "done"
        /\ UNCHANGED target /\ Kept(i)' = Kept(i)
    BY <1>7 DEF CopyExits, WorkOK, ExecType, Kept, Dropped
  <2> QED
    BY <1>1, <1>2, <1>3, <2>1 DEF Owed
<1>8. CASE CopyDies(i)
  <2>1. exec'[i].state = "failed"
    BY <1>8 DEF CopyDies, WorkOK, ExecType
  <2> QED
    BY <1>1, <1>2, <1>3, <2>1 DEF Owed
<1> QED
  BY <1>5, <1>6, <1>7, <1>8 DEF Export

LEMMA WholeStep ==
  ASSUME TypeOK, Serial, Serial', Clean, Whole, [Next]_vars PROVE Whole'
<1>1. SUFFICES ASSUME Attended' PROVE Whole'
  BY DEF Whole
<1>2. Attended
  BY <1>1, AttendedStep
<1>3. CASE UNCHANGED vars
  BY <1>2, <1>3, OwedSame DEF vars, Whole, Latest
<1>4. CASE Crash
  BY <1>1, <1>4 DEF Crash, Trouble, Attended
<1> QED
  BY <1>1, <1>2, <1>3, <1>4, WholeRequest, WholeWork, WholeExport DEF Next

\* Under the same conditions a run that ends as a success has left in the table
\* all that a full load has to bring, and a repair has lost nothing but the rows
\* past its cutoff as text and not as numbers.
THEOREM RepairedWholeHolds == ASSUME OneAdmin PROVE Spec => []RepairedWhole
<1>1. Init => TypeOK /\ Serial /\ Clean /\ Whole
  BY TypeInit, SerialInit, CleanInit, WholeInit
<1>2. TypeOK /\ Serial /\ Clean /\ Whole /\ [Next]_vars => (TypeOK /\ Serial /\ Clean /\ Whole)'
  BY TypeStep, SerialStep, CleanStep, WholeStep
<1>3. Whole => RepairedWhole
  BY DEF Whole, RepairedWhole, Owed, Kept
<1> QED
  BY <1>1, <1>2, <1>3, PTL DEF Spec

(***************************************************************************)
(* The end of a run is final.  _PROGRESS has an entry exactly for the runs *)
(* this process has launched, and the entry turns terminal only where the  *)
(* worker has nothing but its bookkeeping left to do.                      *)
(***************************************************************************)
Closing == {"save", "reconcile", "savefail", "done"}

Phased ==
  \A i \in Runs :
    /\ worker[i].pc = "none" <=> progress[i] = "none"
    /\ worker[i].pc \in Closing => progress[i] \in Terminal
    /\ worker[i].pc \notin Closing \cup {"none"} => Busy(progress[i])

LEMMA PhasedInit == Init => Phased
  BY DEF Init, Phased, Closing, NoWorker

LEMMA PhasedGoto ==
  ASSUME TypeOK, Phased, NEW i \in Runs, NEW pc \in Pcs \ {"none"}, Goto(i, pc), UNCHANGED progress,
         worker[i].pc # "none", pc \in Closing <=> worker[i].pc \in Closing
  PROVE  Phased'
<1>1. worker'[i].pc = pc /\ \A j \in Runs \ {i} : worker'[j] = worker[j]
  BY TypeParts DEF Goto, WorkOK, WorkerType
<1> QED
  BY <1>1 DEF Phased

LEMMA PhasedWork == ASSUME TypeOK, Phased, NEW i \in Runs, Work(i) PROVE Phased'
<1> USE TypeParts
<1>1. CASE Begin(i)
  <2>1. worker'[i].pc = "connect" /\ progress'[i] = "running"
        /\ \A j \in Runs \ {i} : worker'[j] = worker[j] /\ progress'[j] = progress[j]
    BY <1>1 DEF Begin, WorkOK, RunsOK
  <2> QED
    BY <2>1 DEF Phased, Closing, Busy
<1>2. CASE Connect(i) \/ ExtractDdl(i) \/ ExtractRaises(i) \/ ApplyDdl(i) \/ DeleteRange(i) \/ StartCopy(i)
  BY <1>2, PhasedGoto
     DEF Connect, ExtractDdl, ExtractRaises, ApplyDdl, DeleteRange, StartCopy, Pcs, Closing
<1>3. CASE Prepare(i)
  <2>1. PICK pc \in {"fail", "delete", "copy"} : Goto(i, pc)
    BY <1>3 DEF Prepare
  <2> QED
    BY <1>3, <2>1, PhasedGoto DEF Prepare, Pcs, Closing
<1>4. CASE StepFails(i) \/ CopyEnds(i) \/ StreamEnds(i)
  BY <1>4, PhasedGoto DEF StepFails, CopyEnds, StreamEnds, Pcs, Closing
<1>5. CASE ProgressLine(i)
  BY <1>5 DEF ProgressLine, Phased
<1>6. CASE Report(i) \/ ReportFailure(i)
  <2>1. worker'[i].pc \in Closing /\ progress'[i] \in Terminal
        /\ \A j \in Runs \ {i} : worker'[j] = worker[j] /\ progress'[j] = progress[j]
    BY <1>6 DEF Report, ReportFailure, Goto, WorkOK, WorkerType, RunsOK, Closing, Terminal
  <2> QED
    BY <2>1 DEF Phased, Closing, Terminal
<1>7. CASE Save(i) \/ SaveFailure(i) \/ Reconcile(i)
  BY <1>7, PhasedGoto DEF Save, SaveFailure, Reconcile, Pcs, Closing
<1> QED
  BY <1>1, <1>2, <1>3, <1>4, <1>5, <1>6, <1>7 DEF Work

LEMMA PhasedStep == TypeOK /\ Serial /\ Phased /\ [Next]_vars => Phased'
<1> SUFFICES ASSUME TypeOK, Serial, Phased, [Next]_vars PROVE Phased'
  OBVIOUS
<1> USE TypeParts
<1>1. CASE UNCHANGED <<progress, worker>>
  BY <1>1 DEF Phased
<1>2. CASE Crash
  BY <1>2 DEF Crash, Phased, WorkOK, WorkerType, Closing
<1>3. ASSUME NEW a \in Admins, Launch(a) PROVE Phased'
  <2>1. PICK n \in Runs : request[a].run = n
    BY <1>3 DEF Launch, RequestOK
  <2>2. worker'[n].pc = "begin" /\ progress'[n] = "pending"
        /\ \A j \in Runs \ {n} : worker'[j] = worker[j] /\ progress'[j] = progress[j]
    BY <1>3, <2>1 DEF Launch, WorkOK, RunsOK
  <2> QED
    BY <2>2 DEF Phased, Closing, Busy
<1>4. CASE \E a \in Admins : Arrive(a) \/ Handle(a)
  BY <1>1, <1>3, <1>4 DEF Handle, Arrive, Check, InsertRun
<1>5. CASE \E i \in Runs : Work(i)
  BY <1>5, PhasedWork
<1>6. CASE \E i \in Runs : Export(i)
  BY <1>1, <1>6 DEF Export, CopyOpens, CopyRow, CopyExits, CopyDies
<1> QED
  BY <1>1, <1>2, <1>4, <1>5, <1>6 DEF Next, vars

Ended(i) == Shown(i) \in Terminal => Shown(i)' = Shown(i) \/ "crash" \in trouble' \ trouble

LEMMA EndedStep ==
  ASSUME TypeOK, Serial, Phased, [Next]_vars, NEW i \in Runs PROVE Ended(i)
<1> USE TypeParts
<1>1. SUFFICES ASSUME Shown(i) \in Terminal PROVE Shown(i)' = Shown(i) \/ "crash" \in trouble' \ trouble
  BY DEF Ended
<1>2. CASE row'[i] = row[i] /\ progress'[i] = progress[i]
  BY <1>2 DEF Shown
<1>3. CASE Crash
  BY <1>3 DEF Crash, Trouble
<1>4. ASSUME NEW a \in Admins, InsertRun(a) PROVE Shown(i)' = Shown(i)
  <2>1. PICK n \in Runs : request[a].run = n
    BY <1>4 DEF InsertRun, RequestOK
  <2>2. row[n].status = "none"
    BY <1>4, <2>1, BoundAssumption DEF InsertRun, Serial, RequestsAhead, Runs
  <2>3. progress[n] = "none"
    BY <2>2 DEF Serial, WorkersHaveRows, Phased
  <2>4. n # i
    BY <1>1, <2>2, <2>3 DEF Shown, Terminal
  <2> QED
    BY <1>2, <1>4, <2>1, <2>4 DEF InsertRun, RunsOK
<1>5. ASSUME NEW a \in Admins, Launch(a) PROVE Shown(i)' = Shown(i)
  <2>1. PICK n \in Runs :
          request[a].run = n /\ row[n].status = "pending" /\ worker[n].pc = "none"
    BY <1>5 DEF Launch, RequestOK, Serial, LaunchesLatest
  <2>2. n # i
    BY <1>1, <2>1 DEF Phased, Shown, Terminal
  <2> QED
    BY <1>2, <1>5, <2>1, <2>2 DEF Launch, RunsOK
<1>6. CASE \E a \in Admins : Arrive(a) \/ Handle(a)
  BY <1>2, <1>4, <1>5, <1>6 DEF Handle, Arrive, Check
<1>7. CASE \E j \in Runs : Work(j)
  <2>1. PICK j \in Runs : Work(j)
    BY <1>7
  <2>2. CASE j # i
    BY <1>2, <2>1, <2>2, WorkOwn DEF OwnStep
  <2>3. CASE j = i
    <3>1. worker[i].pc # "none"
      BY <2>1, <2>3, WorkOwn DEF OwnStep
    <3>2. worker[i].pc \in Closing
      BY <1>1, <3>1 DEF Phased, Shown, Busy, Terminal
    <3>3. progress' = progress
      BY <2>1, <2>3, <3>2
         DEF Work, Closing, Begin, Connect, ExtractDdl, ExtractRaises, ApplyDdl, Prepare, DeleteRange,
             StartCopy, StepFails, ProgressLine, CopyEnds, StreamEnds, Report, Save, Reconcile,
             ReportFailure, SaveFailure
    <3>4. progress[i] # "none"
      BY <3>1 DEF Phased
    <3> QED
      BY <3>3, <3>4 DEF Shown
  <2> QED
    BY <2>2, <2>3
<1>8. CASE \E j \in Runs : Export(j)
  BY <1>2, <1>8 DEF Export, CopyOpens, CopyRow, CopyExits, CopyDies
<1>9. CASE UNCHANGED vars
  BY <1>2, <1>9 DEF vars
<1> QED
  BY <1>3, <1>6, <1>7, <1>8, <1>9 DEF Next

\* With one request thread, a run that was shown as a success or as failed is
\* shown so for good, whatever fails, until the process ends.
THEOREM EndIsFinalHolds == ASSUME OneAdmin PROVE Spec => EndIsFinal
<1>1. Init => TypeOK /\ Serial /\ Phased
  BY TypeInit, SerialInit, PhasedInit
<1>2. TypeOK /\ Serial /\ Phased /\ [Next]_vars => (TypeOK /\ Serial /\ Phased)'
  BY TypeStep, SerialStep, PhasedStep
<1>3. TypeOK /\ Serial /\ Phased /\ [Next]_vars
        => [\A i \in Runs : Shown(i) \in Terminal
              => Shown(i)' = Shown(i) \/ "crash" \in trouble' \ trouble]_vars
  BY EndedStep DEF Ended
<1> QED
  BY <1>1, <1>2, <1>3, PTL DEF Spec, EndIsFinal
=============================================================================
