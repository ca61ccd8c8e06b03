--------------------------- MODULE MatviewProofs ---------------------------
(***************************************************************************)
(* What holds of Matview for every set of models, names, definitions and   *)
(* request threads.  All but the types need operations that do not overlap *)
(* (Careful): nothing in the code excludes two builds of one matview.      *)
(***************************************************************************)
EXTENDS Matview, TLAPS

(***************************************************************************)
(* Types.                                                                  *)
(***************************************************************************)
\* The conjuncts of TypeOK, by variable.
RowOK == row \in [Models -> Row \cup {None}]
MvOK == mv \in [Names -> View \cup {None}]
JobOK == job \in [Workers -> Job \cup {None}]
RestOK ==
  /\ src \in [ver : Versions, fanned : BOOLEAN] /\ oracle \in Versions
  /\ todo \in SUBSET Models /\ faults \in 0..MaxFaults

LEMMA TypeParts == TypeOK <=> RowOK /\ MvOK /\ JobOK /\ RestOK
  BY DEF TypeOK, RowOK, MvOK, JobOK, RestOK

LEMMA TypePartsNext == TypeOK' <=> RowOK' /\ MvOK' /\ JobOK' /\ RestOK'
  BY DEF TypeOK, RowOK, MvOK, JobOK, RestOK

LEMMA RowIsNotNone == ASSUME NEW r \in Row PROVE r # None
  BY NoneAssumption

LEMMA JobFields ==
  ASSUME JobOK, NEW w \in Workers, job[w] # None
  PROVE  /\ job[w] \in Job
         /\ job[w].pc \in Pcs /\ job[w].op \in Ops /\ job[w].model \in Models
         /\ job[w].held \in Row /\ job[w].held.name \in Names
         /\ job[w].unlink \in Names \cup {None}
<1>1. job[w] \in Job
  BY DEF JobOK
<1>2. job[w].held \in Row
  BY <1>1 DEF Job
<1> QED
  BY <1>1, <1>2 DEF Job, Row

LEMMA GotoType ==
  ASSUME JobOK, NEW w \in Workers, job[w] # None, NEW pc \in Pcs, Goto(w, pc) PROVE JobOK'
<1>1. [job[w] EXCEPT !.pc = pc] \in Job
  BY JobFields DEF Job
<1>2. job' = [job EXCEPT ![w] = [job[w] EXCEPT !.pc = pc]]
  BY DEF Goto
<1> QED
  BY <1>1, <1>2 DEF JobOK

LEMMA DoneType == ASSUME JobOK, NEW w \in Workers, Done(w) PROVE JobOK'
  BY DEF JobOK, Done

LEMMA GoType ==
  ASSUME JobOK, NEW w \in Workers, NEW pc \in Pcs \cup {"done"}, NEW op \in Ops, NEW m \in Models,
         NEW held \in Row, NEW unlink \in Names \cup {None}, Go(w, pc, op, m, held, unlink)
  PROVE  JobOK'
<1> DEFINE new == [pc |-> pc, op |-> op, model |-> m, held |-> held, unlink |-> unlink]
<1>1. pc # "done" => new \in Job
  BY DEF Job
<1>2. job' = [job EXCEPT ![w] = IF pc = "done" THEN None ELSE new]
  BY DEF Go
<1> HIDE DEF new
<1> QED
  BY <1>1, <1>2 DEF JobOK

LEMMA AfterType ==
  ASSUME NEW unlink, NEW build PROVE After(unlink, build) \in Pcs \cup {"done"}
  BY DEF After, Pcs, Building

LEMMA MergeType ==
  ASSUME NEW loaded \in Row, NEW new \in Row, NEW stored \in Row
  PROVE  Merge(loaded, new, stored) \in Row
  BY DEF Merge, Put, Row

LEMMA ObsoleteType ==
  ASSUME NEW loaded \in Row, NEW saved \in Row PROVE Obsolete(loaded, saved) \in Names \cup {None}
  BY DEF Obsolete, Row

LEMMA StoredType ==
  ASSUME JobOK, RowOK, NEW w \in Workers, job[w] # None, row[job[w].model] # None,
         NEW status \in {"none", "ok", "error"}
  PROVE  Stored(w, status) \in Row
<1>1. row[job[w].model] \in Row
  BY JobFields DEF RowOK
<1>2. row[job[w].model].status \in {"none", "ok", "error"}
  BY <1>1 DEF Row
<1>3. Put(job[w].held.status, status, row[job[w].model].status) \in {"none", "ok", "error"}
  BY <1>2 DEF Put
<1> QED
  BY <1>1, <1>3 DEF Stored, Row

LEMMA NoteType ==
  ASSUME JobOK, RowOK, RestOK, NEW w \in Workers, job[w] # None,
         NEW status \in {"none", "ok", "error"}, NEW pc \in Pcs \cup {"done"}, Note(w, status, pc)
  PROVE  JobOK' /\ RowOK' /\ todo' \in SUBSET Models
<1> DEFINE m == job[w].model
<1>1. m \in Models /\ job[w].op \in Ops
  BY JobFields
<1>2. CASE row[m] = None
  <2>1. Done(w) /\ UNCHANGED row /\ (todo' = {} \/ todo' = todo)
    BY <1>2 DEF Note
  <2> QED
    BY <2>1, DoneType DEF RowOK, RestOK
<1>3. CASE row[m] # None
  <2>1. /\ row' = [row EXCEPT ![m] = Stored(w, status)] /\ todo' = todo
        /\ Go(w, pc, job[w].op, m, Stored(w, status), None)
    BY <1>3 DEF Note
  <2>2. Stored(w, status) \in Row
    BY <1>3, StoredType
  <2>3. JobOK'
    BY <1>1, <2>1, <2>2, GoType
  <2> QED
    BY <1>1, <2>1, <2>2, <2>3 DEF RowOK, RestOK
<1> QED
  BY <1>2, <1>3

LEMMA RequestType ==
  ASSUME TypeOK, NEW w \in Workers, Create(w) \/ Arrive(w) PROVE TypeOK'
<1> USE TypeParts
<1>1. CASE Create(w)
  <2>1. PICK m \in Models, r \in Row :
          row' = [row EXCEPT ![m] = r] /\ Go(w, After(None, Wanted(r)), "save", m, r, None)
    BY <1>1 DEF Create
  <2>2. JobOK'
    BY <2>1, GoType, AfterType DEF Ops
  <2> QED
    BY <1>1, <2>1, <2>2, TypePartsNext DEF Create, RowOK, MvOK, RestOK
<1>2. CASE Arrive(w)
  <2>1. PICK m \in Models, op \in Ops :
          /\ row[m] # None
          /\ IF op # "delete" THEN Go(w, op, op, m, row[m], None)
             ELSE IF ~row[m].enabled THEN Go(w, "erase", op, m, row[m], None)
             ELSE Go(w, "unlink", op, m, row[m], row[m].name)
    BY <1>2 DEF Arrive
  <2>2. row[m] \in Row
    BY <2>1 DEF RowOK
  <2>3. row[m].name \in Names
    BY <2>2 DEF Row
  <2>4. op # "delete" => op \in Pcs
    BY DEF Ops, Pcs
  <2>5. "erase" \in Pcs /\ "unlink" \in Pcs
    BY DEF Pcs
  <2>6. JobOK'
    BY <2>1, <2>2, <2>3, <2>4, <2>5, GoType
  <2> QED
    BY <1>2, <2>6, TypePartsNext DEF Arrive, RowOK, MvOK, RestOK
<1> QED
  BY <1>1, <1>2

LEMMA EditType ==
  ASSUME TypeOK, NEW w \in Workers, Save(w) \/ Refuse(w) \/ Deactivate(w) \/ Erase(w)
  PROVE  TypeOK'
<1> USE TypeParts
<1> DEFINE m == job[w].model
<1>1. CASE Save(w)
  <2>1. job[w] # None /\ row[m] # None
    BY <1>1 DEF Save, Step
  <2>2. m \in Models /\ job[w].held \in Row /\ row[m] \in Row
    BY <2>1, JobFields DEF RowOK
  <2>3. PICK new \in Row :
          LET saved == Merge(job[w].held, new, row[m])
              unlink == Obsolete(job[w].held, saved)
          IN /\ row' = [row EXCEPT ![m] = saved]
             /\ Go(w, After(unlink, Wanted(saved)), "save", m, saved, unlink)
    BY <1>1 DEF Save
  <2> DEFINE saved == Merge(job[w].held, new, row[m])
  <2>4. saved \in Row
    BY <2>2, MergeType
  <2>5. Obsolete(job[w].held, saved) \in Names \cup {None}
    BY <2>2, <2>4, ObsoleteType
  <2> HIDE DEF saved
  <2>6. Go(w, After(Obsolete(job[w].held, saved), Wanted(saved)), "save", m, saved,
           Obsolete(job[w].held, saved))
    BY <2>3 DEF saved
  <2>7. JobOK'
    BY <2>2, <2>4, <2>5, <2>6, GoType, AfterType DEF Ops
  <2>8. RowOK'
    BY <2>2, <2>3, <2>4 DEF RowOK, saved
  <2> QED
    BY <1>1, <2>7, <2>8, TypePartsNext DEF Save, MvOK, RestOK
<1>2. CASE Refuse(w)
  <2>1. JobOK'
    BY <1>2, DoneType DEF Refuse
  <2> QED
    BY <1>2, <2>1, TypePartsNext DEF Refuse, RowOK, MvOK, RestOK
<1>3. CASE Deactivate(w)
  <2>1. job[w] # None /\ row[m] # None
    BY <1>3 DEF Deactivate, Step
  <2>2. m \in Models /\ row[m] \in Row
    BY <2>1, JobFields DEF RowOK
  <2> DEFINE saved == [row[m] EXCEPT !.active = FALSE]
  <2>3. saved \in Row /\ saved.name \in Names
    BY <2>2 DEF Row
  <2>4. /\ row' = [row EXCEPT ![m] = saved]
        /\ IF ~saved.enabled THEN Done(w)
           ELSE Go(w, "unlink", "deactivate", m, saved, saved.name)
    BY <1>3 DEF Deactivate
  <2> HIDE DEF saved
  <2>5. "unlink" \in Pcs /\ "deactivate" \in Ops
    BY DEF Pcs, Ops
  <2>6. JobOK'
    BY <2>2, <2>3, <2>4, <2>5, GoType, DoneType
  <2> QED
    BY <1>3, <2>2, <2>3, <2>4, <2>6, TypePartsNext DEF Deactivate, RowOK, MvOK, RestOK
<1>4. CASE Erase(w)
  <2>1. JobOK'
    BY <1>4, DoneType DEF Erase
  <2>2. RowOK'
    BY <1>4, JobFields DEF Erase, Step, RowOK
  <2> QED
    BY <1>4, <2>1, <2>2, TypePartsNext DEF Erase, MvOK, RestOK
<1> QED
  BY <1>1, <1>2, <1>3, <1>4

LEMMA BuildType ==
  ASSUME TypeOK, NEW w \in Workers,
         \/ Unlink(w) \/ Exists(w) \/ RefreshConcurrently(w) \/ Plan(w) \/ Drop(w)
         \/ CreateEmpty(w) \/ CreateIndex(w) \/ Populate(w) \/ Count(w) \/ StatementFails(w)
  PROVE  TypeOK'
<1> USE TypeParts
<1>1. job[w] # None
  BY DEF Unlink, Exists, RefreshConcurrently, Plan, Drop, CreateEmpty, CreateIndex, Populate,
         Count, StatementFails, Step
<1>2. job[w].held \in Row /\ Name(w) \in Names
  BY <1>1, JobFields DEF Name
<1>3. \E pc \in Pcs : Goto(w, pc)
  BY DEF Unlink, Exists, RefreshConcurrently, Plan, Drop, CreateEmpty, CreateIndex, Populate,
         Count, StatementFails, Pcs, Building
<1>4. JobOK'
  BY <1>1, <1>3, GotoType
<1>5. RowOK'
  BY DEF Unlink, Exists, RefreshConcurrently, Plan, Drop, CreateEmpty, CreateIndex, Populate,
         Count, StatementFails, RowOK
<1>6. RestOK'
  BY BoundAssumption
     DEF Unlink, Exists, RefreshConcurrently, Plan, Drop, CreateEmpty, CreateIndex, Populate,
         Count, StatementFails, Fault, RestOK
<1>7. src.ver \in Versions /\ src.fanned \in BOOLEAN
  BY DEF RestOK
<1>8. job[w].held.def \in Defs
  BY <1>2 DEF Row
<1>9. MvOK'
  <2>1. CASE UNCHANGED mv
    BY <2>1 DEF MvOK
  <2>2. CASE Unlink(w) \/ Drop(w)
    BY <2>2 DEF Unlink, Drop, MvOK
  <2>3. CASE CreateEmpty(w) /\ mv' # mv
    <3> DEFINE new == [def |-> job[w].held.def, ver |-> None, indexed |-> FALSE, double |-> FALSE]
    <3>1. new \in View
      BY <1>8 DEF View
    <3>2. mv' = [mv EXCEPT ![Name(w)] = new]
      BY <2>3 DEF CreateEmpty
    <3> HIDE DEF new
    <3> QED
      BY <1>2, <3>1, <3>2 DEF MvOK
  <2>4. CASE CreateIndex(w) /\ mv' # mv
    <3>1. mv[Name(w)] # None
      BY <2>4 DEF CreateIndex
    <3>2. mv[Name(w)] \in View
      BY <1>2, <3>1 DEF MvOK
    <3>3. mv' = [mv EXCEPT ![Name(w)] = [mv[Name(w)] EXCEPT !.indexed = TRUE]]
      BY <2>4 DEF CreateIndex
    <3>4. [mv[Name(w)] EXCEPT !.indexed = TRUE] \in View
      BY <3>2 DEF View
    <3> QED
      BY <1>2, <3>3, <3>4 DEF MvOK
  <2>5. CASE (RefreshConcurrently(w) \/ Populate(w)) /\ mv' # mv
    <3>1. mv[Name(w)] # None
      BY <2>5 DEF RefreshConcurrently, Populate
    <3>2. mv[Name(w)] \in View
      BY <1>2, <3>1 DEF MvOK
    <3>3. PICK d \in BOOLEAN :
            mv' = [mv EXCEPT ![Name(w)] = [mv[Name(w)] EXCEPT !.ver = src.ver, !.double = d]]
      <4>1. CASE RefreshConcurrently(w)
        <5>1. mv[Name(w)].double \in BOOLEAN
          BY <3>2 DEF View
        <5>2. mv' = [mv EXCEPT ![Name(w)] = [mv[Name(w)] EXCEPT !.ver = src.ver]]
          BY <2>5, <4>1 DEF RefreshConcurrently
        <5>3. [mv[Name(w)] EXCEPT !.ver = src.ver]
                = [mv[Name(w)] EXCEPT !.ver = src.ver, !.double = mv[Name(w)].double]
          BY <3>2 DEF View
        <5> QED
          BY <5>1, <5>2, <5>3
      <4>2. CASE Populate(w)
        <5>1. mv' = [mv EXCEPT ![Name(w)] =
                       [mv[Name(w)] EXCEPT !.ver = src.ver, !.double = src.fanned]]
          BY <1>2, <2>5, <4>2 DEF Populate, MvOK
        <5> QED
          BY <1>7, <5>1
      <4> QED
        BY <2>5, <4>1, <4>2
    <3>4. [mv[Name(w)] EXCEPT !.ver = src.ver, !.double = d] \in View
      BY <1>7, <3>2 DEF View
    <3> QED
      BY <1>2, <3>3, <3>4 DEF MvOK
  <2> QED
    BY <2>1, <2>2, <2>3, <2>4, <2>5
       DEF Exists, Plan, Count, StatementFails
<1> QED
  BY <1>4, <1>5, <1>6, <1>9, TypePartsNext

LEMMA RecordType ==
  ASSUME TypeOK, NEW w \in Workers,
         UnlinkFails(w) \/ ClearMetadata(w) \/ Record(w) \/ RecordError(w)
  PROVE  TypeOK'
<1> USE TypeParts
<1>1. job[w] # None
  BY DEF UnlinkFails, ClearMetadata, Record, RecordError, Step
<1>2. \/ \E status \in {"none", "ok", "error"}, pc \in Pcs \cup {"done"} : Note(w, status, pc)
      \/ Done(w) /\ UNCHANGED <<row, todo>>
  BY DEF UnlinkFails, ClearMetadata, Record, RecordError, Pcs, Building
<1>3. JobOK' /\ RowOK' /\ todo' \in SUBSET Models
  <2>1. CASE Done(w) /\ UNCHANGED <<row, todo>>
    BY <2>1, DoneType DEF RowOK, RestOK
  <2> QED
    BY <1>1, <1>2, <2>1, NoteType
<1>4. MvOK' /\ UNCHANGED <<src, oracle>> /\ faults' \in 0..MaxFaults
  BY BoundAssumption
     DEF UnlinkFails, ClearMetadata, Record, RecordError, Fault, MvOK, RestOK
<1> QED
  BY <1>3, <1>4, TypePartsNext DEF RestOK

LEMMA TypeInit == Init => TypeOK
  BY BoundAssumption DEF Init, TypeOK, Versions

LEMMA TypeStep == TypeOK /\ [Next]_vars => TypeOK'
<1> SUFFICES ASSUME TypeOK, [Next]_vars PROVE TypeOK'
  OBVIOUS
<1> USE TypeParts
<1>1. CASE UNCHANGED vars
  BY <1>1 DEF vars, TypeOK
<1>2. CASE OracleChanges \/ Reload \/ FanOut
  <2>1. src' \in [ver : Versions, fanned : BOOLEAN]
    <3>1. src \in [ver : Versions, fanned : BOOLEAN] /\ oracle \in Versions
      BY DEF RestOK
    <3>2. [src EXCEPT !.ver = oracle] \in [ver : Versions, fanned : BOOLEAN]
      BY <3>1
    <3>3. [src EXCEPT !.fanned = ~@] \in [ver : Versions, fanned : BOOLEAN]
      BY <3>1
    <3> QED
      BY <1>2, <3>1, <3>2, <3>3 DEF OracleChanges, Reload, FanOut
  <2>2. oracle' \in Versions
    BY <1>2, BoundAssumption DEF OracleChanges, Reload, FanOut, RestOK, Versions
  <2>3. RestOK'
    BY <1>2, <2>1, <2>2 DEF OracleChanges, Reload, FanOut, RestOK
  <2> QED
    BY <1>2, <2>3, TypePartsNext DEF OracleChanges, Reload, FanOut, RowOK, MvOK, JobOK
<1>3. CASE BeginCycle
  <2>1. PICK m \in Models : \E S \in SUBSET {k \in Models \ {m} : Due(k)} :
          Due(m) /\ Go(Loop, "refresh", "refresh", m, row[m], None) /\ todo' = S
    BY <1>3 DEF BeginCycle
  <2>2. row[m] \in Row /\ todo' \in SUBSET Models
    BY <2>1 DEF Due, RowOK
  <2>3. JobOK'
    BY <2>1, <2>2, GoType DEF Workers, Pcs, Ops
  <2> QED
    BY <1>3, <2>2, <2>3, TypePartsNext DEF BeginCycle, RowOK, MvOK, RestOK
<1>4. CASE NextDue
  <2>1. JobOK'
    <3>1. CASE UNCHANGED job
      BY <3>1 DEF JobOK
    <3>2. CASE job' # job
      <4>1. PICK m \in todo : row[m] # None /\ Go(Loop, "refresh", "refresh", m, row[m], None)
        BY <1>4, <3>2 DEF NextDue
      <4>2. m \in Models /\ row[m] \in Row
        BY <4>1 DEF RestOK, RowOK
      <4> QED
        BY <4>1, <4>2, GoType DEF Workers, Pcs, Ops
    <3> QED
      BY <3>1, <3>2
  <2> QED
    BY <1>4, <2>1, TypePartsNext DEF NextDue, RowOK, MvOK, RestOK
<1>5. CASE Crash
  <2>1. RestOK' /\ JobOK'
    BY <1>5, BoundAssumption DEF Crash, Fault, RestOK, JobOK
  <2> QED
    BY <1>5, <2>1, TypePartsNext DEF Crash, RowOK, MvOK
<1>6. ASSUME NEW w \in Admins, Create(w) \/ Arrive(w) PROVE TypeOK'
  BY <1>6, RequestType DEF Workers
<1>7. ASSUME NEW w \in Workers, Handle(w) PROVE TypeOK'
  BY <1>7, EditType, BuildType, RecordType DEF Handle, Reconcile
<1> QED
  BY <1>1, <1>2, <1>3, <1>4, <1>5, <1>6, <1>7 DEF Next

\* In every reachable state rows, matviews, sessions and the cycle are what they are
\* meant to be: a step that drops, builds or records knows the row it is about.
THEOREM TypeCorrect == Spec => []TypeOK
<1>1. Init => TypeOK
  BY TypeInit
<1>2. TypeOK /\ [Next]_vars => TypeOK'
  BY TypeStep
<1> QED
  BY <1>1, <1>2, PTL DEF Spec

(***************************************************************************)
(* The invariant.  Alone: sessions do not overlap.  Fits: what the session *)
(* that is there relies on, step by step; it holds through failures, as a  *)
(* failed statement ends the build and a restart ends the session.         *)
(***************************************************************************)
Alone ==
  /\ \A v, w \in Workers : job[v] # None /\ job[w] # None => v = w
  /\ todo # {} => \A w \in Workers : job[w] # None => w = Loop
  /\ job[Loop] # None => job[Loop].op = "refresh"

Distinct ==
  \A k, m \in Models : k # m /\ row[k] # None /\ row[m] # None => row[k].name # row[m].name

Expected == \A m \in todo : row[m] # None /\ Wanted(row[m])

\* Which steps an operation consists of.
Course(j) ==
  /\ j.op = "save" => j.pc \in Building \cup {"save", "unlink", "clear", "count", "record", "fail"}
  /\ j.op = "deactivate" => j.pc \in {"deactivate", "unlink", "clear"}
  /\ j.op = "delete" => j.pc \in {"unlink", "clear", "erase"}
  /\ j.op = "refresh" =>
       j.pc \in Building \cup {"refresh", "concurrently", "count", "record", "fail"}

\* The row is the one the session holds; what is built is wanted and can be built.
Holds(j) ==
  /\ row[j.model] = j.held
  /\ j.pc \in Building \cup {"refresh", "concurrently"} => Wanted(j.held)
  /\ j.pc \in {"drop", "create", "index", "populate"} => Valid(j.held.def)
  /\ j.op = "save" /\ j.pc \in {"unlink", "plan"} /\ Wanted(j.held) => Valid(j.held.def)

\* The matview it is about to touch is its own, and is as the last step left it.
Leaves(j) ==
  /\ j.pc = "unlink" => /\ j.unlink \in Names
                        /\ \A k \in Models \ {j.model} : row[k] # None => row[k].name # j.unlink
                        /\ j.op # "save" => j.unlink = j.held.name
  /\ j.op = "delete" /\ j.pc \in {"clear", "erase"} =>
       ~j.held.enabled \/ mv[j.held.name] = None
  /\ j.op = "refresh" /\ j.pc \in {"plan", "drop"} => mv[j.held.name] = None
  /\ j.pc = "create" => mv[j.held.name] = None
  /\ j.pc \in {"index", "populate"} =>
       /\ mv[j.held.name] # None
       /\ mv[j.held.name].def = j.held.def
       /\ mv[j.held.name].indexed = (j.pc = "populate")

Fits(j) == Course(j) /\ Holds(j) /\ Leaves(j)
Orderly ==
  /\ Alone /\ Distinct /\ Expected /\ KeysUnique
  /\ \A w \in Workers : job[w] # None => Fits(job[w])

LEMMA Solo ==
  ASSUME JobOK, Alone, NEW w \in Workers, job[w] # None, NEW j, job' = [job EXCEPT ![w] = j],
         j # None => j.op = job[w].op, todo' = todo \/ todo' = {}
  PROVE  Alone' /\ job'[w] = j /\ \A v \in Workers : job'[v] # None => v = w
  BY DEF JobOK, Alone, Workers

LEMMA Gather ==
  ASSUME Alone', Distinct', Expected', KeysUnique', NEW w \in Workers,
         \A v \in Workers : job'[v] # None => v = w, job'[w] # None => Fits(job[w])'
  PROVE  Orderly'
  BY DEF Orderly

\* A session that goes on to pc.
LEMMA Onward ==
  ASSUME TypeOK, Alone, NEW w \in Workers, job[w] # None, NEW pc \in Pcs, Goto(w, pc),
         UNCHANGED todo
  PROVE  /\ Alone' /\ \A v \in Workers : job'[v] # None => v = w
         /\ job'[w].pc = pc /\ job'[w].op = job[w].op /\ job'[w].model = job[w].model
         /\ job'[w].held = job[w].held /\ job'[w].unlink = job[w].unlink
<1> USE TypeParts
<1>1. job[w] \in Job
  BY JobFields
<1> DEFINE j == [job[w] EXCEPT !.pc = pc]
<1>2. /\ j.pc = pc /\ j.op = job[w].op /\ j.model = job[w].model
      /\ j.held = job[w].held /\ j.unlink = job[w].unlink
  BY <1>1 DEF Job
<1>3. job' = [job EXCEPT ![w] = j]
  BY DEF Goto
<1> HIDE DEF j
<1> QED
  BY <1>2, <1>3, Solo

LEMMA OrderlyBuild ==
  ASSUME TypeOK, Orderly, NEW w \in Workers,
         \/ Unlink(w) \/ Exists(w) \/ RefreshConcurrently(w) \/ Plan(w) \/ Drop(w)
         \/ CreateEmpty(w) \/ CreateIndex(w) \/ Populate(w) \/ Count(w) \/ StatementFails(w)
  PROVE  Orderly'
<1> USE TypeParts
<1>1. job[w] # None
  BY DEF Unlink, Exists, RefreshConcurrently, Plan, Drop, CreateEmpty, CreateIndex, Populate,
         Count, StatementFails, Step
<1>2. /\ job[w].pc \in Pcs /\ job[w].op \in Ops /\ job[w].model \in Models
      /\ job[w].held \in Row /\ Name(w) \in Names /\ Name(w) = job[w].held.name
  BY <1>1, JobFields DEF Name
<1>3. Fits(job[w]) /\ Alone
  BY <1>1 DEF Orderly
<1>4. PICK pc \in Pcs : Goto(w, pc)
  BY DEF Unlink, Exists, RefreshConcurrently, Plan, Drop, CreateEmpty, CreateIndex, Populate,
         Count, StatementFails, Pcs, Building
<1>5. UNCHANGED <<row, todo, src>>
  BY DEF Unlink, Exists, RefreshConcurrently, Plan, Drop, CreateEmpty, CreateIndex, Populate,
         Count, StatementFails
<1>6. /\ Alone' /\ \A v \in Workers : job'[v] # None => v = w
      /\ job'[w].pc = pc /\ job'[w].op = job[w].op /\ job'[w].model = job[w].model
      /\ job'[w].held = job[w].held /\ job'[w].unlink = job[w].unlink
  BY <1>1, <1>3, <1>4, <1>5, Onward
<1>7. Distinct' /\ Expected'
  BY <1>5 DEF Orderly, Distinct, Expected, Wanted
<1>8. \A x \in Row : Wanted(x)' = Wanted(x) /\ \A d : Valid(d)' = Valid(d)
  BY <1>5 DEF Wanted, Valid
<1>9. KeysUnique'
  <2>1. CASE UNCHANGED mv
    BY <2>1 DEF Orderly, KeysUnique
  <2>2. CASE mv' # mv /\ ~Populate(w)
    BY <1>2, <2>2
       DEF Orderly, KeysUnique, MvOK, View, Unlink, Exists, RefreshConcurrently, Plan, Drop,
           CreateEmpty, CreateIndex, Count, StatementFails
  <2>3. CASE mv' # mv /\ Populate(w)
    <3>1. mv[Name(w)] # None /\ mv[Name(w)].indexed /\ ~src.fanned
      BY <1>2, <1>3, <2>3 DEF Populate, Step, Fits, Leaves
    <3>2. mv' = [mv EXCEPT ![Name(w)].ver = src.ver, ![Name(w)].double = src.fanned]
      BY <2>3 DEF Populate
    <3>3. mv[Name(w)] \in View
      BY <1>2, <3>1 DEF MvOK
    <3>4. ~mv'[Name(w)].double /\ \A n \in Names \ {Name(w)} : mv'[n] = mv[n]
      BY <1>2, <3>1, <3>2, <3>3 DEF MvOK, View
    <3> QED
      BY <3>4 DEF Orderly, KeysUnique
  <2> QED
    BY <2>1, <2>2, <2>3
<1>10. job'[w].op = job[w].op /\ job[w].op \in Ops
  BY <1>2, <1>6
<1>11. Fits(job[w])'
  <2> USE <1>2, <1>3, <1>5, <1>6, <1>8, <1>10 DEF Step, Fits, Course, Holds, Ops, Building
  <2>1. CASE Unlink(w)
    <3>1. job'[w].pc = (IF job[w].op = "save" /\ Wanted(job[w].held) THEN "plan" ELSE "clear")
      BY <1>1, <2>1 DEF Unlink, Goto, JobOK, Job
    <3>2. (Course(job[w]) /\ Holds(job[w]))'
      BY <2>1, <3>1 DEF Unlink, Row
    <3>3. Leaves(job[w])'
      BY <2>1, <3>1 DEF Unlink, Leaves, MvOK
    <3> QED
      BY <3>2, <3>3
  <2>2. CASE Exists(w)
    <3>1. job'[w].pc = (IF mv[Name(w)] = None THEN "plan" ELSE "concurrently")
      BY <1>1, <2>2 DEF Exists, Goto, JobOK, Job
    <3>2. (Course(job[w]) /\ Holds(job[w]))'
      BY <2>2, <3>1 DEF Exists, Row
    <3>3. Leaves(job[w])'
      BY <2>2, <3>1 DEF Exists, Leaves, MvOK
    <3> QED
      BY <3>2, <3>3
  <2>3. CASE RefreshConcurrently(w)
    <3>1. job'[w].pc \in {"count", "fail"}
      BY <1>1, <2>3 DEF RefreshConcurrently, Goto, JobOK, Job
    <3>2. (Course(job[w]) /\ Holds(job[w]))'
      BY <2>3, <3>1 DEF RefreshConcurrently, Row
    <3>3. Leaves(job[w])'
      BY <2>3, <3>1 DEF RefreshConcurrently, Leaves, MvOK
    <3> QED
      BY <3>2, <3>3
  <2>4. CASE Plan(w)
    <3>1. job'[w].pc = (IF Valid(job[w].held.def) THEN "drop" ELSE "fail")
      BY <1>1, <2>4 DEF Plan, Goto, JobOK, Job
    <3>2. (Course(job[w]) /\ Holds(job[w]))'
      BY <2>4, <3>1 DEF Plan, Row
    <3>3. Leaves(job[w])'
      BY <2>4, <3>1 DEF Plan, Leaves, MvOK
    <3> QED
      BY <3>2, <3>3
  <2>5. CASE Drop(w)
    <3>1. job'[w].pc = "create"
      BY <1>1, <2>5 DEF Drop, Goto, JobOK, Job
    <3>2. (Course(job[w]) /\ Holds(job[w]))'
      BY <2>5, <3>1 DEF Drop, Row
    <3>3. Leaves(job[w])'
      BY <2>5, <3>1 DEF Drop, Leaves, MvOK
    <3> QED
      BY <3>2, <3>3
  <2>6. CASE CreateEmpty(w)
    <3>1. job'[w].pc \in {"index", "fail"}
      BY <1>1, <2>6 DEF CreateEmpty, Goto, JobOK, Job
    <3>2. job'[w].pc = "index" =>
            /\ mv'[Name(w)] # None /\ mv'[Name(w)].def = job[w].held.def
            /\ mv'[Name(w)].indexed = FALSE
      <4> DEFINE new == [def |-> job[w].held.def, ver |-> None, indexed |-> FALSE, double |-> FALSE]
      <4>1. new # None
        <5>1. new \in View
          BY DEF View, Row
        <5> QED
          BY <5>1, NoneAssumption
      <4>2. job'[w].pc = "index" => mv' = [mv EXCEPT ![Name(w)] = new]
        BY <2>6, <1>1 DEF CreateEmpty, Goto, JobOK, Job
      <4> QED
        BY <4>1, <4>2 DEF MvOK
    <3>3. (Course(job[w]) /\ Holds(job[w]))'
      BY <2>6, <3>1 DEF CreateEmpty, Row
    <3>4. Leaves(job[w])'
      BY <2>6, <3>1, <3>2 DEF CreateEmpty, Leaves
    <3> QED
      BY <3>3, <3>4
  <2>7. CASE CreateIndex(w)
    <3>1. job'[w].pc \in {"populate", "fail"}
      BY <1>1, <2>7 DEF CreateIndex, Goto, JobOK, Job
    <3>2. job'[w].pc = "populate" =>
            /\ mv'[Name(w)] # None /\ mv'[Name(w)].def = job[w].held.def
            /\ mv'[Name(w)].indexed = TRUE
      <4>1. mv[Name(w)] \in View /\ mv[Name(w)].def = job[w].held.def
        BY <2>7 DEF CreateIndex, Leaves, MvOK
      <4> DEFINE new == [mv[Name(w)] EXCEPT !.indexed = TRUE]
      <4>2. new \in View /\ new.def = job[w].held.def /\ new.indexed = TRUE
        BY <4>1 DEF View
      <4>3. job'[w].pc = "populate" => mv' = [mv EXCEPT ![Name(w)] = new]
        BY <2>7, <1>1 DEF CreateIndex, Goto, JobOK, Job
      <4> HIDE DEF new
      <4> QED
        BY <4>2, <4>3, NoneAssumption DEF MvOK
    <3>3. (Course(job[w]) /\ Holds(job[w]))'
      BY <2>7, <3>1 DEF CreateIndex, Row
    <3>4. Leaves(job[w])'
      <4>1. CASE job'[w].pc = "populate"
        BY <2>7, <3>2, <4>1 DEF Leaves
      <4>2. CASE job'[w].pc = "fail"
        BY <2>7, <4>2 DEF CreateIndex, Leaves
      <4> QED
        BY <3>1, <4>1, <4>2
    <3> QED
      BY <3>3, <3>4
  <2>8. CASE Populate(w)
    <3>1. job'[w].pc \in {"count", "fail"}
      BY <1>1, <2>8 DEF Populate, Goto, JobOK, Job
    <3>2. (Course(job[w]) /\ Holds(job[w]))'
      BY <2>8, <3>1 DEF Populate, Row
    <3>3. Leaves(job[w])'
      BY <2>8, <3>1 DEF Populate, Leaves, MvOK
    <3> QED
      BY <3>2, <3>3
  <2>9. CASE Count(w)
    <3>1. job'[w].pc \in {"record", "fail"}
      BY <1>1, <2>9 DEF Count, Goto, JobOK, Job
    <3>2. (Course(job[w]) /\ Holds(job[w]))'
      BY <2>9, <3>1 DEF Count, Row
    <3>3. Leaves(job[w])'
      BY <2>9, <3>1 DEF Count, Leaves, MvOK
    <3> QED
      BY <3>2, <3>3
  <2>10. CASE StatementFails(w)
    <3>1. job'[w].pc = "fail"
      BY <1>1, <2>10 DEF StatementFails, Goto, JobOK, Job
    <3>2. (Course(job[w]) /\ Holds(job[w]))'
      BY <2>10, <3>1 DEF StatementFails, Row
    <3>3. Leaves(job[w])'
      BY <2>10, <3>1 DEF StatementFails, Leaves, MvOK
    <3> QED
      BY <3>2, <3>3
  <2> QED
    BY <2>1, <2>2, <2>3, <2>4, <2>5, <2>6, <2>7, <2>8, <2>9, <2>10
<1> QED
  BY <1>6, <1>7, <1>9, <1>11, Gather

\* Noting a status replaces that status only, and the session knows it: r is the
\* new row.
Noted(w, status, pc, m, r) ==
  /\ m \in Models /\ row[m] = job[w].held /\ row[m] \in Row /\ r \in Row
  /\ r.name = row[m].name /\ r.def = row[m].def /\ r.enabled = row[m].enabled
  /\ r.status = status /\ Wanted(r) = Wanted(row[m])
  /\ row' = [row EXCEPT ![m] = r] /\ row'[m] = r /\ todo' = todo
  /\ pc = "done" => job'[w] = None
  /\ pc # "done" =>
       /\ job'[w].pc = pc /\ job'[w].op = job[w].op /\ job'[w].model = m
       /\ job'[w].held = r /\ job'[w].unlink = None
  /\ Alone' /\ Distinct' /\ Expected' /\ KeysUnique'
  /\ \A v \in Workers : job'[v] # None => v = w

LEMMA NoteStep ==
  ASSUME TypeOK, Orderly, NEW w \in Workers, job[w] # None,
         NEW status \in {"none", "ok", "error"}, NEW pc \in Pcs \cup {"done"},
         Note(w, status, pc), UNCHANGED <<mv, src>>
  PROVE  Noted(w, status, pc, job[w].model, [job[w].held EXCEPT !.status = status])
<1> USE TypeParts
<1> DEFINE m == job[w].model
           r == [job[w].held EXCEPT !.status = status]
           j == IF pc = "done" THEN None
                ELSE [pc |-> pc, op |-> job[w].op, model |-> m, held |-> r, unlink |-> None]
<1>1. m \in Models /\ job[w].held \in Row
  BY JobFields
<1>2. Fits(job[w]) /\ Alone /\ Distinct /\ Expected /\ KeysUnique
  BY DEF Orderly
<1>3. row[m] = job[w].held /\ row[m] # None
  BY <1>1, <1>2, RowIsNotNone DEF Fits, Holds
<1>4. Stored(w, status) = r
  BY <1>1, <1>3 DEF Stored, Put, Row
<1>5. row' = [row EXCEPT ![m] = r] /\ todo' = todo /\ job' = [job EXCEPT ![w] = j]
  BY <1>3, <1>4 DEF Note, Go
<1>6. /\ r \in Row /\ r.name = row[m].name /\ r.def = row[m].def /\ r.type = row[m].type
      /\ r.enabled = row[m].enabled /\ r.status = status
  BY <1>1, <1>3 DEF Row
<1>7. j # None => j.op = job[w].op
  OBVIOUS
<1>8. Alone' /\ \A v \in Workers : job'[v] # None => v = w
  <2> HIDE DEF j
  <2> QED
    BY <1>2, <1>5, <1>7, Solo
<1>9. \A k \in Models : (row'[k] # None <=> row[k] # None)
        /\ (row[k] # None => row'[k].name = row[k].name /\ Wanted(row'[k]) = Wanted(row[k]))
  <2> HIDE DEF r
  <2> QED
    BY <1>1, <1>3, <1>5, <1>6, RowIsNotNone DEF RowOK, Wanted
<1>10. Distinct' /\ Expected'
  <2>1. Distinct'
    BY <1>2, <1>9 DEF Distinct
  <2>2. Expected'
    BY <1>2, <1>5, <1>9 DEF Expected, RestOK, Wanted
  <2> QED
    BY <2>1, <2>2
<1>11. KeysUnique'
  BY <1>2 DEF KeysUnique
<1>12. row'[m] = r
  BY <1>1, <1>5 DEF RowOK
<1>13. job'[w] = j
  <2> HIDE DEF j
  <2> QED
    BY <1>5 DEF JobOK
<1>14. /\ pc = "done" => job'[w] = None
       /\ pc # "done" => /\ job'[w].pc = pc /\ job'[w].op = job[w].op /\ job'[w].model = m
                         /\ job'[w].held = r /\ job'[w].unlink = None
  BY <1>13
<1> HIDE DEF m, r, j
<1>15. Noted(w, status, pc, m, r)
  BY <1>1, <1>3, <1>5, <1>6, <1>8, <1>10, <1>11, <1>12, <1>14 DEF Noted, Wanted
<1> QED
  BY <1>15 DEF m, r

LEMMA OrderlyRecord ==
  ASSUME TypeOK, Orderly, NEW w \in Workers,
         UnlinkFails(w) \/ ClearMetadata(w) \/ Record(w) \/ RecordError(w)
  PROVE  Orderly'
<1> USE TypeParts
<1> DEFINE r(status) == [job[w].held EXCEPT !.status = status]
           m == job[w].model
<1>1. job[w] # None /\ UNCHANGED <<mv, src>>
  BY DEF UnlinkFails, ClearMetadata, Record, RecordError, Step
<1>2. Fits(job[w]) /\ job[w].op \in Ops
  BY <1>1, JobFields DEF Orderly
<1>3. CASE Done(w) /\ UNCHANGED <<row, todo>>
  <2>1. job' = [job EXCEPT ![w] = None]
    BY <1>3 DEF Done
  <2>2. Alone' /\ job'[w] = None /\ \A v \in Workers : job'[v] # None => v = w
    BY <1>1, <1>3, <2>1, Solo DEF Orderly
  <2> QED
    BY <1>1, <1>3, <2>2, Gather DEF Orderly, Distinct, Expected, KeysUnique, Wanted
<1>4. ASSUME NEW status \in {"none", "ok", "error"}, Note(w, status, "done") PROVE Orderly'
  <2>1. Noted(w, status, "done", m, r(status))
    BY <1>1, <1>4, NoteStep
  <2> HIDE DEF m, r
  <2> QED
    BY <2>1, Gather DEF Noted
<1>5. CASE Step(w, "unlink") /\ job[w].op = "save" /\ Wanted(job[w].held) /\ Note(w, "error", "plan")
  <2>1. "plan" \in Pcs
    BY DEF Pcs, Building
  <2>2. Noted(w, "error", "plan", m, r("error"))
    BY <1>1, <1>5, <2>1, NoteStep
  <2> HIDE DEF m, r
  <2>3. Fits(job[w])'
    <3>1. Course(job[w])'
      BY <1>5, <2>2 DEF Course, Building, Noted
    <3>2. Holds(job[w])'
      BY <1>1, <1>2, <1>5, <2>2 DEF Holds, Fits, Valid, Wanted, Noted, Step
    <3>3. Leaves(job[w])'
      BY <1>5, <2>2 DEF Leaves, Noted
    <3> QED
      BY <3>1, <3>2, <3>3 DEF Fits
  <2> QED
    BY <2>2, <2>3, Gather DEF Noted
<1>6. CASE Step(w, "clear") /\ job[w].op = "delete" /\ Note(w, "none", "erase")
  <2>1. "erase" \in Pcs
    BY DEF Pcs
  <2>2. Noted(w, "none", "erase", m, r("none"))
    BY <1>1, <1>6, <2>1, NoteStep
  <2> HIDE DEF m, r
  <2>3. Fits(job[w])'
    <3>1. Course(job[w])'
      BY <1>6, <2>2 DEF Course, Noted
    <3>2. Holds(job[w])'
      BY <2>2 DEF Holds, Building, Noted
    <3>3. Leaves(job[w])'
      BY <1>1, <1>2, <1>6, <2>2 DEF Leaves, Fits, Noted, Step
    <3> QED
      BY <3>1, <3>2, <3>3 DEF Fits
  <2> QED
    BY <2>2, <2>3, Gather DEF Noted
<1> QED
  BY <1>3, <1>4, <1>5, <1>6 DEF UnlinkFails, ClearMetadata, Record, RecordError

\* What a save writes over the row the session holds.
LEMMA MergeHeld ==
  ASSUME NEW h \in Row, NEW new \in Row
  PROVE  LET saved == Merge(h, new, h)
         IN saved = [new EXCEPT !.status = h.status]
  BY DEF Merge, Put, Row

\* A save, seen by the session that made it: x is the row as saved.
Saved(w, m, x) ==
  LET h == job[w].held IN
  /\ m = job[w].model /\ m \in Models /\ h \in Row /\ row[m] = h
  /\ x \in Row /\ x.name \in Names /\ x.status = h.status /\ Unique(m, x.name)
  /\ x.type = "B" => Valid(x.def)
  /\ row' = [row EXCEPT ![m] = x] /\ row'[m] = x
  /\ job'[w] = IF After(Obsolete(h, x), Wanted(x)) = "done" THEN None
               ELSE [pc |-> After(Obsolete(h, x), Wanted(x)), op |-> "save", model |-> m,
                     held |-> x, unlink |-> Obsolete(h, x)]
  /\ job[w].pc = "save" /\ job[w].op = "save" /\ UNCHANGED <<mv, src, todo>>
  /\ Alone' /\ \A v \in Workers : job'[v] # None => v = w

LEMMA SaveStep ==
  ASSUME TypeOK, Orderly, NEW w \in Workers, Save(w)
  PROVE  \E x : Saved(w, job[w].model, x)
<1> USE TypeParts
<1> DEFINE m == job[w].model
           h == job[w].held
<1>1. job[w] # None /\ job[w].pc = "save" /\ UNCHANGED <<mv, src, todo>>
  BY DEF Save, Step
<1>2. /\ m \in Models /\ h \in Row /\ row[m] = h /\ Alone
      /\ job[w].op = "save"
  <2>1. Fits(job[w]) /\ job[w].op \in Ops
    BY <1>1, JobFields DEF Orderly
  <2> QED
    BY <1>1, <2>1, JobFields DEF Fits, Holds, Course, Ops, Orderly, Building
<1>3. PICK new \in Row :
        LET saved == Merge(h, new, row[m])
            unlink == Obsolete(h, saved)
        IN /\ new.type = "B" => Valid(new.def)
           /\ Unique(m, saved.name)
           /\ row' = [row EXCEPT ![m] = saved]
           /\ Go(w, After(unlink, Wanted(saved)), "save", m, saved, unlink)
  BY DEF Save
<1> DEFINE x == Merge(h, new, h)
<1>4. x = [new EXCEPT !.status = h.status]
  BY <1>2, MergeHeld
<1>5. x \in Row /\ x.name \in Names /\ x.status = h.status /\ x.type = new.type /\ x.def = new.def
  BY <1>2, <1>4 DEF Row
<1> HIDE DEF x
<1>6. /\ x.type = "B" => Valid(x.def)
      /\ Unique(m, x.name) /\ row' = [row EXCEPT ![m] = x]
      /\ Go(w, After(Obsolete(h, x), Wanted(x)), "save", m, x, Obsolete(h, x))
  BY <1>2, <1>3, <1>5 DEF x
<1> DEFINE j == IF After(Obsolete(h, x), Wanted(x)) = "done" THEN None
                ELSE [pc |-> After(Obsolete(h, x), Wanted(x)), op |-> "save", model |-> m,
                      held |-> x, unlink |-> Obsolete(h, x)]
<1>7. job' = [job EXCEPT ![w] = j] /\ (j # None => j.op = "save")
  BY <1>6 DEF Go
<1>8. row'[m] = x
  BY <1>2, <1>6 DEF RowOK
<1> HIDE DEF j
<1>9. Alone' /\ job'[w] = j /\ \A v \in Workers : job'[v] # None => v = w
  BY <1>1, <1>2, <1>7, Solo
<1>10. Saved(w, m, x)
  BY <1>1, <1>2, <1>5, <1>6, <1>8, <1>9 DEF Saved, j
<1> QED
  BY <1>10

LEMMA OrderlyEdit ==
  ASSUME TypeOK, Orderly, NEW w \in Workers, Save(w) \/ Refuse(w) \/ Deactivate(w) \/ Erase(w)
  PROVE  Orderly'
<1> USE TypeParts
<1> DEFINE m == job[w].model
           h == job[w].held
<1>1. job[w] # None
  BY DEF Save, Refuse, Deactivate, Erase, Step
<1>2. Fits(job[w]) /\ m \in Models /\ h \in Row /\ job[w].op \in Ops /\ row[m] = h
  BY <1>1, JobFields DEF Orderly, Fits, Holds
<1>3. Alone /\ Distinct /\ Expected /\ KeysUnique
  BY DEF Orderly
<1>4. UNCHANGED <<mv, src, todo>> /\ KeysUnique'
  BY <1>3 DEF Save, Refuse, Deactivate, Erase, KeysUnique
<1>5. CASE Done(w) /\ UNCHANGED row
  <2>1. job' = [job EXCEPT ![w] = None]
    BY <1>5 DEF Done
  <2>2. Alone' /\ job'[w] = None /\ \A v \in Workers : job'[v] # None => v = w
    BY <1>1, <1>3, <1>4, <2>1, Solo
  <2> QED
    BY <1>3, <1>4, <1>5, <2>2, Gather DEF Distinct, Expected, Wanted
<1>6. CASE Save(w)
  <2>1. PICK x : Saved(w, m, x)
    BY <1>6, SaveStep
  <2> DEFINE unlink == Obsolete(h, x)
  <2>2. todo = {}
    BY <1>1, <1>3, <2>1 DEF Alone, Saved
  <2>3. Distinct' /\ Expected'
    <3>1. Distinct'
      BY <1>3, <2>1, RowIsNotNone DEF Saved, Distinct, Unique, RowOK
    <3> QED
      BY <2>1, <2>2, <3>1 DEF Saved, Expected
  <2>4. job'[w] # None =>
          /\ job'[w].op = "save" /\ job'[w].model = m /\ job'[w].held = x
          /\ job'[w].unlink = unlink
          /\ \/ job'[w].pc = "unlink" /\ unlink # None
             \/ job'[w].pc = "plan" /\ Wanted(x)
    <3> HIDE DEF unlink
    <3> QED
      BY <2>1 DEF Saved, After, unlink
  <2>5. unlink # None => unlink = h.name /\ h.name \in Names
    BY <1>2 DEF Obsolete, Row
  <2> HIDE DEF unlink
  <2>6. ASSUME job'[w] # None PROVE Fits(job[w])'
    <3>1. Course(job[w])'
      BY <2>4, <2>6 DEF Course, Building
    <3>2. Holds(job[w])'
      BY <2>1, <2>4, <2>6 DEF Holds, Building, Valid, Wanted, Saved
    <3>3. \A k \in Models \ {m} : row'[k] = row[k] /\ (row[k] # None => row[k].name # h.name)
      BY <1>2, <1>3, <2>1, RowIsNotNone DEF Distinct, Saved, RowOK
    <3>4. Leaves(job[w])'
      BY <1>2, <2>4, <2>5, <2>6, <3>3 DEF Leaves
    <3> QED
      BY <3>1, <3>2, <3>4 DEF Fits
  <2> QED
    BY <1>4, <2>1, <2>3, <2>6, Gather DEF Saved
<1>7. CASE Deactivate(w)
  <2> DEFINE x == [h EXCEPT !.active = FALSE]
  <2>1. /\ x \in Row /\ x.name = h.name /\ x.name \in Names /\ x.type = h.type
        /\ x.enabled = h.enabled
    BY <1>2 DEF Row
  <2>2. /\ row' = [row EXCEPT ![m] = x]
        /\ IF ~x.enabled THEN Done(w) ELSE Go(w, "unlink", "deactivate", m, x, x.name)
    BY <1>2, <1>7 DEF Deactivate
  <2>3. job[w].op = "deactivate"
    BY <1>2, <1>7 DEF Deactivate, Step, Fits, Course, Ops, Building
  <2> HIDE DEF x
  <2> DEFINE j == IF ~x.enabled THEN None
                  ELSE [pc |-> "unlink", op |-> "deactivate", model |-> m, held |-> x,
                        unlink |-> x.name]
  <2>4. job' = [job EXCEPT ![w] = j] /\ (j # None => j.op = "deactivate")
    BY <2>2 DEF Go, Done
  <2>5. j # None => /\ j.pc = "unlink" /\ j.op = "deactivate" /\ j.model = m /\ j.held = x
                    /\ j.unlink = x.name
    OBVIOUS
  <2> HIDE DEF j
  <2>6. Alone' /\ job'[w] = j /\ \A v \in Workers : job'[v] # None => v = w
    BY <1>1, <1>3, <1>4, <2>3, <2>4, Solo
  <2>7. \A k \in Models : (row'[k] # None <=> row[k] # None)
          /\ (row[k] # None => row'[k].name = row[k].name /\ Wanted(row'[k]) = Wanted(row[k]))
    BY <1>2, <2>1, <2>2, RowIsNotNone DEF RowOK, Wanted
  <2>8. Distinct' /\ Expected'
    <3>1. Distinct'
      BY <1>3, <2>7 DEF Distinct
    <3> QED
      BY <1>3, <1>4, <2>7, <3>1 DEF Expected, RestOK, Wanted
  <2>9. ASSUME j # None PROVE Fits(job[w])'
    <3>1. Course(job[w])'
      BY <2>5, <2>6, <2>9 DEF Course
    <3>2. row'[m] = x
      BY <1>2, <2>2 DEF RowOK
    <3>3. Holds(job[w])'
      BY <2>5, <2>6, <2>9, <3>2 DEF Holds, Building
    <3>4. \A k \in Models \ {m} : row'[k] = row[k] /\ (row[k] # None => row[k].name # h.name)
      BY <1>2, <1>3, <2>2, RowIsNotNone DEF Distinct, RowOK
    <3>5. Leaves(job[w])'
      BY <2>1, <2>5, <2>6, <2>9, <3>4 DEF Leaves
    <3> QED
      BY <3>1, <3>3, <3>5 DEF Fits
  <2> QED
    BY <1>4, <2>6, <2>8, <2>9, Gather
<1>8. CASE Erase(w)
  <2>1. job' = [job EXCEPT ![w] = None] /\ row' = [row EXCEPT ![m] = None]
    BY <1>8 DEF Erase, Done
  <2>2. Alone' /\ job'[w] = None /\ \A v \in Workers : job'[v] # None => v = w
    BY <1>1, <1>3, <1>4, <2>1, Solo
  <2>3. todo = {}
    BY <1>1, <1>2, <1>3, <1>8 DEF Alone, Erase, Step, Fits, Course, Ops, Building
  <2>4. Distinct' /\ Expected'
    BY <1>2, <1>3, <1>4, <2>1, <2>3 DEF Distinct, Expected, RowOK
  <2> QED
    BY <1>4, <2>2, <2>4, Gather
<1> QED
  BY <1>5, <1>6, <1>7, <1>8 DEF Refuse

\* A session begins: the operators' discipline sees to it that it is alone.
Began(w, pc, op, m, x, unlink) ==
  /\ job'[w].pc = pc /\ job'[w].op = op /\ job'[w].model = m /\ job'[w].held = x
  /\ job'[w].unlink = unlink
  /\ Alone' /\ \A v \in Workers : job'[v] # None => v = w

LEMMA Beginning ==
  ASSUME JobOK, NEW w \in Workers, \A v \in Workers : job[v] = None,
         NEW pc, NEW op, NEW m, NEW x, NEW unlink, pc # "done",
         w = Loop => op = "refresh", todo' # {} => w = Loop,
         Go(w, pc, op, m, x, unlink)
  PROVE  Began(w, pc, op, m, x, unlink)
<1> DEFINE j == [pc |-> pc, op |-> op, model |-> m, held |-> x, unlink |-> unlink]
<1>1. job' = [job EXCEPT ![w] = j]
  BY DEF Go
<1>2. j.pc = pc /\ j.op = op /\ j.model = m /\ j.held = x /\ j.unlink = unlink
  OBVIOUS
<1> HIDE DEF j
<1>3. job'[w] = j /\ \A v \in Workers : v # w => job'[v] = None
  BY <1>1 DEF JobOK
<1>4. Alone'
  BY <1>2, <1>3 DEF Alone, Workers
<1> QED
  BY <1>2, <1>3, <1>4 DEF Began

LEMMA AllFree ==
  ASSUME Careful, Free PROVE todo = {} /\ \A v \in Workers : job[v] = None
  BY DEF Free, AtRest

LEMMA OrderlyRequest ==
  ASSUME TypeOK, Orderly, Careful, NEW w \in Admins, Create(w) \/ Arrive(w)
  PROVE  Orderly'
<1> USE TypeParts
<1>1. /\ w \in Workers /\ w # Loop /\ todo = {} /\ UNCHANGED <<mv, src, todo>>
      /\ \A v \in Workers : job[v] = None
  BY LoopAssumption, AllFree DEF Workers, Create, Arrive
<1>2. Distinct /\ Expected' /\ KeysUnique'
  BY <1>1 DEF Orderly, Expected, KeysUnique
<1>3. CASE Create(w)
  <2>1. PICK m \in Models, x \in Row :
          /\ row[m] = None /\ Unique(m, x.name) /\ (x.type = "B" => Valid(x.def))
          /\ row' = [row EXCEPT ![m] = x]
          /\ Go(w, After(None, Wanted(x)), "save", m, x, None)
    BY <1>3 DEF Create
  <2>2. row'[m] = x /\ Distinct'
    BY <1>2, <2>1, RowIsNotNone DEF Distinct, Unique, RowOK
  <2>3. CASE ~Wanted(x)
    <3>1. \A v \in Workers : job'[v] = None
      BY <1>1, <2>1, <2>3 DEF Go, After, JobOK
    <3> QED
      BY <1>1, <1>2, <2>2, <3>1 DEF Orderly, Alone, Workers
  <2>4. CASE Wanted(x)
    <3>1. Go(w, "plan", "save", m, x, None)
      BY <2>1, <2>4 DEF After
    <3>2. Began(w, "plan", "save", m, x, None)
      BY <1>1, <3>1, Beginning
    <3>3. Course(job[w])'
      BY <3>2 DEF Began, Course, Building
    <3>4. Holds(job[w])'
      BY <1>1, <2>1, <2>2, <2>4, <3>2 DEF Began, Holds, Valid, Wanted
    <3>5. Leaves(job[w])'
      BY <3>2 DEF Began, Leaves
    <3> QED
      BY <1>1, <1>2, <2>2, <3>2, <3>3, <3>4, <3>5, Gather DEF Began, Fits
  <2> QED
    BY <2>3, <2>4
<1>4. CASE Arrive(w)
  <2>1. PICK m \in Models, op \in Ops :
          /\ row[m] # None /\ (op = "refresh" => Wanted(row[m]))
          /\ IF op # "delete" THEN Go(w, op, op, m, row[m], None)
             ELSE IF ~row[m].enabled THEN Go(w, "erase", op, m, row[m], None)
             ELSE Go(w, "unlink", op, m, row[m], row[m].name)
    BY <1>4 DEF Arrive
  <2>2. row' = row /\ Distinct' /\ row[m] \in Row /\ row[m].name \in Names
    <3>1. row[m] \in Row
      BY <2>1 DEF RowOK
    <3> QED
      BY <1>2, <1>4, <3>1 DEF Arrive, Distinct, Row
  <2>3. CASE op # "delete"
    <3>1. Began(w, op, op, m, row[m], None)
      BY <1>1, <2>1, <2>3, Beginning DEF Ops
    <3>2. Course(job[w])'
      BY <2>3, <3>1 DEF Began, Course, Ops
    <3>3. Holds(job[w])'
      BY <2>1, <2>2, <2>3, <3>1 DEF Began, Holds, Ops, Building, Wanted
    <3>4. Leaves(job[w])'
      BY <2>3, <3>1 DEF Began, Leaves, Ops
    <3> QED
      BY <1>1, <1>2, <2>2, <3>1, <3>2, <3>3, <3>4, Gather DEF Began, Fits
  <2>4. CASE op = "delete" /\ ~row[m].enabled
    <3>1. Began(w, "erase", "delete", m, row[m], None)
      BY <1>1, <2>1, <2>4, Beginning
    <3>2. Course(job[w])'
      BY <3>1 DEF Began, Course
    <3>3. Holds(job[w])'
      BY <2>2, <3>1 DEF Began, Holds, Building
    <3>4. Leaves(job[w])'
      BY <2>4, <3>1 DEF Began, Leaves
    <3> QED
      BY <1>1, <1>2, <2>2, <3>1, <3>2, <3>3, <3>4, Gather DEF Began, Fits
  <2>5. CASE op = "delete" /\ row[m].enabled
    <3>1. Began(w, "unlink", "delete", m, row[m], row[m].name)
      BY <1>1, <2>1, <2>5, Beginning
    <3>2. Course(job[w])'
      BY <3>1 DEF Began, Course
    <3>3. Holds(job[w])'
      BY <2>2, <3>1 DEF Began, Holds, Building
    <3>4. Leaves(job[w])'
      BY <1>2, <2>1, <2>2, <3>1 DEF Began, Leaves, Distinct
    <3> QED
      BY <1>1, <1>2, <2>2, <3>1, <3>2, <3>3, <3>4, Gather DEF Began, Fits
  <2> QED
    BY <2>3, <2>4, <2>5
<1> QED
  BY <1>3, <1>4

LEMMA OrderlyCycle ==
  ASSUME TypeOK, Orderly, Careful, BeginCycle \/ NextDue PROVE Orderly'
<1> USE TypeParts
<1>1. Loop \in Workers /\ UNCHANGED <<row, mv, src>> /\ Alone /\ Distinct' /\ KeysUnique' /\ Expected
  BY DEF Workers, BeginCycle, NextDue, Orderly, Distinct, KeysUnique
<1>2. \A v \in Workers : job[v] = None
  <2>1. CASE BeginCycle
    BY <2>1, AllFree DEF BeginCycle
  <2>2. CASE NextDue
    BY <1>1, <2>2 DEF NextDue, Alone
  <2> QED
    BY <2>1, <2>2
<1>3. CASE UNCHANGED job
  <2>1. Alone'
    BY <1>1, <1>2, <1>3 DEF Alone
  <2>2. todo' \in SUBSET todo \/ \A k \in todo' : Due(k)
    BY DEF BeginCycle, NextDue
  <2>3. Expected'
    BY <1>1, <2>2 DEF Expected, Due, Wanted
  <2> QED
    BY <1>1, <1>2, <1>3, <2>1, <2>3 DEF Orderly
<1>4. CASE job' # job
  <2>1. PICK m \in Models :
          row[m] # None /\ Wanted(row[m]) /\ Go(Loop, "refresh", "refresh", m, row[m], None)
    BY <1>1, <1>4 DEF NextDue, BeginCycle, Due, Expected, RestOK
  <2>2. Began(Loop, "refresh", "refresh", m, row[m], None)
    BY <1>1, <1>2, <2>1, Beginning
  <2>3. Expected'
    BY <1>1 DEF Expected, NextDue, BeginCycle, Due, Wanted
  <2>4. Course(job[Loop])'
    BY <2>2 DEF Began, Course
  <2>5. Holds(job[Loop])'
    BY <1>1, <2>1, <2>2 DEF Began, Holds, Building, Wanted
  <2>6. Leaves(job[Loop])'
    BY <2>2 DEF Began, Leaves
  <2> QED
    BY <1>1, <2>2, <2>3, <2>4, <2>5, <2>6, Gather DEF Began, Fits
<1> QED
  BY <1>3, <1>4

LEMMA OrderlyInit == Init => Orderly
  BY DEF Init, Orderly, Alone, Distinct, Expected, KeysUnique, Workers

LEMMA OrderlyStep == Careful /\ TypeOK /\ Orderly /\ [Next]_vars => Orderly'
<1> SUFFICES ASSUME Careful, TypeOK, Orderly, [Next]_vars PROVE Orderly'
  OBVIOUS
<1> USE DEF Orderly, Alone, Distinct, Expected, KeysUnique, Fits, Course, Holds, Leaves, Wanted
<1>1. CASE UNCHANGED vars \/ OracleChanges
  <2>1. UNCHANGED <<row, mv, src, job, todo>>
    BY <1>1 DEF vars, OracleChanges
  <2> QED
    BY <2>1 DEF Valid
<1>2. CASE Reload
  <2>1. src'.fanned = src.fanned
    BY <1>2 DEF Reload, TypeOK
  <2> QED
    BY <1>2, <2>1 DEF Reload, Valid
<1>3. CASE FanOut
  BY <1>3, AllFree DEF FanOut
<1>4. CASE Crash
  BY <1>4 DEF Crash, Workers
<1>5. CASE BeginCycle \/ NextDue
  BY <1>5, OrderlyCycle
<1>6. ASSUME NEW w \in Admins, Create(w) \/ Arrive(w) PROVE Orderly'
  BY <1>6, OrderlyRequest
<1>7. ASSUME NEW w \in Workers, Handle(w) PROVE Orderly'
  BY <1>7, OrderlyEdit, OrderlyBuild, OrderlyRecord DEF Handle, Reconcile
<1> QED
  BY <1>1, <1>2, <1>3, <1>4, <1>5, <1>6, <1>7 DEF Next

LEMMA StaysOrderly == ASSUME Careful PROVE Spec => [](TypeOK /\ Orderly)
<1>1. Init => TypeOK /\ Orderly
  BY TypeInit, OrderlyInit
<1>2. TypeOK /\ Orderly /\ [Next]_vars => (TypeOK /\ Orderly)'
  BY TypeStep, OrderlyStep
<1> QED
  BY <1>1, <1>2, PTL DEF Spec

\* However builds fail and restart, a matview that rows were put into never shows a key
\* twice: its unique index was there first.
THEOREM KeysUniqueHolds == ASSUME Careful PROVE Spec => []KeysUnique
<1>1. Orderly => KeysUnique
  BY DEF Orderly
<1> QED
  BY <1>1, StaysOrderly, PTL

LEMMA RefreshStep ==
  ASSUME TypeOK, Orderly, Careful, [Next]_vars,
         \A w \in Workers : job[w] # None => job[w].op = "refresh",
         NEW m \in Models, Served(m)
  PROVE  Served(m)'
<1> USE TypeParts
<1>1. row[m] \in Row /\ row[m].name \in Names /\ mv[row[m].name] \in View
  <2>1. row[m] \in Row /\ mv[row[m].name] # None
    BY DEF Served, Available, RowOK
  <2> QED
    BY <2>1 DEF Row, MvOK
<1>2. ASSUME UNCHANGED <<row, mv>> PROVE Served(m)'
  BY <1>2 DEF Served, Available, Wanted
<1>3. ASSUME NEW w \in Workers, Handle(w) PROVE Served(m)'
  <2>1. job[w] # None
    BY <1>3 DEF Handle, Reconcile, Save, Refuse, Deactivate, Erase, Unlink, UnlinkFails,
         ClearMetadata, Exists, RefreshConcurrently, Plan, Drop, CreateEmpty, CreateIndex,
         Populate, Count, Record, RecordError, StatementFails, Step
  <2>2. job[w].op = "refresh" /\ Fits(job[w]) /\ job[w].held \in Row /\ Name(w) = job[w].held.name
    BY <2>1, JobFields DEF Orderly, Name
  <2>3. /\ job[w].pc \in Building \cup {"refresh", "concurrently", "count", "record", "fail"}
        /\ Name(w) \in Names
    BY <2>2 DEF Fits, Course, Row
  <2>4. \/ UNCHANGED <<row, mv>> \/ RefreshConcurrently(w) \/ Drop(w) \/ CreateEmpty(w)
        \/ CreateIndex(w) \/ Populate(w) \/ Record(w) \/ RecordError(w)
    BY <1>3, <2>3
       DEF Handle, Reconcile, Save, Refuse, Deactivate, Erase, Unlink, UnlinkFails, ClearMetadata,
           Exists, Plan, Count, StatementFails, Step, Building
  <2>5. CASE Drop(w) \/ CreateEmpty(w)
    <3>1. mv[Name(w)] = None
      BY <2>2, <2>5 DEF Drop, CreateEmpty, Step, Fits, Leaves
    <3>2. Name(w) # row[m].name
      BY <3>1 DEF Served, Available
    <3>3. mv'[row[m].name] = mv[row[m].name] /\ row' = row
      BY <1>1, <2>5, <3>2 DEF Drop, CreateEmpty, MvOK
    <3> QED
      BY <3>3 DEF Served, Available, Wanted
  <2>6. CASE (RefreshConcurrently(w) \/ CreateIndex(w) \/ Populate(w)) /\ mv' # mv
    <3>1. mv[Name(w)] # None /\ row' = row
      BY <2>6 DEF RefreshConcurrently, CreateIndex, Populate
    <3>2. mv[Name(w)] \in View /\ src.ver # None
      BY <2>3, <3>1, NoneAssumption DEF MvOK, RestOK, Versions
    <3>3. PICK v : /\ v # None /\ v.def = mv[Name(w)].def
                   /\ v.ver = src.ver \/ v.ver = mv[Name(w)].ver
                   /\ mv' = [mv EXCEPT ![Name(w)] = v]
      <4>1. CASE RefreshConcurrently(w)
        <5> DEFINE v == [mv[Name(w)] EXCEPT !.ver = src.ver]
        <5>1. v \in View /\ v.def = mv[Name(w)].def /\ v.ver = src.ver
          BY <3>2 DEF View, RestOK
        <5>2. mv' = [mv EXCEPT ![Name(w)] = v]
          BY <2>6, <4>1 DEF RefreshConcurrently
        <5> HIDE DEF v
        <5> QED
          BY <5>1, <5>2, NoneAssumption
      <4>2. CASE CreateIndex(w)
        <5> DEFINE v == [mv[Name(w)] EXCEPT !.indexed = TRUE]
        <5>1. v \in View /\ v.def = mv[Name(w)].def /\ v.ver = mv[Name(w)].ver
          BY <3>2 DEF View
        <5>2. mv' = [mv EXCEPT ![Name(w)] = v]
          BY <2>6, <4>2 DEF CreateIndex
        <5> HIDE DEF v
        <5> QED
          BY <5>1, <5>2, NoneAssumption
      <4>3. CASE Populate(w)
        <5> DEFINE v == [mv[Name(w)] EXCEPT !.ver = src.ver, !.double = src.fanned]
        <5>1. v \in View /\ v.def = mv[Name(w)].def /\ v.ver = src.ver
          BY <3>2 DEF View, RestOK
        <5>2. mv' = [mv EXCEPT ![Name(w)] = v]
          BY <2>3, <2>6, <4>3 DEF Populate, MvOK
        <5> HIDE DEF v
        <5> QED
          BY <5>1, <5>2, NoneAssumption
      <4> QED
        BY <2>6, <4>1, <4>2, <4>3
    <3> QED
      BY <1>1, <2>3, <3>1, <3>2, <3>3 DEF Served, Available, Wanted, MvOK
  <2>7. CASE Record(w) \/ RecordError(w)
    <3>1. \E status \in {"none", "ok", "error"} : Note(w, status, "done") /\ UNCHANGED <<mv, src>>
      BY <2>7 DEF Record, RecordError
    <3> DEFINE k == job[w].model
               r(status) == [job[w].held EXCEPT !.status = status]
    <3>2. \E status \in {"none", "ok", "error"} : Noted(w, status, "done", k, r(status))
      BY <2>1, <3>1, NoteStep
    <3> HIDE DEF k, r
    <3>3. PICK status : Noted(w, status, "done", k, r(status))
      BY <3>2
    <3>4. /\ row'[m] \in Row /\ row'[m].name = row[m].name /\ row'[m].def = row[m].def
          /\ Wanted(row'[m]) = Wanted(row[m])
      BY <1>1, <3>3 DEF Noted, RowOK
    <3> QED
      BY <3>1, <3>4, RowIsNotNone DEF Served, Available, Wanted
  <2> QED
    BY <1>2, <2>4, <2>5, <2>6, <2>7 DEF RefreshConcurrently, CreateIndex, Populate
<1>4. ASSUME NEW w \in Admins, Create(w) PROVE Served(m)'
  <2>1. PICK k \in Models, x \in Row : row[k] = None /\ row' = [row EXCEPT ![k] = x]
    BY <1>4 DEF Create
  <2>2. row'[m] = row[m] /\ mv' = mv
    BY <1>1, <1>4, <2>1, RowIsNotNone DEF Create, RowOK
  <2> QED
    BY <2>2 DEF Served, Available, Wanted
<1> QED
  BY <1>2, <1>3, <1>4
     DEF Next, vars, OracleChanges, Reload, FanOut, BeginCycle, NextDue, Crash, Arrive

\* A refresh of any model, alone or in the loop's cycle, however it ends, leaves each
\* matview readable that was readable: it rebuilds only what is not there.
THEOREM RefreshKeepsServingHolds == ASSUME Careful PROVE Spec => RefreshKeepsServing
<1>1. TypeOK /\ Orderly /\ [Next]_vars =>
        [(\A w \in Workers : job[w] # None => job[w].op = "refresh") =>
           \A m \in Models : Served(m) => Served(m)']_vars
  BY RefreshStep
<1> QED
  BY <1>1, StaysOrderly, PTL DEF Spec, RefreshKeepsServing

(***************************************************************************)
(* What Matview keeps until the first failed statement or restart, when    *)
(* operations do not overlap (Careful): matviews have the definitions of   *)
(* their models, none is forgotten and each can be read.                   *)
(***************************************************************************)

(***************************************************************************)
(* The invariant, for the only session j there is, or None.                *)
(***************************************************************************)
Busy(j, pcs) == j # None /\ j.pc \in pcs
Owned(n) == \E m \in Models : row[m] # None /\ row[m].name = n /\ Wanted(row[m])
Current(r) ==
  /\ mv[r.name] # None /\ mv[r.name].indexed
  /\ mv[r.name].ver # None /\ mv[r.name].def = r.def

\* No matview is forgotten.
Kept(j) ==
  \A n \in Names : mv[n] # None => Owned(n) \/ (Busy(j, {"unlink"}) /\ j.unlink = n)

\* A matview has the definition of its model, unless a save is about to drop it.
Defined(j) ==
  \A m \in Models : row[m] # None /\ Wanted(row[m]) /\ mv[row[m].name] # None =>
    \/ mv[row[m].name].def = row[m].def
    \/ Busy(j, {"unlink", "plan", "drop"}) /\ j.model = m /\ j.op = "save"

\* A status "ok" is true, or about to be replaced.
Truthful(j) ==
  /\ Busy(j, {"count", "record"}) => Current(j.held)
  /\ \A m \in Models : row[m] # None /\ Wanted(row[m]) /\ row[m].status = "ok" =>
       Current(row[m]) \/ (Busy(j, Building \cup {"unlink", "clear", "fail"}) /\ j.model = m)

\* A matview is empty while it is built, or because its joins fanned out.
Filled(j) ==
  \A n \in Names : mv[n] # None /\ mv[n].ver = None =>
    mv[n].def \in Fanout \/ (Busy(j, {"index", "populate"}) /\ j.held.name = n)

Intact(j) == Kept(j) /\ Defined(j) /\ Truthful(j) /\ Filled(j)

Sound ==
  faults = 0 =>
    /\ \A w \in Workers : job[w] # None => Intact(job[w])
    /\ (\A w \in Workers : job[w] = None) => Intact(None)

LEMMA SoundGather ==
  ASSUME NEW w \in Workers, \A v \in Workers : job'[v] # None => v = w, Intact(job[w])'
  PROVE  Sound'
<1>1. Intact(job[w])' /\ job'[w] = None => Intact(None)'
  BY DEF Intact, Kept, Defined, Truthful, Filled, Busy
<1> QED
  BY <1>1 DEF Sound

\* What a session knows at the beginning of a step: h is its row, n the matview's name.
Knows(w, m, h, n) ==
  /\ job[w] # None /\ job[w] \in Job /\ Intact(job[w]) /\ m \in Models /\ h \in Row /\ n \in Names
  /\ n = h.name /\ row[m] = h /\ row[m] # None /\ job[w].model = m /\ job[w].held = h
  /\ job[w].op \in Ops /\ Course(job[w]) /\ Holds(job[w]) /\ Leaves(job[w]) /\ KeysUnique
  /\ \A k \in Models : row[k] # None => row[k].name \in Names
  /\ \A k \in Models : row[k] # None => row[k] \in Row
  /\ \A k \in Models \ {m} : row[k] # None => row[k].name # n

LEMMA Knowing ==
  ASSUME TypeOK, Orderly, Sound, faults = 0, NEW w \in Workers, job[w] # None
  PROVE  Knows(w, job[w].model, job[w].held, Name(w))
<1> USE TypeParts
<1> DEFINE m == job[w].model
           h == job[w].held
<1>1. /\ job[w] \in Job /\ m \in Models /\ h \in Row /\ Name(w) \in Names /\ Name(w) = h.name
      /\ job[w].op \in Ops /\ Fits(job[w]) /\ row[m] = h
  BY JobFields DEF Name, Orderly, Fits, Holds
<1>2. row[m] # None
  BY <1>1, RowIsNotNone
<1>3. \A k \in Models : row[k] # None => row[k] \in Row /\ row[k].name \in Names
  <2>1. \A k \in Models : row[k] # None => row[k] \in Row
    BY DEF RowOK
  <2> QED
    BY <2>1 DEF Row
<1>4. \A k \in Models \ {m} : row[k] # None => row[k].name # h.name
  BY <1>1, <1>2 DEF Orderly, Distinct
<1>5. Intact(job[w]) /\ KeysUnique /\ Course(job[w]) /\ Holds(job[w]) /\ Leaves(job[w])
  BY <1>1 DEF Sound, Orderly, Fits
<1> QED
  BY <1>1, <1>2, <1>3, <1>4, <1>5 DEF Knows

\* The session goes on with its matview in hand: mv changes at t only.
Goes(w, pc, t) ==
  /\ job'[w] # None /\ job'[w].pc = pc /\ job'[w].op = job[w].op /\ job'[w].model = job[w].model
  /\ job'[w].held = job[w].held /\ job'[w].unlink = job[w].unlink
  /\ row' = row /\ src' = src
  /\ \A n \in Names : n # t => mv'[n] = mv[n]
  /\ \A v \in Workers : job'[v] # None => v = w

LEMMA Going ==
  ASSUME TypeOK, Orderly, NEW w \in Workers, job[w] # None, NEW pc \in Pcs, Goto(w, pc),
         NEW t, UNCHANGED <<row, src, todo>>, \A n \in Names : n # t => mv'[n] = mv[n]
  PROVE  Goes(w, pc, t)
<1> USE TypeParts
<1>1. job'[w] # None
  BY JobFields, NoneAssumption DEF Goto, JobOK, Job
<1> QED
  BY <1>1, Onward DEF Goes, Orderly

LEMMA IntactUnlink ==
  ASSUME NEW w \in Workers, NEW m, NEW h, NEW n, Knows(w, m, h, n), MvOK,
         NEW pc, Goes(w, pc, job[w].unlink), Unlink(w),
         pc = IF job[w].op = "save" /\ Wanted(h) THEN "plan" ELSE "clear"
  PROVE  Intact(job[w])'
<1> DEFINE t == job[w].unlink
<1>1. /\ job[w].pc = "unlink" /\ t \in Names /\ mv'[t] = None
      /\ \A k \in Models \ {m} : row[k] # None => row[k].name # t
  BY DEF Unlink, Step, Knows, Leaves, MvOK
<1> USE DEF Knows, Goes, Intact, Busy, Building
<1>2. Kept(job[w])'
  BY <1>1 DEF Kept, Owned, Wanted
<1>3. Defined(job[w])'
  BY <1>1 DEF Defined, Wanted
<1>4. Truthful(job[w])'
  BY <1>1 DEF Truthful, Current, Wanted
<1>5. Filled(job[w])'
  BY <1>1 DEF Filled
<1> QED
  BY <1>2, <1>3, <1>4, <1>5

LEMMA IntactAsIs ==
  ASSUME NEW w \in Workers, NEW m, NEW h, NEW n, Knows(w, m, h, n),
         NEW pc, Goes(w, pc, None), MvOK, MvOK', UNCHANGED mv,
         Exists(w) \/ Plan(w) \/ Count(w),
         Exists(w) => pc \in {"plan", "concurrently"},
         Plan(w) => pc = IF Valid(h.def) THEN "drop" ELSE "fail",
         Count(w) => pc = IF mv[n] # None /\ mv[n].ver # None THEN "record" ELSE "fail"
  PROVE  Intact(job[w])'
<1> USE DEF Knows, Goes, Intact, Busy, Building, Exists, Plan, Count, Step
<1>1. Kept(job[w])'
  BY DEF Kept, Owned, Wanted
<1>2. Defined(job[w])'
  BY DEF Defined, Wanted, Holds, Course, Ops
<1>3. Truthful(job[w])'
  BY DEF Truthful, Current, Wanted
<1>4. Filled(job[w])'
  BY DEF Filled
<1> QED
  BY <1>1, <1>2, <1>3, <1>4

LEMMA IntactRefresh ==
  ASSUME NEW w \in Workers, NEW m, NEW h, NEW n, Knows(w, m, h, n), MvOK, RestOK,
         NEW pc, Goes(w, pc, n), job[w].pc = "concurrently", n = Name(w),
         \/ /\ mv[n] # None /\ mv[n].indexed /\ mv' = [mv EXCEPT ![n].ver = src.ver]
            /\ pc = "count"
         \/ UNCHANGED mv /\ pc = "fail"
  PROVE  Intact(job[w])'
<1> USE DEF Knows, Goes, Intact, Busy, Building
<1>1. CASE UNCHANGED mv /\ pc = "fail"
  <2>1. Kept(job[w])'
    BY <1>1 DEF Kept, Owned, Wanted
  <2>2. Defined(job[w])'
    BY <1>1 DEF Defined, Wanted
  <2>3. Truthful(job[w])'
    BY <1>1 DEF Truthful, Current, Wanted
  <2>4. Filled(job[w])'
    BY <1>1 DEF Filled
  <2> QED
    BY <2>1, <2>2, <2>3, <2>4
<1>2. CASE /\ mv[n] # None /\ mv[n].indexed /\ mv' = [mv EXCEPT ![n].ver = src.ver]
           /\ pc = "count"
  <2> DEFINE v == [mv[n] EXCEPT !.ver = src.ver]
  <2>1. mv[n] \in View
    BY <1>2 DEF MvOK
  <2>2. /\ v \in View /\ v.def = mv[n].def /\ v.ver = src.ver /\ v.ver # None
        /\ v.indexed = mv[n].indexed /\ v # None
    BY <2>1, NoneAssumption DEF View, RestOK, Versions
  <2> HIDE DEF v
  <2>3. mv'[n] = v /\ Wanted(h) /\ mv[n].def = h.def
    <3>1. mv'[n] = v
      BY <1>2 DEF MvOK, v
    <3>2. Wanted(h)
      BY DEF Holds
    <3>3. m \in Models /\ row[m] # None /\ Wanted(row[m]) /\ mv[row[m].name] # None /\ Defined(job[w])
      BY <1>2, <3>2
    <3>4. mv[row[m].name].def = row[m].def
      BY <3>3 DEF Defined
    <3> QED
      BY <3>1, <3>2, <3>4
  <2>4. Kept(job[w])'
    BY <1>2, <2>2, <2>3 DEF Kept, Owned, Wanted
  <2>5. Defined(job[w])'
    BY <1>2, <2>2, <2>3 DEF Defined, Wanted
  <2>6. Truthful(job[w])'
    BY <1>2, <2>2, <2>3 DEF Truthful, Current, Wanted
  <2>7. Filled(job[w])'
    BY <1>2, <2>2, <2>3 DEF Filled
  <2> QED
    BY <2>4, <2>5, <2>6, <2>7
<1> QED
  BY <1>1, <1>2

\* The steps of a build that change its matview: it becomes v, or is dropped.
LEMMA IntactMade ==
  ASSUME NEW w \in Workers, NEW m, NEW h, NEW n, Knows(w, m, h, n),
         NEW pc, Goes(w, pc, n), job[w].pc \in Building,
         NEW v, mv'[n] = v,
         \/ v = None /\ pc = "create"
         \/ v # None /\ v.def = h.def /\ pc \in {"index", "populate"}
         \/ v # None /\ v.def = h.def /\ v.ver # None /\ v.indexed /\ pc = "count"
  PROVE  Intact(job[w])'
<1> USE DEF Knows, Goes, Intact, Busy, Building
<1>1. Wanted(h)
  BY DEF Holds
<1>2. Kept(job[w])'
  BY <1>1 DEF Kept, Owned, Wanted
<1>3. Defined(job[w])'
  BY <1>1 DEF Defined, Wanted
<1>4. Truthful(job[w])'
  BY <1>1 DEF Truthful, Current, Wanted
<1>5. Filled(job[w])'
  BY <1>1 DEF Filled
<1> QED
  BY <1>2, <1>3, <1>4, <1>5

LEMMA IntactPopulateFails ==
  ASSUME NEW w \in Workers, NEW m, NEW h, NEW n, Knows(w, m, h, n),
         NEW pc, Goes(w, pc, n), job[w].pc = "populate", pc = "fail", UNCHANGED mv, src.fanned
  PROVE  Intact(job[w])'
<1> USE DEF Knows, Goes, Intact, Busy, Building
<1>1. h.def \in Fanout /\ mv[n].def = h.def
  BY DEF Holds, Leaves, Valid
<1>2. Kept(job[w])'
  BY DEF Kept, Owned, Wanted
<1>3. Defined(job[w])'
  BY DEF Defined, Wanted
<1>4. Truthful(job[w])'
  BY DEF Truthful, Current, Wanted
<1>5. Filled(job[w])'
  BY <1>1 DEF Filled
<1> QED
  BY <1>2, <1>3, <1>4, <1>5

LEMMA IntactBuild ==
  ASSUME TypeOK, Orderly, Sound, faults = 0, NEW w \in Workers,
         \/ Unlink(w) \/ Exists(w) \/ RefreshConcurrently(w) \/ Plan(w) \/ Drop(w)
         \/ CreateEmpty(w) \/ CreateIndex(w) \/ Populate(w) \/ Count(w)
  PROVE  Sound'
<1> USE TypeParts
<1> DEFINE m == job[w].model
           h == job[w].held
           n == Name(w)
<1>1. job[w] # None /\ MvOK /\ MvOK' /\ RestOK
  <2>1. TypeOK'
    BY BuildType
  <2> QED
    BY <2>1, TypePartsNext
       DEF Unlink, Exists, RefreshConcurrently, Plan, Drop, CreateEmpty, CreateIndex, Populate,
           Count, Step
<1>2. Knows(w, m, h, n)
  BY <1>1, Knowing
<1>3. UNCHANGED <<row, src, todo>>
  BY DEF Unlink, Exists, RefreshConcurrently, Plan, Drop, CreateEmpty, CreateIndex, Populate, Count
<1>4. n \in Names /\ n = h.name /\ h.def \in Defs
  BY <1>2 DEF Knows, Row
<1>5. SUFFICES Intact(job[w])' /\ \A v \in Workers : job'[v] # None => v = w
  BY SoundGather
<1>6. ASSUME NEW pc, NEW t, Goes(w, pc, t), Intact(job[w])'
      PROVE  Intact(job[w])' /\ \A v \in Workers : job'[v] # None => v = w
  BY <1>6 DEF Goes
<1> HIDE DEF m, h, n
<1>7. CASE Unlink(w)
  <2> DEFINE pc == IF job[w].op = "save" /\ Wanted(h) THEN "plan" ELSE "clear"
  <2>1. Goes(w, pc, job[w].unlink)
    BY <1>1, <1>3, <1>7, Going DEF Unlink, Pcs, Building, MvOK, h
  <2> HIDE DEF pc
  <2>2. Intact(job[w])'
    BY <1>1, <1>2, <1>7, <2>1, IntactUnlink DEF pc
  <2> QED
    BY <2>1, <2>2, <1>6
<1>8. CASE Exists(w) \/ Plan(w) \/ Count(w)
  <2>1. PICK pc \in Pcs :
          /\ Goto(w, pc)
          /\ Exists(w) => pc \in {"plan", "concurrently"}
          /\ Plan(w) => pc = IF Valid(h.def) THEN "drop" ELSE "fail"
          /\ Count(w) => pc = IF mv[n] # None /\ mv[n].ver # None THEN "record" ELSE "fail"
    <3>1. "plan" \in Pcs /\ "concurrently" \in Pcs /\ "drop" \in Pcs /\ "fail" \in Pcs
          /\ "record" \in Pcs
      BY DEF Pcs, Building
    <3>2. CASE Exists(w)
      BY <3>1, <3>2 DEF Exists, Plan, Count, Step
    <3>3. CASE Plan(w)
      BY <3>1, <3>3 DEF Exists, Plan, Count, Step, h
    <3>4. CASE Count(w)
      BY <3>1, <3>4 DEF Exists, Plan, Count, Step, n
    <3> QED
      BY <1>8, <3>2, <3>3, <3>4
  <2>2. UNCHANGED mv
    BY <1>8 DEF Exists, Plan, Count
  <2>3. Goes(w, pc, None)
    BY <1>1, <1>3, <2>1, <2>2, Going
  <2>4. Intact(job[w])'
    BY <1>1, <1>2, <1>8, <2>1, <2>2, <2>3, IntactAsIs
  <2> QED
    BY <2>3, <2>4, <1>6
<1>9. CASE RefreshConcurrently(w)
  <2>1. PICK pc \in {"count", "fail"} :
          /\ Goto(w, pc)
          /\ \/ /\ mv[n] # None /\ mv[n].indexed /\ mv' = [mv EXCEPT ![n].ver = src.ver]
                /\ pc = "count"
             \/ UNCHANGED mv /\ pc = "fail"
    BY <1>9 DEF RefreshConcurrently, n
  <2>2. pc \in Pcs /\ job[w].pc = "concurrently"
    BY <1>9 DEF Pcs, RefreshConcurrently, Step
  <2>3. \A k \in Names : k # n => mv'[k] = mv[k]
    BY <1>1, <2>1 DEF MvOK
  <2>4. Goes(w, pc, n)
    BY <1>1, <1>3, <2>1, <2>2, <2>3, Going
  <2>5. Intact(job[w])'
    BY <1>1, <1>2, <2>1, <2>2, <2>4, IntactRefresh DEF n
  <2> QED
    BY <2>4, <2>5, <1>6
<1>10. ASSUME NEW v, mv' = [mv EXCEPT ![n] = v], NEW pc \in Pcs, Goto(w, pc), job[w].pc \in Building,
              \/ v = None /\ pc = "create"
              \/ v # None /\ v.def = h.def /\ pc \in {"index", "populate"}
              \/ v # None /\ v.def = h.def /\ v.ver # None /\ v.indexed /\ pc = "count"
       PROVE  Intact(job[w])' /\ \A u \in Workers : job'[u] # None => u = w
  <2>1. mv'[n] = v /\ \A k \in Names : k # n => mv'[k] = mv[k]
    BY <1>1, <1>4, <1>10 DEF MvOK
  <2>2. Goes(w, pc, n)
    BY <1>1, <1>3, <1>10, <2>1, Going
  <2>3. Intact(job[w])'
    BY <1>2, <1>10, <2>1, <2>2, IntactMade
  <2> QED
    BY <2>2, <2>3, <1>6
<1>11. CASE Drop(w)
  <2>1. "create" \in Pcs /\ job[w].pc \in Building
    BY <1>11 DEF Pcs, Building, Drop, Step
  <2> QED
    BY <1>10, <1>11, <2>1 DEF Drop, n
<1>12. Leaves(job[w]) /\ Holds(job[w]) /\ KeysUnique
  BY <1>2 DEF Knows
<1>13. CASE CreateEmpty(w)
  <2>1. "index" \in Pcs /\ job[w].pc \in Building /\ mv[n] = None
    BY <1>4, <1>12, <1>13 DEF Pcs, Building, CreateEmpty, Step, Leaves, h
  <2> DEFINE v == [def |-> h.def, ver |-> None, indexed |-> FALSE, double |-> FALSE]
  <2>2. v \in View /\ v.def = h.def
    BY <1>4 DEF View
  <2>3. mv' = [mv EXCEPT ![n] = v] /\ Goto(w, "index")
    BY <1>13, <2>1 DEF CreateEmpty, n, h
  <2> HIDE DEF v
  <2>4. v # None
    BY <2>2, NoneAssumption
  <2> QED
    BY <1>10, <2>1, <2>2, <2>3, <2>4
<1>14. CASE CreateIndex(w)
  <2>1. /\ "populate" \in Pcs /\ job[w].pc \in Building
        /\ mv[n] # None /\ ~mv[n].indexed /\ mv[n].def = h.def /\ ~mv[n].double
    BY <1>4, <1>12, <1>14 DEF Pcs, Building, CreateIndex, Step, Leaves, KeysUnique, h
  <2> DEFINE v == [mv[n] EXCEPT !.indexed = TRUE]
  <2>2. v \in View /\ v.def = h.def
    BY <1>1, <1>4, <2>1 DEF View, MvOK
  <2>3. mv' = [mv EXCEPT ![n] = v] /\ Goto(w, "populate")
    BY <1>14, <2>1 DEF CreateIndex, n
  <2> HIDE DEF v
  <2>4. v # None
    BY <2>2, NoneAssumption
  <2> QED
    BY <1>10, <2>1, <2>2, <2>3, <2>4
<1>15. CASE Populate(w)
  <2>1. /\ "count" \in Pcs /\ "fail" \in Pcs /\ job[w].pc \in Building /\ job[w].pc = "populate"
        /\ mv[n] # None /\ mv[n].indexed /\ mv[n].def = h.def
    BY <1>4, <1>12, <1>15 DEF Pcs, Building, Populate, Step, Leaves, h
  <2>2. CASE src.fanned
    <3>1. UNCHANGED mv /\ Goto(w, "fail")
      BY <1>15, <2>1, <2>2 DEF Populate, n
    <3>2. Goes(w, "fail", n)
      BY <1>1, <1>3, <2>1, <3>1, Going
    <3>3. Intact(job[w])'
      BY <1>2, <2>1, <2>2, <3>1, <3>2, IntactPopulateFails
    <3> QED
      BY <3>2, <3>3, <1>6
  <2>3. CASE ~src.fanned
    <3> DEFINE v == [mv[n] EXCEPT !.ver = src.ver, !.double = src.fanned]
    <3>1. mv[n] \in View /\ src.ver \in Versions /\ src.fanned \in BOOLEAN
      BY <1>1, <1>4, <2>1 DEF MvOK, RestOK
    <3>2. v \in View /\ v.def = h.def /\ v.ver = src.ver /\ v.indexed
      BY <2>1, <3>1 DEF View
    <3>3. mv' = [mv EXCEPT ![n].ver = src.ver, ![n].double = src.fanned] /\ Goto(w, "count")
      BY <1>15, <2>1, <2>3 DEF Populate, n
    <3>4. mv' = [mv EXCEPT ![n] = v]
      BY <1>1, <1>4, <3>3 DEF MvOK
    <3> HIDE DEF v
    <3>5. v # None /\ v.ver # None
      BY <3>1, <3>2, NoneAssumption DEF Versions
    <3> QED
      BY <1>10, <2>1, <3>2, <3>3, <3>4, <3>5
  <2> QED
    BY <2>2, <2>3
<1> QED
  BY <1>7, <1>8, <1>9, <1>11, <1>13, <1>14, <1>15

LEMMA IntactRecord ==
  ASSUME TypeOK, Orderly, Sound, faults = 0, NEW w \in Workers,
         ClearMetadata(w) \/ Record(w) \/ RecordError(w)
  PROVE  Sound'
<1> DEFINE m == job[w].model
           h == job[w].held
           n == Name(w)
<1>1. job[w] # None /\ UNCHANGED <<mv, src>>
  BY DEF ClearMetadata, Record, RecordError, Step
<1>2. Knows(w, m, h, n)
  BY <1>1, Knowing
<1>3. PICK status \in {"none", "ok", "error"}, pc \in {"erase", "done"} :
        /\ Note(w, status, pc)
        /\ pc = "erase" => job[w].pc = "clear"
        /\ status = "ok" => job[w].pc = "record"
        /\ job[w].pc \in {"clear", "record", "fail"}
  <2>1. CASE ClearMetadata(w)
    BY <2>1 DEF ClearMetadata, Step
  <2>2. CASE Record(w)
    BY <2>2 DEF Record, Step
  <2>3. CASE RecordError(w)
    BY <2>3 DEF RecordError, Step
  <2> QED
    BY <2>1, <2>2, <2>3
<1> DEFINE r == [h EXCEPT !.status = status]
<1>4. Noted(w, status, pc, m, r)
  <2>1. pc \in Pcs \cup {"done"}
    BY DEF Pcs
  <2> QED
    BY <1>1, <1>3, <2>1, NoteStep
<1> HIDE DEF m, h, n, r
<1>5. /\ row' = [row EXCEPT ![m] = r] /\ row'[m] = r /\ r.name = h.name /\ r.def = h.def
      /\ r.status = status /\ Wanted(r) = Wanted(h)
      /\ \A k \in Models : k # m => row'[k] = row[k]
      /\ job'[w] = None \/ job'[w].pc = "erase"
      /\ r # None
  BY <1>2, <1>3, <1>4, RowIsNotNone DEF Noted, Knows
<1>6. \A x : Wanted(x)' = Wanted(x)
  BY DEF Wanted
<1>7. \A k \in Names : Owned(k) => Owned(k)'
  BY <1>2, <1>5, <1>6 DEF Owned, Knows
<1> USE DEF Knows, Intact, Busy, Building
<1>8. Kept(job[w])'
  BY <1>1, <1>2, <1>3, <1>7 DEF Kept
<1>9. Defined(job[w])'
  BY <1>1, <1>2, <1>3, <1>5, <1>6 DEF Defined
<1>10. Truthful(job[w])'
  BY <1>1, <1>2, <1>3, <1>5, <1>6 DEF Truthful, Current
<1>11. Filled(job[w])'
  BY <1>1, <1>2, <1>3, <1>5 DEF Filled
<1> QED
  BY <1>4, <1>8, <1>9, <1>10, <1>11, SoundGather DEF Noted

LEMMA IntactEdit ==
  ASSUME TypeOK, Orderly, Sound, faults = 0, NEW w \in Workers,
         Save(w) \/ Refuse(w) \/ Deactivate(w) \/ Erase(w)
  PROVE  Sound'
<1> USE TypeParts
<1> DEFINE m == job[w].model
           h == job[w].held
           n == Name(w)
<1>1. job[w] # None /\ UNCHANGED <<mv, src, todo>> /\ Alone
  BY DEF Save, Refuse, Deactivate, Erase, Step, Orderly
<1>2. Knows(w, m, h, n)
  BY <1>1, Knowing
<1> HIDE DEF m, h, n
<1>3. \A x : Wanted(x)' = Wanted(x)
  BY DEF Wanted
<1>4. ASSUME Done(w) PROVE job'[w] = None /\ \A v \in Workers : job'[v] # None => v = w
  <2>1. job' = [job EXCEPT ![w] = None]
    BY <1>4 DEF Done
  <2> QED
    BY <1>1, <2>1, Solo
<1>5. CASE Save(w)
  <2>1. PICK x : Saved(w, m, x)
    BY <1>5, SaveStep DEF m
  <2> DEFINE t == Obsolete(h, x)
  <2>2. /\ job'[w] = None => t = None /\ ~Wanted(x)
        /\ job'[w] # None =>
             /\ job'[w].op = "save" /\ job'[w].model = m /\ job'[w].unlink = t
             /\ job'[w].pc = "unlink" \/ (job'[w].pc = "plan" /\ Wanted(x) /\ t = None)
    <3>1. job'[w] = IF After(t, Wanted(x)) = "done" THEN None
                    ELSE [pc |-> After(t, Wanted(x)), op |-> "save", model |-> m,
                          held |-> x, unlink |-> t]
      BY <2>1 DEF Saved, h
    <3>2. job'[w] # None => job'[w].pc = After(t, Wanted(x))
      BY <3>1
    <3>3. After(t, Wanted(x)) # "done" => job'[w] # None
      <4>1. m \in Models /\ x \in Row /\ t \in Names \cup {None}
        BY <1>2, <2>1, ObsoleteType DEF Saved, Knows
      <4>2. After(t, Wanted(x)) # "done" => After(t, Wanted(x)) \in Pcs
        BY AfterType
      <4>3. After(t, Wanted(x)) # "done" => job'[w] \in Job
        BY <3>1, <4>1, <4>2 DEF Job, Ops
      <4> QED
        BY <4>3, NoneAssumption
    <3> QED
      BY <3>1, <3>2, <3>3 DEF After
  <2>3. /\ row'[m] = x /\ \A k \in Models : k # m => row'[k] = row[k]
        /\ x # None /\ job[w].pc = "save"
        /\ t = IF h.enabled /\ (~Wanted(x) \/ x.name # h.name) THEN h.name ELSE None
        /\ \A v \in Workers : job'[v] # None => v = w
    BY <1>2, <2>1, RowIsNotNone DEF Saved, Knows, RowOK, Obsolete, h
  <2>4. h.name # None /\ n = h.name
    BY <1>2, NoneAssumption DEF Knows
  <2> HIDE DEF t
  <2>5. \A k \in Names : Owned(k) => Owned(k)' \/ (k = h.name /\ t = h.name)
    BY <1>2, <1>3, <2>3 DEF Owned, Knows, Wanted
  <2> USE DEF Knows, Intact, Busy, Building
  <2>6. Kept(job[w])'
    BY <1>1, <1>2, <2>2, <2>3, <2>4, <2>5 DEF Kept
  <2>7. Defined(job[w])'
    BY <1>1, <1>2, <1>3, <2>2, <2>3 DEF Defined
  <2>8. Truthful(job[w])'
    BY <1>1, <1>2, <1>3, <2>2, <2>3 DEF Truthful, Current
  <2>9. Filled(job[w])'
    BY <1>1, <1>2, <2>2, <2>3 DEF Filled
  <2> QED
    BY <2>3, <2>6, <2>7, <2>8, <2>9, SoundGather
<1>6. CASE Refuse(w)
  <2>1. job'[w] = None /\ row' = row /\ \A v \in Workers : job'[v] # None => v = w
    BY <1>4, <1>6 DEF Refuse
  <2>2. job[w].pc \in {"save", "deactivate"}
    BY <1>6 DEF Refuse, Step
  <2> USE DEF Knows, Intact, Busy, Building
  <2>3. Kept(job[w])'
    BY <1>1, <1>2, <1>3, <2>1, <2>2 DEF Kept, Owned
  <2>4. Defined(job[w])'
    BY <1>1, <1>2, <1>3, <2>1, <2>2 DEF Defined
  <2>5. Truthful(job[w])'
    BY <1>1, <1>2, <1>3, <2>1, <2>2 DEF Truthful, Current
  <2>6. Filled(job[w])'
    BY <1>1, <1>2, <2>1, <2>2 DEF Filled
  <2> QED
    BY <2>1, <2>3, <2>4, <2>5, <2>6, SoundGather
<1>7. CASE Deactivate(w)
  <2> DEFINE x == [h EXCEPT !.active = FALSE]
  <2>1. /\ x \in Row /\ x # None /\ x.name = h.name /\ x.type = h.type /\ x.def = h.def
        /\ x.enabled = h.enabled /\ x.status = h.status
    BY <1>2, NoneAssumption DEF Row, Knows
  <2>2. /\ row' = [row EXCEPT ![m] = x] /\ job[w].pc = "deactivate"
        /\ IF ~x.enabled THEN Done(w) ELSE Go(w, "unlink", "deactivate", m, x, x.name)
    BY <1>2, <1>7 DEF Deactivate, Knows, Step, m
  <2> HIDE DEF x
  <2>3. /\ row'[m] = x /\ \A k \in Models : k # m => row'[k] = row[k]
        /\ Wanted(x) = Wanted(h)
    BY <1>2, <2>1, <2>2 DEF Knows, RowOK, Wanted
  <2>4. /\ job'[w] = None \/ (job'[w].pc = "unlink" /\ job'[w].model = m)
        /\ \A v \in Workers : job'[v] # None => v = w
    <3>1. CASE Done(w)
      BY <1>4, <3>1
    <3>2. CASE Go(w, "unlink", "deactivate", m, x, x.name)
      <4> DEFINE j == [pc |-> "unlink", op |-> "deactivate", model |-> m, held |-> x,
                       unlink |-> x.name]
      <4>1. job' = [job EXCEPT ![w] = j]
        BY <3>2 DEF Go
      <4>2. j.pc = "unlink" /\ j.model = m
        OBVIOUS
      <4> HIDE DEF j
      <4>3. job'[w] = j /\ \A v \in Workers : v # w => job'[v] = job[v]
        BY <4>1 DEF JobOK
      <4> QED
        BY <1>1, <4>2, <4>3 DEF Alone
    <3> QED
      BY <2>2, <3>1, <3>2
  <2>5. \A k \in Names : Owned(k) => Owned(k)'
    BY <1>2, <1>3, <2>1, <2>3 DEF Owned, Knows
  <2> USE DEF Knows, Intact, Busy, Building
  <2>6. Kept(job[w])'
    BY <1>1, <1>2, <2>2, <2>4, <2>5 DEF Kept
  <2>7. Defined(job[w])'
    BY <1>1, <1>2, <1>3, <2>1, <2>2, <2>3, <2>4 DEF Defined
  <2>8. Truthful(job[w])'
    BY <1>1, <1>2, <1>3, <2>1, <2>2, <2>3, <2>4 DEF Truthful, Current
  <2>9. Filled(job[w])'
    BY <1>1, <1>2, <2>2, <2>4 DEF Filled
  <2> QED
    BY <2>4, <2>6, <2>7, <2>8, <2>9, SoundGather
<1>8. CASE Erase(w)
  <2>1. /\ job[w].pc = "erase" /\ row' = [row EXCEPT ![m] = None]
        /\ job'[w] = None /\ \A v \in Workers : job'[v] # None => v = w
    BY <1>4, <1>8 DEF Erase, Step, m
  <2>2. row'[m] = None /\ \A k \in Models : k # m => row'[k] = row[k]
    BY <1>2, <2>1 DEF Knows, RowOK
  <2>3. Wanted(h) => mv[h.name] = None
    BY <1>2, <2>1 DEF Knows, Leaves, Course, Ops, Building, Wanted
  <2>4. \A k \in Names : Owned(k) => Owned(k)' \/ mv[k] = None
    BY <1>2, <1>3, <2>2, <2>3 DEF Owned, Knows
  <2> USE DEF Knows, Intact, Busy, Building
  <2>5. Kept(job[w])'
    BY <1>1, <1>2, <2>1, <2>4 DEF Kept
  <2>6. Defined(job[w])'
    BY <1>1, <1>2, <1>3, <2>1, <2>2 DEF Defined
  <2>7. Truthful(job[w])'
    BY <1>1, <1>2, <1>3, <2>1, <2>2 DEF Truthful, Current
  <2>8. Filled(job[w])'
    BY <1>1, <1>2, <2>1 DEF Filled
  <2> QED
    BY <2>1, <2>5, <2>6, <2>7, <2>8, SoundGather
<1> QED
  BY <1>5, <1>6, <1>7, <1>8

LEMMA IntactRequest ==
  ASSUME TypeOK, Sound, faults = 0, Careful, NEW w \in Admins, Create(w) \/ Arrive(w)
  PROVE  Sound'
<1> USE TypeParts
<1>1. /\ w \in Workers /\ w # Loop /\ todo = {} /\ UNCHANGED <<mv, src, todo>>
      /\ \A v \in Workers : job[v] = None
  BY LoopAssumption, AllFree DEF Workers, Create, Arrive
<1>2. Intact(None)
  BY <1>1 DEF Sound
<1>3. \A x : Wanted(x)' = Wanted(x)
  BY DEF Wanted
<1>4. CASE Create(w)
  <2>1. PICK m \in Models, x \in Row :
          /\ row[m] = None /\ x.status = "none" /\ row' = [row EXCEPT ![m] = x]
          /\ Go(w, After(None, Wanted(x)), "save", m, x, None)
    BY <1>4 DEF Create
  <2>2. /\ row'[m] = x /\ \A k \in Models : k # m => row'[k] = row[k]
        /\ \A v \in Workers : job'[v] # None => v = w
        /\ job'[w] = None => ~Wanted(x)
        /\ job'[w] # None => job'[w].pc = "plan" /\ job'[w].op = "save" /\ job'[w].model = m
    <3>1. CASE ~Wanted(x)
      BY <1>1, <2>1, <3>1 DEF Go, After, JobOK, RowOK
    <3>2. CASE Wanted(x)
      <4>1. Go(w, "plan", "save", m, x, None)
        BY <2>1, <3>2 DEF After
      <4>2. Began(w, "plan", "save", m, x, None)
        BY <1>1, <4>1, Beginning
      <4>3. job'[w] # None
        <5>1. [pc |-> "plan", op |-> "save", model |-> m, held |-> x, unlink |-> None] \in Job
          BY DEF Job, Pcs, Building, Ops
        <5> QED
          BY <1>1, <4>1, <5>1, NoneAssumption DEF Go, JobOK
      <4> QED
        BY <2>1, <4>2, <4>3 DEF Began, RowOK
    <3> QED
      BY <3>1, <3>2
  <2>3. \A k \in Names : Owned(k) => Owned(k)'
    BY <1>3, <2>1, <2>2 DEF Owned
  <2> USE DEF Intact, Busy, Building
  <2>4. Kept(job[w])'
    BY <1>1, <1>2, <2>3 DEF Kept
  <2>5. Defined(job[w])'
    BY <1>1, <1>2, <1>3, <2>2 DEF Defined
  <2>6. Truthful(job[w])'
    BY <1>1, <1>2, <1>3, <2>1, <2>2 DEF Truthful, Current
  <2>7. Filled(job[w])'
    BY <1>1, <1>2, <2>2 DEF Filled
  <2> QED
    BY <1>1, <2>2, <2>4, <2>5, <2>6, <2>7, SoundGather
<1>5. CASE Arrive(w)
  <2>1. PICK pc, op, m, x, t :
          pc \in {"save", "deactivate", "refresh", "erase", "unlink"} /\ Go(w, pc, op, m, x, t)
    BY <1>5 DEF Arrive, Ops
  <2>2. Began(w, pc, op, m, x, t)
    BY <1>1, <2>1, Beginning
  <2>3. row' = row
    BY <1>5 DEF Arrive
  <2> USE DEF Intact, Busy, Building
  <2>4. Kept(job[w])'
    BY <1>1, <1>2, <1>3, <2>3 DEF Kept, Owned
  <2>5. Defined(job[w])'
    BY <1>1, <1>2, <1>3, <2>3 DEF Defined
  <2>6. Truthful(job[w])'
    BY <1>1, <1>2, <1>3, <2>1, <2>2, <2>3 DEF Truthful, Current, Began
  <2>7. Filled(job[w])'
    BY <1>1, <1>2, <2>3 DEF Filled
  <2> QED
    BY <1>1, <2>2, <2>4, <2>5, <2>6, <2>7, SoundGather DEF Began
<1> QED
  BY <1>4, <1>5

LEMMA IntactCycle ==
  ASSUME TypeOK, Orderly, Sound, faults = 0, Careful, BeginCycle \/ NextDue PROVE Sound'
<1> USE TypeParts
<1>1. Loop \in Workers /\ UNCHANGED <<row, mv>> /\ Alone
  BY DEF Workers, BeginCycle, NextDue, Orderly
<1>2. \A v \in Workers : job[v] = None
  <2>1. CASE BeginCycle
    BY <2>1, AllFree DEF BeginCycle
  <2>2. CASE NextDue
    BY <1>1, <2>2 DEF NextDue, Alone
  <2> QED
    BY <2>1, <2>2
<1>3. Intact(None)
  BY <1>2 DEF Sound
<1>4. \A x : Wanted(x)' = Wanted(x)
  BY DEF Wanted
<1>5. /\ \A v \in Workers : job'[v] # None => v = Loop
      /\ job'[Loop] = None \/ job'[Loop].pc = "refresh"
  <2>1. CASE UNCHANGED job
    BY <1>1, <1>2, <2>1
  <2>2. CASE job' # job
    <3>1. PICK m, x : Go(Loop, "refresh", "refresh", m, x, None)
      BY <2>2 DEF BeginCycle, NextDue
    <3>2. Began(Loop, "refresh", "refresh", m, x, None)
      BY <1>1, <1>2, <3>1, Beginning
    <3> QED
      BY <3>2 DEF Began
  <2> QED
    BY <2>1, <2>2
<1> USE DEF Intact, Busy, Building
<1>6. Kept(job[Loop])'
  BY <1>1, <1>3, <1>4 DEF Kept, Owned
<1>7. Defined(job[Loop])'
  BY <1>1, <1>3, <1>4 DEF Defined
<1>8. Truthful(job[Loop])'
  BY <1>1, <1>3, <1>4, <1>5 DEF Truthful, Current
<1>9. Filled(job[Loop])'
  BY <1>1, <1>3 DEF Filled
<1> QED
  BY <1>1, <1>5, <1>6, <1>7, <1>8, <1>9, SoundGather

LEMMA SoundInit == Init => Sound
  BY DEF Init, Sound, Intact, Kept, Defined, Truthful, Filled, Busy

LEMMA SoundStep == Careful /\ TypeOK /\ Orderly /\ Sound /\ [Next]_vars => Sound'
<1> SUFFICES ASSUME Careful, TypeOK, Orderly, Sound, [Next]_vars, faults' = 0 PROVE Sound'
  BY DEF Sound
<1>1. faults \in Nat
  BY BoundAssumption DEF TypeOK
<1>2. faults = 0 /\ ~Fault
  <2>1. ~Fault
    BY <1>1 DEF Fault
  <2>2. faults' = faults
    BY <2>1 DEF Next, vars, OracleChanges, Reload, FanOut, BeginCycle, NextDue, Crash, Create, Arrive,
         Handle, Save, Refuse, Deactivate, Erase, Reconcile, Unlink, UnlinkFails, ClearMetadata,
         Exists, RefreshConcurrently, Plan, Drop, CreateEmpty, CreateIndex, Populate, Count,
         Record, RecordError, StatementFails
  <2> QED
    BY <2>1, <2>2
<1>3. CASE UNCHANGED vars \/ OracleChanges \/ Reload \/ FanOut
  <2>1. UNCHANGED <<row, mv, job>>
    BY <1>3 DEF vars, OracleChanges, Reload, FanOut
  <2> QED
    BY <1>2, <2>1
       DEF Sound, Intact, Kept, Defined, Truthful, Filled, Busy, Owned, Current, Wanted
<1>4. CASE BeginCycle \/ NextDue
  BY <1>2, <1>4, IntactCycle
<1>5. ASSUME NEW w \in Admins, Create(w) \/ Arrive(w) PROVE Sound'
  BY <1>2, <1>5, IntactRequest
<1>6. ASSUME NEW w \in Workers, Handle(w) PROVE Sound'
  <2>1. ~UnlinkFails(w) /\ ~StatementFails(w)
    BY <1>2 DEF UnlinkFails, StatementFails
  <2> QED
    BY <1>2, <1>6, <2>1, IntactEdit, IntactBuild, IntactRecord DEF Handle, Reconcile
<1> QED
  BY <1>2, <1>3, <1>4, <1>5, <1>6 DEF Next, Crash

LEMMA StaysSound == ASSUME Careful PROVE Spec => [](TypeOK /\ Sound)
<1>1. Init => TypeOK /\ Orderly /\ Sound
  BY TypeInit, OrderlyInit, SoundInit
<1>2. TypeOK /\ Orderly /\ Sound /\ [Next]_vars => (TypeOK /\ Orderly /\ Sound)'
  BY TypeStep, OrderlyStep, SoundStep
<1> QED
  BY <1>1, <1>2, PTL DEF Spec

LEMMA AtRestIntact == ASSUME Sound, AtRest, faults = 0 PROVE Intact(None)
  BY DEF Sound, AtRest

\* Whatever is renamed, switched off, deactivated and deleted, one operation after the
\* other: until something fails no matview is left without its model.
THEOREM NoOrphanHolds == ASSUME Careful PROVE Spec => []NoOrphan
<1>1. TypeOK /\ Sound => NoOrphan
  BY AtRestIntact DEF NoOrphan, Intact, Kept, Owned, Busy
<1> QED
  BY <1>1, StaysSound, PTL

\* Until something fails a matview shown as refreshed is the model's: it has its
\* definition, its unique index and rows.
THEOREM OkIsCurrentHolds == ASSUME Careful PROVE Spec => []OkIsCurrent
<1>1. TypeOK /\ Sound => OkIsCurrent
  BY AtRestIntact DEF OkIsCurrent, Intact, Truthful, Current, Busy
<1> QED
  BY <1>1, StaysSound, PTL

\* Until something fails a model that can not be read is one whose own joins fan out.
THEOREM AlwaysAnswersHolds == ASSUME Careful PROVE Spec => []AlwaysAnswers
<1>1. ASSUME TypeOK, Sound, AtRest, faults = 0, NEW m \in Models, Answer(m) = "error"
      PROVE  row[m].def \in Fanout
  <2>1. Intact(None)
    BY <1>1, AtRestIntact
  <2>2. row[m] # None /\ Available(m)
    BY <1>1 DEF Answer
  <2>3. row[m] \in Row /\ row[m].name \in Names
    <3>1. row[m] \in Row
      BY <1>1, <2>2 DEF TypeOK
    <3> QED
      BY <3>1 DEF Row
  <2>4. mv[row[m].name].def = row[m].def
    BY <2>1, <2>2 DEF Intact, Defined, Busy, Available
  <2>5. mv[row[m].name].ver = None
    BY <1>1, <2>2, <2>4 DEF Answer
  <2> QED
    BY <2>1, <2>2, <2>3, <2>4, <2>5 DEF Intact, Filled, Busy, Available
<1>2. TypeOK /\ Sound => AlwaysAnswers
  BY <1>1 DEF AlwaysAnswers
<1> QED
  BY <1>2, StaysSound, PTL
=============================================================================
