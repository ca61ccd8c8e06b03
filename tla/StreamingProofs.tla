-------------------------- MODULE StreamingProofs --------------------------
(***************************************************************************)
(* What holds of Streaming for every set of keys and request threads and   *)
(* every bound.  Types, the absence of duplicates and the implementation   *)
(* of Replica hold for any number of concurrent cycles; that no row is     *)
(* skipped and that the cursor never moves backwards hold when the poll    *)
(* loop alone runs cycles: a second worker breaks the first of them        *)
(* (README, section 4).  The last two sections are about StreamingConfig,  *)
(* the edits beside the cycles.                                            *)
(***************************************************************************)
EXTENDS StreamingConfig, TLAPS

(***************************************************************************)
(* Dates.                                                                  *)
(***************************************************************************)
\* Day n is day d of year y.
Dated(n, y, d) ==
  /\ n = YearDays * y + d /\ d < YearDays
  /\ Julian(n) = 1000 * y + d + 1 /\ Year(Julian(n)) = y

LEMMA DayOfYear == ASSUME NEW n \in Nat PROVE \E y \in Nat, d \in Nat : Dated(n, y, d)
<1>1. YearDays \in Nat /\ 0 < YearDays /\ YearDays < 1000
  BY YearAssumption
<1>2. PICK y, d : y = n \div YearDays /\ d = n % YearDays
  OBVIOUS
<1>3. y \in Nat /\ d \in Nat /\ n = YearDays * y + d /\ d < YearDays
  BY <1>1, <1>2
<1>4. Julian(n) = 1000 * y + d + 1
  BY <1>2 DEF Julian
<1>5. Year(Julian(n)) = y
  BY <1>1, <1>3, <1>4 DEF Year
<1> QED
  BY <1>3, <1>4, <1>5 DEF Dated

\* A stamp is a number and names the year of its day.
LEMMA JulianNat == \A n \in Nat : Julian(n) \in Nat
<1> SUFFICES ASSUME NEW n \in Nat PROVE Julian(n) \in Nat
  OBVIOUS
<1>1. PICK y \in Nat, d \in Nat : Dated(n, y, d)
  BY DayOfYear
<1> QED
  BY <1>1 DEF Dated

\* Stamps grow with the days, and within a year by as much as the days do.
LEMMA JulianGrows ==
  ASSUME NEW k \in Nat, NEW n \in Nat, k < n
  PROVE  /\ Julian(k) < Julian(n) /\ Year(Julian(k)) <= Year(Julian(n))
         /\ Year(Julian(k)) = Year(Julian(n)) => Julian(n) - Julian(k) = n - k
<1>1. YearDays \in Nat /\ 0 < YearDays /\ YearDays < 1000
  BY YearAssumption
<1>2. PICK y \in Nat, d \in Nat : Dated(k, y, d)
  BY DayOfYear
<1>3. PICK z \in Nat, e \in Nat : Dated(n, z, e)
  BY DayOfYear
<1>4. y <= z
  <2> SUFFICES ASSUME z + 1 <= y PROVE FALSE
    OBVIOUS
  <2>0. PICK c \in Nat : y = (z + 1) + c
    <3>1. y - (z + 1) \in Nat /\ y = (z + 1) + (y - (z + 1))
      OBVIOUS
    <3> QED
      BY <3>1
  <2>1. YearDays * y = YearDays * z + YearDays + YearDays * c
    BY <1>1, <2>0
  <2>2. YearDays * c \in Nat /\ YearDays * z \in Nat
    BY <1>1
  <2> QED
    BY <1>1, <1>2, <1>3, <2>1, <2>2 DEF Dated
<1>5. y = z => e - d = n - k
  <2>1. YearDays * y \in Nat
    BY <1>1
  <2> QED
    BY <1>1, <1>2, <1>3, <2>1 DEF Dated
<1> QED
  BY <1>1, <1>2, <1>3, <1>4, <1>5 DEF Dated

(***************************************************************************)
(* Types.                                                                  *)
(***************************************************************************)

\* One worker's part of TypeOK.
CycleOK(c) ==
  /\ c \in Cycle
  /\ c.pc # "idle" => c.base \in Config
  /\ c.pc \in {"pull", "insert", "advance"} => c.wm \in Nat

\* What target_max_watermark returns is a value of the cursor columns.
LEMMA TargetMaxType ==
  ASSUME tgt \in SUBSET Row, NEW marker, NEW top \in TargetMax(marker)
  PROVE  top.d \in NatOrNull /\ top.t \in NatOrNull
<1>1. CASE tgt = {}
  BY <1>1 DEF TargetMax, NatOrNull
<1>2. CASE tgt # {}
  <2>1. PICK r \in tgt : top = [d |-> WatermarkOf(marker, r),
                                t |-> IF marker = "timestamp" THEN r.time ELSE None]
    BY <1>2 DEF TargetMax
  <2>2. r \in Row
    OBVIOUS
  <2> QED
    BY <2>1, <2>2 DEF Row, NatOrNull, WatermarkOf
<1> QED
  BY <1>1, <1>2

LEMMA CyclesOK == TypeOK => \A w \in Workers : CycleOK(cyc[w])
<1> SUFFICES ASSUME TypeOK, NEW w \in Workers PROVE CycleOK(cyc[w])
  OBVIOUS
<1>1. /\ cyc \in [Workers -> Cycle]
      /\ cyc[w].pc # "idle" => cyc[w].base \in Config
      /\ cyc[w].pc \in {"pull", "insert", "advance"} => cyc[w].wm \in Nat
  BY DEF TypeOK
<1> QED
  BY <1>1 DEF CycleOK

\* A step of one worker keeps the types of all of them if it keeps its own.
LEMMA CycleStep ==
  ASSUME TypeOK, NEW w \in Workers, NEW c, CycleOK(c), cyc' = [cyc EXCEPT ![w] = c]
  PROVE  /\ cyc' \in [Workers -> Cycle]
         /\ \A v \in Workers :
              /\ cyc'[v].pc # "idle" => cyc'[v].base \in Config
              /\ cyc'[v].pc \in {"pull", "insert", "advance"} => cyc'[v].wm \in Nat
<1>1. cyc \in [Workers -> Cycle]
  BY DEF TypeOK
<1>2. cyc' \in [Workers -> Cycle] /\ \A v \in Workers : cyc'[v] = IF v = w THEN c ELSE cyc[v]
  BY <1>1 DEF CycleOK
<1>3. \A v \in Workers : CycleOK(cyc'[v])
  BY <1>2, CyclesOK
<1> QED
  BY <1>2, <1>3 DEF CycleOK

LEMMA FaultType == TypeOK /\ faults < MaxFaults /\ faults' = faults + 1 => faults' \in 0..MaxFaults
  BY BoundAssumption DEF TypeOK

LEMMA InsertType ==
  ASSUME TypeOK, NEW r \in Row, Insert(r)
  PROVE  tgt' \in SUBSET Row /\ dup' \in BOOLEAN /\ UNCHANGED <<loaded, uniq, temp, stray>>
  BY DEF TypeOK, Insert

LEMMA LoadType ==
  ASSUME TypeOK, NEW r \in Row, Load(r)
  PROVE  temp' \in TempTable /\ UNCHANGED <<loaded, tgt, uniq, dup>>
<1>1. temp \in TempTable
  BY DEF TypeOK, Load, Blocked
<1>2. temp' = [temp EXCEPT !.rows = @ \cup {r}, !.dup = @ \/ r.key \in KeysOf(temp.rows)]
  BY DEF Load
<1>3. temp.rows \cup {r} \in SUBSET Row /\ (temp.dup \/ r.key \in KeysOf(temp.rows)) \in BOOLEAN
  BY <1>1 DEF TempTable
<1> QED
  BY <1>1, <1>2, <1>3 DEF Load, TempTable

LEMMA VisibleNat == \A d \in VisibleDays : d \in Nat
  BY JulianNat DEF VisibleDays

LEMMA OracleType == TypeOK /\ Oracle => TypeOK'
<1> SUFFICES ASSUME TypeOK, Oracle PROVE TypeOK'
  OBVIOUS
<1>1. CASE Tick
  <2>1. now' \in [day : 0..MaxDay, time : 0..MaxTime]
    BY <1>1, BoundAssumption DEF Tick, TypeOK
  <2> QED
    BY <1>1, <2>1 DEF Tick, TypeOK, staging
<1>2. ASSUME NEW k \in Keys, InsertRow(k) PROVE TypeOK'
  <2>1. now.time \in Nat /\ \A d \in VisibleDays : d \in Nat
    BY VisibleNat DEF TypeOK
  <2>2. src' \in SUBSET Row /\ seqGen' \in Nat
    BY <1>2, <2>1 DEF InsertRow, TypeOK, Row
  <2> QED
    BY <1>2, <2>2 DEF InsertRow, TypeOK, staging
<1>3. ASSUME NEW r \in src, UpdateRow(r) PROVE TypeOK'
  <2>1. now.time \in Nat /\ \A d \in VisibleDays : d \in Nat
    BY VisibleNat DEF TypeOK
  <2>2. r \in Row /\ src \in SUBSET Row
    BY DEF TypeOK
  <2>3. \A d \in Nat : [r EXCEPT !.day = d, !.time = now.time] \in Row
    BY <2>1, <2>2 DEF Row
  <2>4. src' \in SUBSET Row
    BY <1>3, <2>1, <2>2, <2>3 DEF UpdateRow
  <2> QED
    BY <1>3, <2>4 DEF UpdateRow, TypeOK, staging
<1> QED
  BY <1>1, <1>2, <1>3 DEF Oracle

LEMMA ReloadType ==
  ASSUME TypeOK, NEW w \in Workers, Reload(w)
  PROVE  TypeOK'
<1>0. /\ cyc \in [Workers -> Cycle] /\ CycleOK(cyc[w]) /\ cyc[w].pk \in BOOLEAN
      /\ cyc[w].pending \in SUBSET Row /\ src \in SUBSET Row
  BY CyclesOK DEF TypeOK, CycleOK, Cycle
<1>1. CASE CreateTemp(w)
  <2>1. CycleOK([cyc[w] EXCEPT !.pc = "fill"])
    BY <1>0, <1>1 DEF CycleOK, Cycle, CreateTemp
  <2>2. cyc' = [cyc EXCEPT ![w] = [cyc[w] EXCEPT !.pc = "fill"]]
    BY <1>0, <1>1 DEF CreateTemp, Goto
  <2>3. temp' \in TempTable
    BY <1>0, <1>1 DEF CreateTemp, TempTable
  <2> QED
    BY <1>1, <2>1, <2>2, <2>3, CycleStep DEF CreateTemp, TypeOK, oracle
<1>2. CASE CopyAll(w)
  <2>1. CycleOK([cyc[w] EXCEPT !.pc = "load", !.pending = src])
    BY <1>0, <1>2 DEF CycleOK, Cycle, CopyAll
  <2>2. cyc' = [cyc EXCEPT ![w] = [cyc[w] EXCEPT !.pc = "load", !.pending = src]]
    BY <1>0, <1>2 DEF CopyAll
  <2>3. temp' \in TempTable
    BY <1>2 DEF CopyAll, TempTable, TypeOK
  <2> QED
    BY <1>2, <2>1, <2>2, <2>3, CycleStep DEF CopyAll, TypeOK, oracle
<1>3. CASE LoadRow(w)
  <2>1. PICK r \in cyc[w].pending : Load(r) /\ cyc' = [cyc EXCEPT ![w].pending = @ \ {r}]
    BY <1>3 DEF LoadRow
  <2>2. r \in Row /\ CycleOK([cyc[w] EXCEPT !.pending = @ \ {r}])
    BY <1>0, <2>1 DEF CycleOK, Cycle
  <2>3. cyc' = [cyc EXCEPT ![w] = [cyc[w] EXCEPT !.pending = @ \ {r}]]
    BY <1>0, <2>1
  <2> QED
    BY <1>3, <2>1, <2>2, <2>3, CycleStep, LoadType DEF LoadRow, TypeOK, oracle
<1>4. CASE CopyDone(w)
  <2>1. cyc' = [cyc EXCEPT ![w] = [cyc[w] EXCEPT !.pc = "swap"]] /\ cyc[w].pc = "load"
    BY <1>0, <1>4 DEF CopyDone, Goto
  <2>2. CycleOK([cyc[w] EXCEPT !.pc = "swap"])
    BY <1>0, <2>1 DEF CycleOK, Cycle
  <2> QED
    BY <1>4, <2>1, <2>2, CycleStep DEF CopyDone, TypeOK, oracle, staging
<1>5. CASE SwapAll(w)
  <2>1. cyc' = [cyc EXCEPT ![w] = [cyc[w] EXCEPT !.pc = "finish"]] /\ cyc[w].pc = "swap"
    BY <1>0, <1>5 DEF SwapAll, Goto
  <2>2. CycleOK([cyc[w] EXCEPT !.pc = "finish"])
    BY <1>0, <2>1 DEF CycleOK, Cycle
  <2>3. temp \in TempTable
    BY <1>5 DEF SwapAll, TypeOK
  <2>4. tgt' \in SUBSET Row /\ uniq' \in BOOLEAN /\ dup' \in BOOLEAN
    BY <1>5, <2>3 DEF SwapAll, TempTable
  <2> QED
    BY <1>5, <2>1, <2>2, <2>4, CycleStep DEF SwapAll, TypeOK, oracle
<1>6. CASE ReloadBreaks(w) \/ ReloadFails(w) \/ CopyUnseen(w)
  <2>1. PICK pc \in {"finish", "swap"} :
          /\ cyc' = [cyc EXCEPT ![w] = [cyc[w] EXCEPT !.pc = pc, !.pending = {}]]
          /\ cyc[w].pc \in {"copy", "fill", "load", "swap"}
    BY <1>0, <1>6 DEF ReloadBreaks, ReloadFails, CopyUnseen
  <2>2. CycleOK([cyc[w] EXCEPT !.pc = pc, !.pending = {}])
    BY <1>0, <2>1 DEF CycleOK, Cycle
  <2>3. temp' \in TempTable \cup {None} /\ stray' \in SUBSET Row /\ faults' \in 0..MaxFaults
    BY <1>0, <1>6, FaultType DEF ReloadBreaks, ReloadFails, CopyUnseen, TypeOK
  <2> QED
    BY <1>6, <2>1, <2>2, <2>3, CycleStep DEF ReloadBreaks, ReloadFails, CopyUnseen, TypeOK, oracle
<1> QED
  BY <1>1, <1>2, <1>3, <1>4, <1>5, <1>6 DEF Reload

LEMMA WorkType ==
  ASSUME TypeOK, NEW w \in Workers, Work(w)
  PROVE  TypeOK'
<1>0. cyc \in [Workers -> Cycle] /\ CycleOK(cyc[w])
  BY CyclesOK DEF TypeOK
<1>1. CASE Begin(w)
  <2>1. PICK pc \in {"copy", "finish", "init", "pull"}, pk \in BOOLEAN :
          /\ cyc' = [cyc EXCEPT ![w] = [pc |-> pc, base |-> cfg, wm |-> cfg.wm,
                                        wmTime |-> cfg.wmTime, pk |-> pk, pending |-> {}]]
          /\ pc = "pull" => cfg.wm # None
    <3>1. (jobPk \/ cfg.pk) \in BOOLEAN
      OBVIOUS
    <3> QED
      BY <1>1, <3>1 DEF Begin
  <2>2. CycleOK([pc |-> pc, base |-> cfg, wm |-> cfg.wm, wmTime |-> cfg.wmTime,
                 pk |-> pk, pending |-> {}])
    BY <2>1 DEF TypeOK, CycleOK, Cycle, Config, NatOrNull
  <2> QED
    BY <1>1, <2>1, <2>2, CycleStep DEF Begin, TypeOK, oracle, staging
<1>2. CASE InitCursor(w)
  <2>1. PICK top \in TargetMax(cyc[w].base.marker) \cup {[d |-> None, t |-> None]} :
          cyc' = [cyc EXCEPT ![w].pc = "pull",
                             ![w].wm = IF top.d = None THEN 0 ELSE top.d,
                             ![w].wmTime = top.t]
    BY <1>2 DEF InitCursor
  <2>2. top.d \in NatOrNull /\ top.t \in NatOrNull
    BY TargetMaxType DEF NatOrNull, TypeOK
  <2>3. PICK n \in Nat : n = IF top.d = None THEN 0 ELSE top.d
    BY <2>2 DEF NatOrNull
  <2>4. CycleOK([cyc[w] EXCEPT !.pc = "pull", !.wm = n, !.wmTime = top.t])
    BY <1>0, <1>2, <2>2 DEF CycleOK, Cycle, NatOrNull, InitCursor
  <2>5. cyc' = [cyc EXCEPT ![w] = [cyc[w] EXCEPT !.pc = "pull", !.wm = n, !.wmTime = top.t]]
    BY <1>0, <2>1, <2>3
  <2> QED
    BY <1>2, <2>4, <2>5, CycleStep DEF InitCursor, TypeOK, oracle, staging
<1>3. CASE Pull(w)
  <2>1. Selected(w) \in SUBSET Row
    BY DEF Selected, TypeOK
  <2>2. /\ CycleOK([cyc[w] EXCEPT !.pc = "insert", !.pending = Selected(w)])
        /\ CycleOK([cyc[w] EXCEPT !.pc = "finish"])
    BY <1>0, <1>3, <2>1 DEF CycleOK, Cycle, Pull
  <2>3. \/ cyc' = [cyc EXCEPT ![w] = [cyc[w] EXCEPT !.pc = "insert", !.pending = Selected(w)]]
        \/ cyc' = [cyc EXCEPT ![w] = [cyc[w] EXCEPT !.pc = "finish"]]
    BY <1>0, <1>3 DEF Pull
  <2> QED
    BY <1>3, <2>2, <2>3, CycleStep DEF Pull, TypeOK, oracle
<1>4. CASE PullDone(w)
  <2>1. cyc' = [cyc EXCEPT ![w] = [cyc[w] EXCEPT !.pc = "advance"]] /\ cyc[w].pc = "insert"
    BY <1>0, <1>4 DEF PullDone, Goto
  <2>2. CycleOK([cyc[w] EXCEPT !.pc = "advance"])
    BY <1>0, <2>1 DEF CycleOK, Cycle
  <2> QED
    BY <1>4, <2>1, <2>2, CycleStep DEF PullDone, TypeOK, oracle, staging
<1>5. CASE InsertPulled(w)
  <2>1. PICK r \in cyc[w].pending : Insert(r) /\ cyc' = [cyc EXCEPT ![w].pending = @ \ {r}]
    BY <1>5 DEF InsertPulled
  <2>2. r \in Row /\ CycleOK([cyc[w] EXCEPT !.pending = @ \ {r}])
    BY <1>0, <2>1 DEF CycleOK, Cycle
  <2>3. cyc' = [cyc EXCEPT ![w] = [cyc[w] EXCEPT !.pending = @ \ {r}]]
    BY <1>0, <2>1
  <2> QED
    BY <1>5, <2>1, <2>2, <2>3, CycleStep, InsertType DEF InsertPulled, TypeOK, oracle
<1>6. CASE PullFails(w) \/ PullUnseen(w)
  <2>1. PICK pc \in {"finish", "advance"} :
          /\ cyc' = [cyc EXCEPT ![w] = [cyc[w] EXCEPT !.pc = pc, !.pending = {}]]
          /\ cyc[w].pc \in {"pull", "insert"}
    BY <1>0, <1>6 DEF PullFails, PullUnseen
  <2>2. CycleOK([cyc[w] EXCEPT !.pc = pc, !.pending = {}])
    BY <1>0, <2>1 DEF CycleOK, Cycle
  <2>3. orphan' \in SUBSET Row
    BY <1>0, <1>6 DEF PullFails, PullUnseen, TypeOK, CycleOK, Cycle
  <2>4. faults' \in 0..MaxFaults
    BY <1>6, FaultType DEF PullFails, PullUnseen
  <2> QED
    BY <1>6, <2>1, <2>2, <2>3, <2>4, CycleStep DEF PullFails, PullUnseen, TypeOK, oracle, staging
<1>7. CASE Advance(w)
  <2>1. PICK top \in TargetMax(cyc[w].base.marker) \cup {[d |-> None, t |-> None]} :
          cyc' = [cyc EXCEPT ![w].pc = "finish",
                    ![w].wm = IF top.d = None THEN @ ELSE top.d,
                    ![w].wmTime = IF top.d # None /\ cyc[w].base.marker = "timestamp"
                                  THEN top.t ELSE @]
    BY <1>7 DEF Advance
  <2>2. top.d \in NatOrNull /\ top.t \in NatOrNull
    BY TargetMaxType DEF NatOrNull, TypeOK
  <2> DEFINE n == IF top.d = None THEN cyc[w].wm ELSE top.d
             t == IF top.d # None /\ cyc[w].base.marker = "timestamp" THEN top.t ELSE cyc[w].wmTime
  <2>3. n \in NatOrNull /\ t \in NatOrNull
    BY <1>0, <2>2 DEF CycleOK, Cycle
  <2>5. cyc' = [cyc EXCEPT ![w] = [cyc[w] EXCEPT !.pc = "finish", !.wm = n, !.wmTime = t]]
    BY <1>0, <2>1
  <2> HIDE DEF n, t
  <2>4. CycleOK([cyc[w] EXCEPT !.pc = "finish", !.wm = n, !.wmTime = t])
    BY <1>0, <1>7, <2>3 DEF CycleOK, Cycle, Advance
  <2> QED
    BY <1>7, <2>4, <2>5, CycleStep DEF Advance, TypeOK, oracle, staging
<1>8. CASE Reload(w)
  BY <1>8, ReloadType
<1>10. CASE Finish(w)
  <2>1. CycleOK(Idle)
    BY DEF CycleOK, Cycle, Idle, NatOrNull
  <2>2. /\ cfg \in Config /\ cyc[w].pk \in BOOLEAN /\ cyc[w].base \in Config
        /\ cyc[w].wm \in NatOrNull /\ cyc[w].wmTime \in NatOrNull
    BY <1>0, <1>10 DEF TypeOK, CycleOK, Cycle, Finish
  <2>3. cfg' \in Config
    BY <1>10, <2>2 DEF Finish, Config
  <2> QED
    BY <1>10, <2>1, <2>3, CycleStep DEF Finish, TypeOK, oracle, staging
<1> QED
  BY <1>1, <1>2, <1>3, <1>4, <1>5, <1>6, <1>7, <1>8, <1>10 DEF Work

LEMMA SentType == TypeOK => \A pc : Sent(pc) \in SUBSET Row
  BY CyclesOK DEF CycleOK, Cycle, Sent

LEMMA RestType ==
  ASSUME TypeOK, InitialLoad \/ Crash \/ Container
  PROVE  TypeOK'
<1>1. CASE InitialLoad
  BY <1>1 DEF InitialLoad, TypeOK, oracle
<1>2. CASE Crash
  <2>1. CycleOK(Idle)
    BY DEF CycleOK, Cycle, Idle, NatOrNull
  <2>2. orphan' \in SUBSET Row /\ stray' \in SUBSET Row
    BY <1>2, SentType DEF Crash, LoseCycles, TypeOK
  <2> QED
    BY <1>2, <2>1, <2>2, FaultType DEF Crash, LoseCycles, TypeOK, CycleOK, oracle
<1>3. CASE OrphanInsert
  <2>1. PICK r \in orphan : Insert(r) /\ orphan' = orphan \ {r}
    BY <1>3 DEF OrphanInsert
  <2>2. r \in Row
    BY DEF TypeOK
  <2> QED
    BY <1>3, <2>1, <2>2, InsertType DEF OrphanInsert, TypeOK, oracle
<1>4. CASE OrphanDies
  BY <1>4 DEF OrphanDies, TypeOK, oracle, staging
<1>5. CASE StrayLoad
  <2>1. PICK r \in stray : Load(r) /\ stray' = stray \ {r}
    BY <1>5 DEF StrayLoad
  <2>2. r \in Row
    BY DEF TypeOK
  <2> QED
    BY <1>5, <2>1, <2>2, LoadType DEF StrayLoad, TypeOK, oracle
<1>6. CASE StrayDies
  BY <1>6 DEF StrayDies, TypeOK, oracle
<1> QED
  BY <1>1, <1>2, <1>3, <1>4, <1>5, <1>6 DEF Container

LEMMA TypeStep == TypeOK /\ [Next]_vars => TypeOK'
<1>1. TypeOK /\ UNCHANGED vars => TypeOK'
  BY DEF TypeOK, vars, oracle, staging
<1> QED
  BY <1>1, OracleType, WorkType, RestType DEF Next

LEMMA TypeInit ==
  ASSUME StartOracle, StartCycles, loaded \in BOOLEAN, tgt \in SUBSET src, uniq \in BOOLEAN,
         jobPk \in BOOLEAN, cfg \in Config
  PROVE  TypeOK
<1>1. /\ now \in [day : 0..MaxDay, time : 0..MaxTime] /\ seqGen \in Nat
      /\ src \in SUBSET Row
  BY BoundAssumption, JulianNat DEF StartOracle, Row
<1>2. CycleOK(Idle) /\ Idle.pc = "idle"
  BY DEF CycleOK, Cycle, Idle, NatOrNull
<1>3. cyc \in [Workers -> Cycle] /\ \A w \in Workers : cyc[w].pc = "idle"
  BY <1>2 DEF StartCycles, CycleOK
<1>4. faults \in 0..MaxFaults
  BY BoundAssumption DEF StartCycles
<1>5. orphan \in SUBSET Row /\ dup \in BOOLEAN /\ temp \in TempTable \cup {None} /\ stray \in SUBSET Row
  BY Zenon DEF StartCycles
<1> QED
  BY <1>1, <1>3, <1>4, <1>5 DEF TypeOK

\* Every reachable state of a table that streams is well typed: in particular
\* a cycle that pulls always has a number to put in its predicate.
THEOREM TypeCorrect == Spec => []TypeOK
<1>1. InitStreaming => TypeOK
  <2>1. SUFFICES ASSUME InitStreaming PROVE TypeOK
    OBVIOUS
  <2>6. PICK m \in Markers, copied \in {jobPk, FALSE} : \E top \in TargetMax(m) :
          cfg = [enabled |-> TRUE, marker |-> m, pk |-> copied, wm |-> top.d, wmTime |-> top.t]
    BY <2>1 DEF InitStreaming
  <2>2. PICK top \in TargetMax(m) :
          cfg = [enabled |-> TRUE, marker |-> m, pk |-> copied, wm |-> top.d, wmTime |-> top.t]
    BY <2>6
  <2>3. src \in SUBSET Row
    BY <2>1, BoundAssumption, JulianNat DEF InitStreaming, StartOracle, Row
  <2>4. top.d \in NatOrNull /\ top.t \in NatOrNull
    BY <2>1, <2>3, TargetMaxType DEF InitStreaming
  <2>5. cfg \in Config
    BY <2>1, <2>2, <2>4, MarkerAssumption DEF InitStreaming, Config
  <2> QED
    BY <2>1, <2>5, TypeInit DEF InitStreaming
<1> QED
  BY <1>1, TypeStep, PTL DEF Spec

\* The same from a configuration row nobody has streamed with yet, where the
\* cursor is missing and a cycle falls back to 0.
THEOREM FreshTypeCorrect == FreshSpec => []TypeOK
<1>1. InitFresh => TypeOK
  <2>1. SUFFICES ASSUME InitFresh PROVE TypeOK
    OBVIOUS
  <2>2. PICK m \in Markers :
          cfg = [enabled |-> TRUE, marker |-> m, pk |-> FALSE, wm |-> None, wmTime |-> None]
    BY <2>1 DEF InitFresh
  <2>3. cfg \in Config
    BY <2>2, MarkerAssumption DEF Config, NatOrNull
  <2> QED
    BY <2>1, <2>3, TypeInit DEF InitFresh
<1> QED
  BY <1>1, TypeStep, PTL DEF FreshSpec

(***************************************************************************)
(* Any number of concurrent cycles: no key twice, and the steps seen by a  *)
(* reader of the target are those of Replica.  What carries both: a table  *)
(* that streams stays keyed, so no cycle ever reloads it and the unique    *)
(* index is there at each insert, and whatever is on its way to the target *)
(* was once read from the view.                                            *)
(***************************************************************************)
Indexed ==
  /\ HasUpsertKey(cfg.marker, jobPk) /\ loaded /\ uniq /\ ~dup
  /\ \A w \in Workers : cyc[w].pc \notin {"copy", "fill", "load", "swap"}
  /\ \A q \in tgt \cup orphan : q.key \in KeysOf(src)
  /\ \A w \in Workers : \A q \in cyc[w].pending : q.key \in KeysOf(src)

\* ON CONFLICT DO NOTHING: under the index an insert adds one key or nothing.
LEMMA InsertAdds ==
  ASSUME uniq, NEW r, Insert(r)
  PROVE  /\ UNCHANGED <<loaded, uniq, temp, stray>>
         /\ tgt \subseteq tgt' /\ tgt' \subseteq tgt \cup {r}
         /\ KeysOf(tgt') = KeysOf(tgt) \cup {r.key}
         /\ ~dup => ~dup'
  BY DEF Insert, Conflicts, KeysOf

LEMMA KeysOfUpdate ==
  ASSUME NEW S, NEW r \in S, NEW q, q.key = r.key
  PROVE  KeysOf((S \ {r}) \cup {q}) = KeysOf(S)
  BY DEF KeysOf

LEMMA KeysOfSrc ==
  ASSUME TypeOK, Oracle
  PROVE  /\ KeysOf(src') = KeysOf(src) \/ \E k \in Keys \ KeysOf(src) : KeysOf(src') = KeysOf(src) \cup {k}
         /\ UNCHANGED <<staging, cfg, jobPk, cyc, orphan, faults>>
<1>1. CASE Tick
  BY <1>1 DEF Tick
<1>2. ASSUME NEW k \in Keys, InsertRow(k)
      PROVE  KeysOf(src') = KeysOf(src) \cup {k} /\ k \notin KeysOf(src)
  <2>1. PICK q : q.key = k /\ src' = src \cup {q}
    <3>1. PICK d \in VisibleDays :
            src' = src \cup {[key |-> k, day |-> d, time |-> now.time, seq |-> seqGen + 1]}
      BY <1>2 DEF InsertRow
    <3> QED
      BY <3>1
  <2> QED
    BY <1>2, <2>1 DEF InsertRow, KeysOf
<1>3. ASSUME NEW r \in src, UpdateRow(r) PROVE KeysOf(src') = KeysOf(src)
  <2>1. PICK d \in VisibleDays : src' = (src \ {r}) \cup {[r EXCEPT !.day = d, !.time = now.time]}
    BY <1>3 DEF UpdateRow
  <2>2. [r EXCEPT !.day = d, !.time = now.time].key = r.key
    BY DEF TypeOK, Row
  <2> QED
    BY <2>1, <2>2, KeysOfUpdate
<1> QED
  BY <1>1, <1>2, <1>3 DEF Oracle, Tick, InsertRow, UpdateRow

\* A reload is a cycle in Case B; it changes its phase and what it has still to write.
LEMMA ReloadStep ==
  ASSUME TypeOK, NEW w \in Workers, Reload(w)
  PROVE  /\ cyc[w].pc \in {"copy", "fill", "load", "swap"} /\ UNCHANGED <<oracle, cfg, jobPk, orphan>>
         /\ cyc'[w].pc \in {"fill", "load", "swap", "finish"}
         /\ cyc'[w].base = cyc[w].base /\ cyc'[w].pk = cyc[w].pk
         /\ cyc'[w].wm = cyc[w].wm /\ cyc'[w].wmTime = cyc[w].wmTime
         /\ \A v \in Workers : v # w => cyc'[v] = cyc[v]
<1>0. cyc \in [Workers -> Cycle] /\ cyc[w] \in Cycle
  BY DEF TypeOK
<1>1. CASE CreateTemp(w) \/ CopyDone(w) \/ SwapAll(w)
  BY <1>0, <1>1 DEF CreateTemp, CopyDone, SwapAll, Goto, Cycle
<1>2. CASE CopyAll(w)
  BY <1>0, <1>2 DEF CopyAll, Cycle
<1>3. CASE LoadRow(w)
  BY <1>0, <1>3 DEF LoadRow, Cycle
<1>4. CASE ReloadBreaks(w) \/ ReloadFails(w) \/ CopyUnseen(w)
  <2>1. PICK pc \in {"finish", "swap"} :
          /\ cyc[w].pc \in {"copy", "fill", "load", "swap"} /\ UNCHANGED <<oracle, cfg, jobPk, orphan>>
          /\ cyc' = [cyc EXCEPT ![w] = [cyc[w] EXCEPT !.pc = pc, !.pending = {}]]
    <3>1. CASE ReloadBreaks(w)
      BY <3>1, Zenon DEF ReloadBreaks
    <3>2. CASE ReloadFails(w)
      BY <3>2, Zenon DEF ReloadFails
    <3>3. CASE CopyUnseen(w)
      BY <3>3, Zenon DEF CopyUnseen
    <3> QED
      BY <1>4, <3>1, <3>2, <3>3
  <2>2. cyc'[w] = [cyc[w] EXCEPT !.pc = pc, !.pending = {}] /\ \A v \in Workers : v # w => cyc'[v] = cyc[v]
    BY <1>0, <2>1
  <2>3. /\ cyc'[w].pc = pc /\ cyc'[w].base = cyc[w].base /\ cyc'[w].pk = cyc[w].pk
        /\ cyc'[w].wm = cyc[w].wm /\ cyc'[w].wmTime = cyc[w].wmTime
    BY <1>0, <2>2 DEF Cycle
  <2> QED
    BY <2>1, <2>2, <2>3
<1> QED
  BY <1>1, <1>2, <1>3, <1>4 DEF Reload

\* One step of a cycle: what it inserts came from the view, through the index.
LEMMA IndexedWork ==
  ASSUME TypeOK, Indexed, NEW w \in Workers, Work(w)
  PROVE  /\ Indexed' /\ UNCHANGED oracle
         /\ KeysOf(tgt) \subseteq KeysOf(tgt') /\ KeysOf(tgt') \subseteq KeysOf(src)
<1>9. ~Reload(w)
  BY ReloadStep DEF Indexed
<1>8. cyc[w] \in Cycle /\ \A v \in Workers : v # w => cyc'[v] = cyc[v]
  <2>1. cyc \in [Workers -> Cycle]
    BY DEF TypeOK
  <2> QED
    BY <1>9, <2>1 DEF Work, Begin, InitCursor, Pull, InsertPulled, PullDone, PullFails,
         PullUnseen, Advance, Finish, Goto
<1>0. /\ cyc \in [Workers -> Cycle] /\ cyc[w].pc \notin {"copy", "fill", "load", "swap"}
      /\ UNCHANGED <<oracle, jobPk>>
  BY <1>9 DEF TypeOK, Indexed, Work, Begin, InitCursor, Pull, InsertPulled, PullDone, PullFails,
         PullUnseen, Advance, Finish
<1>7. KeysOf(tgt) \subseteq KeysOf(src)
  BY DEF Indexed, KeysOf
<1>1. CASE Begin(w)
  <2>1. /\ cyc'[w].pc \notin {"copy", "fill", "load", "swap"} /\ cyc'[w].pending = {}
    BY <1>0, <1>1 DEF Begin, Indexed, HasUpsertKey
  <2> QED
    BY <1>0, <1>1, <1>7, <1>8, <2>1 DEF Begin, Indexed, staging, oracle
<1>2. CASE InitCursor(w) \/ PullDone(w) \/ Advance(w)
  <2>1. /\ cyc'[w].pc \notin {"copy", "fill", "load", "swap"} /\ cyc'[w].pending = cyc[w].pending
    <3>1. CASE InitCursor(w)
      <4>1. PICK n, t : cyc' = [cyc EXCEPT ![w].pc = "pull", ![w].wm = n, ![w].wmTime = t]
        BY <3>1 DEF InitCursor
      <4> QED
        BY <1>0, <1>8, <4>1 DEF Cycle
    <3>2. CASE Advance(w)
      <4>1. PICK n, t : cyc' = [cyc EXCEPT ![w].pc = "finish", ![w].wm = n, ![w].wmTime = t]
        BY <3>2, Zenon DEF Advance
      <4> QED
        BY <1>0, <1>8, <4>1 DEF Cycle
    <3>3. CASE PullDone(w)
      BY <1>0, <1>8, <3>3 DEF PullDone, Goto, Cycle
    <3> QED
      BY <1>2, <3>1, <3>2, <3>3
  <2>2. UNCHANGED <<staging, cfg, orphan>>
    BY <1>2 DEF InitCursor, PullDone, Advance
  <2> QED
    BY <1>0, <1>7, <1>8, <2>1, <2>2 DEF Indexed, staging, oracle
<1>3. CASE Pull(w)
  <2>0. cyc' = [cyc EXCEPT ![w] = [cyc[w] EXCEPT !.pc = "insert", !.pending = Selected(w)]]
    BY <1>0, <1>3 DEF Pull, Indexed
  <2>1. cyc'[w].pc = "insert" /\ cyc'[w].pending \subseteq src
    BY <1>0, <1>8, <2>0 DEF Selected, Cycle
  <2> QED
    BY <1>0, <1>3, <1>7, <1>8, <2>1 DEF Indexed, Pull, oracle, KeysOf
<1>4. CASE InsertPulled(w)
  <2>1. PICK r \in cyc[w].pending : Insert(r) /\ cyc' = [cyc EXCEPT ![w].pending = @ \ {r}]
    BY <1>4 DEF InsertPulled
  <2>2. /\ cyc'[w].pc = cyc[w].pc /\ cyc'[w].pending \subseteq cyc[w].pending
    BY <1>0, <2>1
  <2>3. /\ r.key \in KeysOf(src) /\ uniq' /\ loaded' /\ ~dup' /\ tgt \subseteq tgt'
        /\ tgt' \subseteq tgt \cup {r} /\ UNCHANGED <<cfg, orphan>>
    BY <1>4, <2>1, InsertAdds DEF Indexed, InsertPulled
  <2> QED
    BY <1>0, <1>7, <1>8, <2>2, <2>3 DEF Indexed, oracle, KeysOf
<1>5. CASE PullFails(w) \/ PullUnseen(w)
  <2>1. /\ cyc'[w].pc \in {"finish", "advance"} /\ cyc'[w].pending = {}
    BY <1>0, <1>5, <1>8 DEF PullFails, PullUnseen, Cycle
  <2>2. orphan' = orphan \cup cyc[w].pending /\ UNCHANGED <<staging, cfg>>
    BY <1>5 DEF PullFails, PullUnseen
  <2> QED
    BY <1>0, <1>7, <1>8, <2>1, <2>2 DEF Indexed, staging, oracle
<1>6. CASE Finish(w)
  <2>1. cyc'[w] = Idle
    BY <1>0, <1>6 DEF Finish
  <2>2. cfg'.marker = cfg.marker /\ UNCHANGED <<staging, orphan>>
    BY <1>6 DEF Finish, TypeOK, Config
  <2> QED
    BY <1>0, <1>7, <1>8, <2>1, <2>2 DEF Indexed, Idle, staging, oracle
<1> QED
  BY <1>1, <1>2, <1>3, <1>4, <1>5, <1>6, <1>9 DEF Work

LEMMA IndexedRest ==
  ASSUME TypeOK, Indexed, InitialLoad \/ Crash \/ Container
  PROVE  /\ Indexed' /\ UNCHANGED oracle
         /\ KeysOf(tgt) \subseteq KeysOf(tgt') /\ KeysOf(tgt') \subseteq KeysOf(src)
<1>1. KeysOf(tgt) \subseteq KeysOf(src)
  BY DEF Indexed, KeysOf
<1>2. ~InitialLoad
  BY DEF Indexed, InitialLoad
<1>3. CASE Crash
  <2>1. \A w \in Workers : cyc'[w] = Idle /\ Idle.pc = "idle" /\ Idle.pending = {}
    BY <1>3 DEF Crash, LoseCycles, Idle
  <2>2. \A q \in orphan' : q.key \in KeysOf(src)
    BY <1>3 DEF Crash, LoseCycles, Indexed, Sent
  <2> QED
    BY <1>1, <1>3, <2>1, <2>2 DEF Crash, LoseCycles, Indexed, oracle
<1>4. CASE OrphanInsert
  <2>1. PICK r \in orphan : Insert(r) /\ orphan' = orphan \ {r}
    BY <1>4 DEF OrphanInsert
  <2>2. /\ r.key \in KeysOf(src) /\ uniq' /\ loaded' /\ ~dup' /\ tgt \subseteq tgt'
        /\ tgt' \subseteq tgt \cup {r}
    BY <2>1, InsertAdds DEF Indexed
  <2> QED
    BY <1>1, <1>4, <2>1, <2>2 DEF Indexed, OrphanInsert, oracle, KeysOf
<1>5. CASE OrphanDies
  BY <1>1, <1>5 DEF OrphanDies, Indexed, staging, oracle
<1>6. CASE StrayLoad \/ StrayDies
  <2>1. UNCHANGED <<oracle, loaded, tgt, uniq, dup, cfg, jobPk, cyc, orphan>>
    BY <1>6 DEF StrayLoad, StrayDies, Load
  <2> QED
    BY <1>1, <2>1 DEF Indexed, oracle
<1> QED
  BY <1>2, <1>3, <1>4, <1>5, <1>6 DEF Container

LEMMA IndexedOracle ==
  ASSUME TypeOK, Indexed, Oracle
  PROVE  Indexed' /\ UNCHANGED tgt
<1>1. UNCHANGED <<staging, cfg, jobPk, cyc, orphan>> /\ KeysOf(src) \subseteq KeysOf(src')
  BY KeysOfSrc
<1> QED
  BY <1>1 DEF Indexed, staging

LEMMA IndexedInit == InitStreaming => Indexed
<1> SUFFICES ASSUME InitStreaming PROVE Indexed
  OBVIOUS
<1>1. HasUpsertKey(cfg.marker, jobPk)
  BY DEF InitStreaming
<1> QED
  BY <1>1 DEF InitStreaming, StartCycles, Idle, Indexed, KeysOf

THEOREM IndexedAlways == Spec => []Indexed
<1>1. TypeOK /\ Indexed /\ [Next]_vars => Indexed'
  <2>1. Indexed /\ UNCHANGED vars => Indexed'
    BY DEF Indexed, vars, oracle, staging, KeysOf
  <2> QED
    BY <2>1, IndexedOracle, IndexedWork, IndexedRest DEF Next
<1> QED
  BY <1>1, IndexedInit, TypeCorrect, PTL DEF Spec

\* From a new configuration row on, a table with a key, or an id for one: what is
\* inserted finds the index, and every <target>_new has one.
HasKey == jobPk \/ cfg.marker = "sequence"

CycleKeyed(c) ==
  /\ HasKey /\ c.pc \in {"copy", "fill", "load", "swap"} => c.pk
  /\ HasKey /\ c.pc = "insert" => uniq
  /\ c.pc \in {"init", "pull", "insert", "advance"} => loaded
  /\ c.pc \in {"init", "pull"} => c.pending = {}

Keyed ==
  /\ HasKey => ~dup
  /\ HasKey /\ temp # None => temp.uniq /\ ~temp.dup
  /\ HasKey /\ orphan # {} => uniq
  /\ orphan # {} => loaded
  /\ \A w \in Workers : CycleKeyed(cyc[w])

\* A row that is loaded into <target>_new goes through its index.
LEMMA LoadKeyed ==
  ASSUME Keyed, TypeOK, NEW r, Load(r)
  PROVE  HasKey => temp'.uniq /\ ~temp'.dup
<1>1. temp \in TempTable /\ temp # None /\ ~(temp.uniq /\ r.key \in KeysOf(temp.rows))
  BY NoneAssumption DEF Load, Blocked, TypeOK
<1>2. temp'.uniq = temp.uniq /\ (temp'.dup <=> temp.dup \/ r.key \in KeysOf(temp.rows))
  BY <1>1 DEF Load, TempTable
<1> QED
  BY <1>1, <1>2 DEF Keyed

\* The tables of a step of worker w that leaves the others their cycles.
LEMMA KeyedStep ==
  ASSUME Keyed, NEW w \in Workers, \A v \in Workers : v # w => cyc'[v] = cyc[v], HasKey' = HasKey,
         CycleKeyed(cyc[w])', HasKey => ~dup', HasKey /\ temp' # None => temp'.uniq /\ ~temp'.dup,
         HasKey /\ orphan' # {} => uniq', orphan' # {} => loaded', loaded => loaded', HasKey /\ uniq => uniq'
  PROVE  Keyed'
<1>1. ASSUME NEW v \in Workers, v # w PROVE CycleKeyed(cyc[v])'
  <2>1. CycleKeyed(cyc[v]) /\ cyc'[v] = cyc[v]
    BY <1>1 DEF Keyed
  <2> QED
    BY <2>1 DEF CycleKeyed
<1> QED
  BY <1>1 DEF Keyed

LEMMA KeyedReload ==
  ASSUME TypeOK, Keyed, NEW w \in Workers, Reload(w)
  PROVE  Keyed'
<1>0. cyc \in [Workers -> Cycle] /\ cyc[w] \in Cycle /\ CycleKeyed(cyc[w])
  BY DEF TypeOK, Keyed
<1>1. /\ cyc[w].pc \in {"copy", "fill", "load", "swap"} /\ UNCHANGED <<cfg, jobPk, orphan>>
      /\ cyc'[w].pc \in {"fill", "load", "swap", "finish"} /\ cyc'[w].pk = cyc[w].pk
      /\ \A v \in Workers : v # w => cyc'[v] = cyc[v]
  BY ReloadStep
<1>2. HasKey' = HasKey /\ CycleKeyed(cyc[w])' /\ (HasKey => cyc[w].pk)
  BY <1>0, <1>1 DEF HasKey, CycleKeyed
<1>3. CASE SwapAll(w)
  BY <1>1, <1>2, <1>3, KeyedStep DEF SwapAll, Keyed
<1>4. ASSUME HasKey /\ temp' # None => temp'.uniq /\ ~temp'.dup, UNCHANGED <<loaded, uniq, dup>>
      PROVE  Keyed'
  BY <1>1, <1>2, <1>4, KeyedStep DEF Keyed
<1>5. CASE CreateTemp(w)
  BY <1>2, <1>4, <1>5 DEF CreateTemp
<1>6. CASE CopyAll(w)
  <2>1. temp'.uniq = temp.uniq /\ temp'.dup = FALSE /\ temp # None
    BY <1>6 DEF CopyAll, TypeOK, TempTable
  <2> QED
    BY <1>4, <1>6, <2>1 DEF CopyAll, Keyed
<1>7. CASE LoadRow(w)
  BY <1>4, <1>7, LoadKeyed DEF LoadRow, Load
<1>8. CASE CopyDone(w)
  BY <1>4, <1>8 DEF CopyDone, staging, Keyed
<1>9. CASE ReloadBreaks(w) \/ ReloadFails(w)
  BY <1>4, <1>9 DEF ReloadBreaks, ReloadFails
<1>10. CASE CopyUnseen(w)
  BY <1>4, <1>10 DEF CopyUnseen, Keyed
<1> QED
  BY <1>3, <1>5, <1>6, <1>7, <1>8, <1>9, <1>10 DEF Reload

LEMMA KeyedWork ==
  ASSUME TypeOK, Keyed, NEW w \in Workers, Work(w)
  PROVE  Keyed'
<1>0. /\ cyc \in [Workers -> Cycle] /\ cyc[w] \in Cycle /\ CycleKeyed(cyc[w])
      /\ jobPk \in BOOLEAN /\ cfg \in Config /\ uniq \in BOOLEAN /\ dup \in BOOLEAN
  BY DEF TypeOK, Keyed
<1>1. CASE Begin(w)
  <2>1. /\ cyc'[w].pc \in {"copy", "finish", "init", "pull"} /\ cyc'[w].pending = {}
        /\ cyc'[w].pc = "copy" => ~HasUpsertKey(cfg.marker, cyc'[w].pk)
        /\ cyc'[w].pc \in {"init", "pull"} => loaded
        /\ cyc'[w].pk = (jobPk \/ cfg.pk) /\ \A v \in Workers : v # w => cyc'[v] = cyc[v]
    BY <1>0, <1>1 DEF Begin
  <2>2. HasKey' = HasKey /\ CycleKeyed(cyc[w])'
    BY <1>1, <2>1 DEF Begin, HasKey, CycleKeyed, HasUpsertKey, staging
  <2> QED
    BY <1>1, <2>1, <2>2, KeyedStep DEF Begin, staging, Keyed
<1>2. CASE InitCursor(w) \/ PullDone(w) \/ Advance(w)
  <2>1. /\ cyc'[w].pc \in {"pull", "advance", "finish"} /\ cyc'[w].pending = cyc[w].pending
        /\ cyc[w].pc \in {"init", "insert", "advance"} /\ (cyc'[w].pc = "pull" => cyc[w].pc = "init")
        /\ \A v \in Workers : v # w => cyc'[v] = cyc[v]
    <3>1. CASE InitCursor(w)
      <4>1. PICK n, t : cyc' = [cyc EXCEPT ![w].pc = "pull", ![w].wm = n, ![w].wmTime = t]
        BY <3>1 DEF InitCursor
      <4> QED
        BY <1>0, <3>1, <4>1 DEF Cycle, InitCursor
    <3>2. CASE Advance(w)
      <4>1. PICK n, t : cyc' = [cyc EXCEPT ![w].pc = "finish", ![w].wm = n, ![w].wmTime = t]
        BY <3>2, Zenon DEF Advance
      <4> QED
        BY <1>0, <3>2, <4>1 DEF Cycle, Advance
    <3>3. CASE PullDone(w)
      BY <1>0, <3>3 DEF PullDone, Goto, Cycle
    <3> QED
      BY <1>2, <3>1, <3>2, <3>3
  <2>2. UNCHANGED <<staging, cfg, jobPk, orphan>>
    BY <1>2 DEF InitCursor, PullDone, Advance
  <2>3. HasKey' = HasKey /\ CycleKeyed(cyc[w])'
    BY <1>0, <2>1, <2>2 DEF HasKey, CycleKeyed, staging
  <2> QED
    BY <2>1, <2>2, <2>3, KeyedStep DEF staging, Keyed
<1>3. CASE Pull(w)
  <2>1. /\ cyc[w].pc = "pull" /\ loaded /\ UNCHANGED <<loaded, dup, temp, cfg, jobPk, orphan>>
        /\ uniq' = (uniq \/ ~dup)
        /\ cyc'[w].pc \in {"insert", "finish"} /\ (cyc'[w].pc = "insert" => ~dup)
        /\ \A v \in Workers : v # w => cyc'[v] = cyc[v]
    BY <1>0, <1>3 DEF Pull, Cycle, CycleKeyed
  <2>2. HasKey' = HasKey /\ CycleKeyed(cyc[w])'
    BY <2>1 DEF HasKey, CycleKeyed
  <2> QED
    BY <2>1, <2>2, KeyedStep DEF Keyed
<1>4. CASE InsertPulled(w)
  <2>1. PICK r \in cyc[w].pending : Insert(r) /\ cyc' = [cyc EXCEPT ![w].pending = @ \ {r}]
    BY <1>4 DEF InsertPulled
  <2>2. /\ cyc'[w].pc = "insert" /\ cyc[w].pc = "insert" /\ loaded
        /\ \A v \in Workers : v # w => cyc'[v] = cyc[v]
    BY <1>0, <1>4, <2>1 DEF Cycle, InsertPulled, CycleKeyed
  <2>3. UNCHANGED <<cfg, jobPk, orphan, loaded, uniq, temp>> /\ (HasKey => uniq /\ ~dup')
    BY <1>0, <1>4, <2>1, <2>2, InsertAdds DEF InsertPulled, Insert, CycleKeyed, Keyed
  <2>4. HasKey' = HasKey /\ CycleKeyed(cyc[w])'
    BY <2>2, <2>3 DEF HasKey, CycleKeyed
  <2> QED
    BY <2>2, <2>3, <2>4, KeyedStep DEF Keyed
<1>5. CASE PullFails(w) \/ PullUnseen(w)
  <2>1. /\ cyc'[w].pc \in {"finish", "advance"} /\ cyc[w].pc \in {"pull", "insert"} /\ cyc'[w].pending = {}
        /\ UNCHANGED <<staging, cfg, jobPk>> /\ orphan' = orphan \cup cyc[w].pending
        /\ \A v \in Workers : v # w => cyc'[v] = cyc[v]
    BY <1>0, <1>5 DEF PullFails, PullUnseen, Cycle
  <2>2. HasKey' = HasKey /\ CycleKeyed(cyc[w])'
    BY <1>0, <2>1 DEF HasKey, CycleKeyed, staging
  <2>3. (HasKey /\ orphan' # {} => uniq') /\ (orphan' # {} => loaded')
    BY <1>0, <2>1 DEF CycleKeyed, Keyed, staging
  <2> QED
    BY <2>1, <2>2, <2>3, KeyedStep DEF staging, Keyed
<1>6. CASE Finish(w)
  <2>1. cfg'.marker = cfg.marker /\ UNCHANGED <<staging, jobPk, orphan>>
    BY <1>0, <1>6 DEF Finish, Config
  <2>2. cyc'[w].pc = "idle" /\ \A v \in Workers : v # w => cyc'[v] = cyc[v]
    BY <1>0, <1>6 DEF Finish, Idle
  <2>3. HasKey' = HasKey /\ CycleKeyed(cyc[w])'
    BY <2>1, <2>2 DEF HasKey, CycleKeyed
  <2> QED
    BY <2>1, <2>2, <2>3, KeyedStep DEF staging, Keyed
<1> QED
  BY <1>1, <1>2, <1>3, <1>4, <1>5, <1>6, KeyedReload DEF Work

LEMMA KeyedRest ==
  ASSUME TypeOK, Keyed, InitialLoad \/ Crash \/ Container \/ Oracle
  PROVE  Keyed'
<1>1. CASE InitialLoad
  <2>1. /\ ~loaded /\ loaded' /\ uniq' = jobPk /\ ~dup' /\ UNCHANGED <<temp, cfg, jobPk, cyc, orphan>>
    BY <1>1 DEF InitialLoad
  <2>2. orphan = {} /\ \A w \in Workers : CycleKeyed(cyc[w]) /\ cyc[w].pc # "insert"
    BY <2>1 DEF Keyed, CycleKeyed
  <2> QED
    BY <2>1, <2>2 DEF Keyed, CycleKeyed, HasKey
<1>2. CASE Crash
  <2>1. /\ UNCHANGED <<loaded, uniq, dup, temp, cfg, jobPk>> /\ orphan' = orphan \cup Sent("insert")
        /\ \A w \in Workers : cyc'[w].pc = "idle"
    BY <1>2 DEF Crash, LoseCycles, Idle
  <2>2. Sent("insert") # {} => loaded /\ (HasKey => uniq)
    BY DEF Sent, Keyed, CycleKeyed
  <2> QED
    BY <2>1, <2>2 DEF Keyed, CycleKeyed, HasKey
<1>3. CASE OrphanInsert
  <2>1. PICK r \in orphan : Insert(r) /\ orphan' = orphan \ {r}
    BY <1>3 DEF OrphanInsert
  <2>2. UNCHANGED <<loaded, uniq, temp, cfg, jobPk, cyc>> /\ (HasKey => ~dup')
    BY <1>3, <2>1, InsertAdds DEF OrphanInsert, Insert, Keyed
  <2> QED
    BY <2>1, <2>2 DEF Keyed, CycleKeyed, HasKey
<1>4. CASE OrphanDies
  BY <1>4 DEF OrphanDies, staging, Keyed, CycleKeyed, HasKey
<1>5. CASE StrayLoad \/ StrayDies
  <2>1. UNCHANGED <<loaded, uniq, dup, cfg, jobPk, cyc, orphan>>
    BY <1>5 DEF StrayLoad, StrayDies, Load
  <2>2. HasKey /\ temp' # None => temp'.uniq /\ ~temp'.dup
    BY <1>5, LoadKeyed DEF StrayLoad, StrayDies, Keyed
  <2> QED
    BY <2>1, <2>2 DEF Keyed, CycleKeyed, HasKey
<1>6. CASE Oracle
  BY <1>6, KeysOfSrc DEF staging, Keyed, CycleKeyed, HasKey
<1> QED
  BY <1>1, <1>2, <1>3, <1>4, <1>5, <1>6 DEF Container

LEMMA KeyedStutters == Keyed /\ UNCHANGED vars => Keyed'
  BY DEF Keyed, CycleKeyed, HasKey, vars, staging

\* "INSERT ... ON CONFLICT DO NOTHING against the target PK (idempotent, never
\* duplicates)": on a table that has a key, or an id for one, no key comes twice, by
\* re-pulled rows, retries or orphaned ora2pg execs, and not by full reloads that meet
\* in one <target>_new either.
THEOREM KeyedNeverDoubled == FreshSpec => []NoDuplicates
<1>1. InitFresh => Keyed
  BY DEF InitFresh, StartCycles, Idle, Keyed, CycleKeyed
<1>2. TypeOK /\ Keyed /\ [Next]_vars => Keyed'
  BY KeyedWork, KeyedRest, KeyedStutters DEF Next
<1>3. Keyed => NoDuplicates
  BY DEF Keyed, HasKey, NoDuplicates
<1> QED
  BY <1>1, <1>2, <1>3, FreshTypeCorrect, PTL DEF FreshSpec

\* From a table that streams on, whose key or id the index is built of, no cycle
\* reloads, and none puts a key into the target twice.
THEOREM NeverDuplicates == Spec => []NoDuplicates
<1>1. Indexed => NoDuplicates
  BY DEF Indexed, NoDuplicates
<1> QED
  BY <1>1, IndexedAlways, PTL

\* Streaming implements Replica: every step either adds keys of the view to the
\* target, shows a new key in the view, or is invisible to a reader.
THEOREM StreamingImplementsReplica == Spec => ReplicaSafety
<1>1. InitStreaming => Target!Init
  <2>1. SUFFICES ASSUME InitStreaming PROVE Target!Init
    OBVIOUS
  <2>2. KeysOf(src) \in SUBSET Keys
    BY <2>1 DEF InitStreaming, StartOracle, KeysOf
  <2> QED
    BY <2>1, <2>2 DEF Target!Init, InitStreaming
<1>2. TypeOK /\ Indexed /\ [Next]_vars => [Target!Next]_(Target!vars)
  <2>1. SUFFICES ASSUME TypeOK, Indexed, [Next]_vars PROVE [Target!Next]_(Target!vars)
    OBVIOUS
  <2>2. CASE Oracle
    <3>1. tgt' = tgt
      BY <2>1, <2>2, IndexedOracle
    <3>2. CASE KeysOf(src') = KeysOf(src)
      BY <3>1, <3>2 DEF Target!vars
    <3>3. CASE \E k \in Keys \ KeysOf(src) : KeysOf(src') = KeysOf(src) \cup {k}
      BY <3>1, <3>3 DEF Target!Next, Target!Appear
    <3> QED
      BY <2>1, <2>2, <3>2, <3>3, KeysOfSrc
  <2>3. ASSUME KeysOf(tgt) \subseteq KeysOf(tgt'), KeysOf(tgt') \subseteq KeysOf(src), UNCHANGED oracle
        PROVE  Target!Copy
    <3>1. PICK S : S = KeysOf(tgt') \ KeysOf(tgt)
      OBVIOUS
    <3>2. S \in SUBSET (KeysOf(src) \ KeysOf(tgt)) /\ KeysOf(tgt') = KeysOf(tgt) \cup S
      BY <2>3, <3>1
    <3> QED
      BY <2>3, <3>2 DEF Target!Copy, oracle
  <2>4. CASE UNCHANGED vars
    BY <2>4 DEF vars, oracle, staging, Target!vars
  <2> QED
    BY <2>1, <2>2, <2>3, <2>4, IndexedWork, IndexedRest DEF Next, Target!Next
<1> QED
  BY <1>1, <1>2, TypeCorrect, IndexedAlways, PTL DEF Spec, ReplicaSafety, Target!Spec

(***************************************************************************)
(* The poll loop alone, with exit codes that arrive: the cursor never      *)
(* passes a row that is not in the target, and never moves backwards.      *)
(* NoMissedRow is not inductive.  Pursuit adds why the cursor may jump to  *)
(* MAX(target) although rows were inserted in any order and appeared       *)
(* meanwhile: once every selected row is inserted, what is still missing   *)
(* appeared after the snapshot, and so is selected from every row that was *)
(* on its way then.                                                        *)
(***************************************************************************)
PollAlone == Callers = {} /\ ExitKnown

Moving == tgt \cup orphan \cup cyc[Loop].pending

\* What the days up to now have been stamped with.
DayStamps == {Julian(d) : d \in 0..now.day}

\* A row was stamped and numbered no later than now.
Stamped(q) ==
  /\ q.seq <= seqGen /\ q.day \in DayStamps
  /\ q.day = Julian(now.day) => q.time <= now.time

\* A cursor in marker m no row appearing from now on can be behind.
ReachedBy(m, d, t) ==
  /\ m = "sequence" => d <= seqGen
  /\ m \in {"day", "timestamp"} => d \in DayStamps \cup {0}
  /\ m = "timestamp" /\ d = Julian(now.day) => TimeOf(t) <= now.time

\* Every row of the view has its key in S, is selected from the cursor, or is
\* stamped in a year before the cursor's.
CoversBy(m, S, d, t) == \A r \in src : r.key \in S \/ Eligible(m, r, d, t) \/ PassedOver(m, r, d)

Reached(d, t) == ReachedBy(cfg.marker, d, t)

Covers(S, d, t) == CoversBy(cfg.marker, S, d, t)

CursorOK(d, t) ==
  /\ d \in Nat /\ t \in NatOrNull
  /\ Reached(d, t) /\ Covers(KeysOf(tgt), d, t)
  /\ \E q \in tgt : WatermarkOf(cfg.marker, q) >= d

Pursuit ==
  /\ cfg.marker \in Markers \ {"none"}
  /\ \A q \in src \cup Moving : Stamped(q)
  /\ CursorOK(cfg.wm, cfg.wmTime)
  /\ cyc[Loop].pc \in {"idle", "pull", "insert", "advance", "finish"}
  /\ cyc[Loop].pc # "insert" => cyc[Loop].pending = {}
  /\ cyc[Loop].pc # "idle" => /\ cyc[Loop].base = cfg /\ cyc[Loop].wm >= cfg.wm
                              /\ CursorOK(cyc[Loop].wm, cyc[Loop].wmTime)
  /\ cyc[Loop].pc \in {"insert", "advance"} =>
       \A q \in Moving :
         WatermarkOf(cfg.marker, q) >= cyc[Loop].wm =>
           Covers(KeysOf(tgt) \cup KeysOf(cyc[Loop].pending), WatermarkOf(cfg.marker, q), q.time)

\* The stamps of the days so far, and how a row that appears now relates to them.
LEMMA StampsTyped ==
  ASSUME now.day \in Nat
  PROVE  \A d \in DayStamps \cup {0} : d \in Nat /\ d <= Julian(now.day)
<1>1. Julian(now.day) \in Nat /\ \A d \in 0..now.day : d \in Nat /\ Julian(d) \in Nat
  BY JulianNat
<1>2. \A d \in 0..now.day : Julian(d) <= Julian(now.day)
  BY <1>1, JulianGrows
<1> QED
  BY <1>1, <1>2 DEF DayStamps

LEMMA TodayStamped ==
  ASSUME now.day \in Nat
  PROVE  Julian(now.day) \in DayStamps /\ Julian(now.day) > 0
<1>1. PICK y \in Nat, d \in Nat : Dated(now.day, y, d)
  BY DayOfYear
<1> QED
  BY <1>1 DEF Dated, DayStamps

LEMMA StampOrder ==
  ASSUME now.day \in Nat, NEW s \in VisibleDays, NEW d \in DayStamps \cup {0}
  PROVE  /\ s \in DayStamps
         /\ Lag = 0 => s = Julian(now.day)
         /\ s >= d - Lag \/ (Lag > 0 /\ Year(s) < Year(d))
<1>0. Lag \in Nat
  BY LagAssumption
<1>1. PICK a \in 0..now.day : s = Julian(a) /\ a >= now.day - Lag
  BY DEF VisibleDays
<1>2. s \in Nat /\ d \in Nat /\ s \in DayStamps
  BY <1>1, JulianNat, StampsTyped DEF DayStamps
<1>3. Lag = 0 => s = Julian(now.day)
  BY <1>1
<1>4. ASSUME ~(s >= d - Lag) PROVE Lag > 0 /\ Year(s) < Year(d)
  <2>1. d # 0 /\ d > s
    BY <1>0, <1>2, <1>4
  <2>2. PICK b \in 0..now.day : d = Julian(b)
    BY <2>1 DEF DayStamps
  <2>3. a < b
    <3>1. CASE a = b
      BY <1>1, <1>2, <2>1, <2>2, <3>1
    <3>2. CASE b < a
      BY <1>1, <1>2, <2>1, <2>2, <3>2, JulianGrows
    <3> QED
      BY <3>1, <3>2
  <2>4. b - a <= Lag /\ Lag > 0
    BY <1>0, <1>1, <2>3
  <2>5. Year(s) <= Year(d) /\ (Year(s) = Year(d) => d - s = b - a)
    BY <1>1, <2>2, <2>3, JulianGrows
  <2>6. Year(s) \in Int /\ Year(d) \in Int
    BY <1>2 DEF Year
  <2> QED
    BY <1>0, <1>2, <1>4, <2>4, <2>5, <2>6
<1> QED
  BY <1>2, <1>3, <1>4

LEMMA StampsGrow ==
  ASSUME now.day \in Nat, now'.day = now.day + 1
  PROVE  DayStamps \subseteq DayStamps' /\ \A d \in DayStamps \cup {0} : d # Julian(now'.day)
<1>1. DayStamps \subseteq DayStamps'
  BY DEF DayStamps
<1>2. Julian(now.day) < Julian(now'.day) /\ Julian(now'.day) \in Nat /\ Julian(now.day) \in Nat
  BY JulianGrows, JulianNat
<1>3. \A d \in DayStamps \cup {0} : d \in Nat /\ d <= Julian(now.day)
  BY StampsTyped
<1> QED
  BY <1>1, <1>2, <1>3

\* A stamped row is a cursor that has been reached.
LEMMA StampedReachedBy ==
  ASSUME TypeOK, NEW m \in MarkerKinds, NEW q \in Row, Stamped(q)
  PROVE  /\ ReachedBy(m, WatermarkOf(m, q), q.time)
         /\ WatermarkOf(m, q) \in Nat /\ q.time \in Nat
  BY NoneAssumption DEF Stamped, ReachedBy, WatermarkOf, TimeOf, Row, MarkerKinds

LEMMA StampedReached ==
  ASSUME TypeOK, NEW q \in Row, Stamped(q)
  PROVE  /\ Reached(WatermarkOf(cfg.marker, q), q.time)
         /\ WatermarkOf(cfg.marker, q) \in Nat /\ q.time \in Nat
<1>1. cfg.marker \in MarkerKinds
  BY DEF TypeOK, Config
<1> QED
  BY <1>1, StampedReachedBy DEF Reached

\* What is stamped now is at or past every day and time that has been reached, or
\* belongs to a year before.
LEMMA AppearsAfter ==
  ASSUME TypeOK, NEW m \in Markers \ {"none"}, m # "sequence",
         NEW d \in Nat, NEW t \in NatOrNull, ReachedBy(m, d, t),
         NEW q, q.day \in VisibleDays, q.time = now.time
  PROVE  Eligible(m, q, d, t) \/ PassedOver(m, q, d)
<1>1. /\ now.day \in Nat /\ now.time \in Nat /\ TimeOf(t) \in Nat
      /\ Lag \in Nat /\ Lookback \in Nat /\ Lag <= Lookback /\ (m = "timestamp" => Lag = 0)
      /\ m \in {"day", "timestamp"}
  BY BoundAssumption, LagAssumption, MarkerAssumption DEF TypeOK, NatOrNull, TimeOf, MarkerKinds
<1>2. d \in DayStamps \cup {0} /\ (m = "timestamp" /\ d = Julian(now.day) => TimeOf(t) <= now.time)
  BY <1>1 DEF ReachedBy
<1>3. /\ d <= Julian(now.day) /\ q.day \in Nat /\ Julian(now.day) \in Nat
      /\ (Lag = 0 => q.day = Julian(now.day))
      /\ q.day >= d - Lag \/ (Lag > 0 /\ Year(q.day) < Year(d))
  BY <1>1, <1>2, StampsTyped, StampOrder, VisibleNat, JulianNat
<1>4. CASE m = "day"
  BY <1>1, <1>3, <1>4 DEF Eligible, WatermarkOf, PassedOver
<1>5. CASE m = "timestamp"
  BY <1>1, <1>2, <1>3, <1>5 DEF Eligible
<1> QED
  BY <1>1, <1>4, <1>5

\* What Oracle does to a cursor: the clock and the ids only grow, a new row and
\* a new stamp are at or past every cursor reached, up to the lookback.
LEMMA OracleKeepsBy ==
  ASSUME TypeOK, Oracle, NEW m \in Markers \ {"none"},
         NEW d \in Nat, NEW t \in NatOrNull, ReachedBy(m, d, t)
  PROVE  ReachedBy(m, d, t)' /\ \A S : CoversBy(m, S, d, t) => CoversBy(m, S, d, t)'
<1>1. /\ seqGen \in Nat /\ now.day \in Nat /\ now.time \in Nat /\ TimeOf(t) \in Nat
      /\ src \subseteq Row
  BY BoundAssumption DEF TypeOK, NatOrNull, TimeOf
<1>2. /\ Lag \in Nat /\ Lookback \in Nat /\ Lag <= Lookback /\ (m = "timestamp" => Lag = 0)
      /\ m \in {"sequence", "day", "timestamp"}
  BY LagAssumption, MarkerAssumption DEF MarkerKinds
<1>3. CASE Tick
  <2>1. /\ seqGen' = seqGen /\ src' = src
        /\ \/ now'.day = now.day /\ now'.time = now.time + 1
           \/ now'.day = now.day + 1
    BY <1>3 DEF Tick, TypeOK
  <2>2. ReachedBy(m, d, t)'
    <3>1. CASE now'.day = now.day /\ now'.time = now.time + 1
      BY <1>1, <2>1, <3>1 DEF ReachedBy, DayStamps
    <3>2. CASE now'.day = now.day + 1
      BY <1>1, <2>1, <3>2, StampsGrow DEF ReachedBy
    <3> QED
      BY <2>1, <3>1, <3>2
  <2> QED
    BY <2>1, <2>2 DEF CoversBy, PassedOver
<1>4. ASSUME NEW k \in Keys, InsertRow(k)
      PROVE  ReachedBy(m, d, t)' /\ \A S : CoversBy(m, S, d, t) => CoversBy(m, S, d, t)'
  <2>1. PICK c \in VisibleDays :
          src' = src \cup {[key |-> k, day |-> c, time |-> now.time, seq |-> seqGen + 1]}
    BY <1>4 DEF InsertRow
  <2> DEFINE q == [key |-> k, day |-> c, time |-> now.time, seq |-> seqGen + 1]
  <2>2. q.day = c /\ q.time = now.time /\ q.seq = seqGen + 1
    OBVIOUS
  <2>3. Eligible(m, q, d, t) \/ PassedOver(m, q, d)
    <3> HIDE DEF q
    <3>1. CASE m = "sequence"
      BY <1>1, <2>2, <3>1 DEF Eligible, ReachedBy
    <3>2. CASE m # "sequence"
      BY <2>1, <2>2, <3>2, AppearsAfter
    <3> QED
      BY <3>1, <3>2
  <2>4. now' = now /\ seqGen' = seqGen + 1
    BY <1>4 DEF InsertRow
  <2>5. ReachedBy(m, d, t)'
    BY <1>1, <2>4 DEF ReachedBy, DayStamps
  <2>6. src' = src \cup {q}
    BY <2>1
  <2> HIDE DEF q
  <2> QED
    BY <2>3, <2>5, <2>6 DEF CoversBy
<1>5. ASSUME NEW r \in src, UpdateRow(r)
      PROVE  ReachedBy(m, d, t)' /\ \A S : CoversBy(m, S, d, t) => CoversBy(m, S, d, t)'
  <2>1. PICK c \in VisibleDays :
          c >= r.day /\ src' = (src \ {r}) \cup {[r EXCEPT !.day = c, !.time = now.time]}
    BY <1>5 DEF UpdateRow
  <2> DEFINE q == [r EXCEPT !.day = c, !.time = now.time]
  <2>2. src' = (src \ {r}) \cup {q}
    BY <2>1
  <2>3. r \in Row /\ q.key = r.key /\ q.day = c /\ q.time = now.time /\ q.seq = r.seq
        /\ r.day \in Nat /\ r.seq \in Nat
    BY <1>1 DEF Row
  <2> HIDE DEF q
  <2>4. Eligible(m, r, d, t) \/ PassedOver(m, r, d) => Eligible(m, q, d, t) \/ PassedOver(m, q, d)
    <3>1. CASE m = "sequence"
      BY <2>3, <3>1 DEF Eligible, PassedOver
    <3>2. CASE m # "sequence"
      BY <2>1, <2>3, <3>2, AppearsAfter
    <3> QED
      BY <3>1, <3>2
  <2>5. now' = now /\ seqGen' = seqGen
    BY <1>5 DEF UpdateRow
  <2>6. ReachedBy(m, d, t)'
    BY <2>5 DEF ReachedBy, DayStamps
  <2> QED
    BY <2>2, <2>3, <2>4, <2>6 DEF CoversBy
<1> QED
  BY <1>3, <1>4, <1>5 DEF Oracle

LEMMA OracleKeeps ==
  ASSUME TypeOK, Oracle, cfg.marker \in Markers \ {"none"},
         NEW d \in Nat, NEW t \in NatOrNull, Reached(d, t)
  PROVE  Reached(d, t)' /\ \A S : Covers(S, d, t) => Covers(S, d, t)'
<1>0. PICK m \in Markers \ {"none"} : m = cfg.marker
  OBVIOUS
<1>1. cfg' = cfg /\ ReachedBy(m, d, t)
  BY <1>0, KeysOfSrc DEF Reached
<1>2. ReachedBy(m, d, t)' /\ \A S : CoversBy(m, S, d, t) => CoversBy(m, S, d, t)'
  BY <1>1, OracleKeepsBy
<1> QED
  BY <1>0, <1>1, <1>2 DEF Reached, Covers

\* A target that grows covers no less.
LEMMA GrowingKeeps ==
  ASSUME NEW d, NEW t, UNCHANGED <<oracle, cfg>>, tgt \subseteq tgt', CursorOK(d, t)
  PROVE  CursorOK(d, t)'
<1>1. KeysOf(tgt) \subseteq KeysOf(tgt')
  BY DEF KeysOf
<1> QED
  BY <1>1 DEF CursorOK, Covers, CoversBy, Reached, ReachedBy, DayStamps, oracle

\* What is stamped stays stamped, and so is what appears.
LEMMA OracleStamps ==
  ASSUME TypeOK, Oracle, \A q \in src : Stamped(q)
  PROVE  (\A q \in src' : Stamped(q)') /\ \A q \in Row : Stamped(q) => Stamped(q)'
<1>1. /\ seqGen \in Nat /\ now.day \in Nat /\ now.time \in Nat /\ src \subseteq Row
      /\ \A d \in VisibleDays : d \in DayStamps
  <2>1. seqGen \in Nat /\ now.day \in Nat /\ now.time \in Nat /\ src \subseteq Row
    BY DEF TypeOK
  <2> QED
    BY <2>1 DEF VisibleDays, DayStamps
<1>2. \A q \in Row : Stamped(q) => Stamped(q)'
  <2>1. CASE now' = [now EXCEPT !.time = @ + 1] /\ seqGen' = seqGen
    <3>1. now'.day = now.day /\ now'.time = now.time + 1
      BY <2>1 DEF TypeOK
    <3> QED
      BY <1>1, <2>1, <3>1 DEF Stamped, Row, DayStamps
  <2>2. CASE now'.day = now.day + 1 /\ seqGen' = seqGen
    BY <1>1, <2>2, StampsGrow DEF Stamped, Row
  <2>3. CASE now' = now /\ seqGen' \in {seqGen, seqGen + 1}
    BY <1>1, <2>3 DEF Stamped, Row, DayStamps
  <2>4. CASE Tick
    <3>1. \/ now' = [now EXCEPT !.time = @ + 1] /\ seqGen' = seqGen
          \/ now'.day = now.day + 1 /\ seqGen' = seqGen
      BY <2>4 DEF Tick
    <3> QED
      BY <2>1, <2>2, <3>1
  <2> QED
    BY <2>3, <2>4 DEF Oracle, InsertRow, UpdateRow
<1>3. \A q \in src' : q \in src \/ Stamped(q)'
  <2>1. CASE Tick
    BY <2>1 DEF Tick
  <2>2. ASSUME NEW k \in Keys, InsertRow(k) PROVE \A q \in src' : q \in src \/ Stamped(q)'
    BY <1>1, <2>2 DEF InsertRow, Stamped, DayStamps
  <2>3. ASSUME NEW r \in src, UpdateRow(r) PROVE \A q \in src' : q \in src \/ Stamped(q)'
    <3>1. r \in Row /\ Stamped(r) /\ now' = now /\ seqGen' = seqGen
      BY <1>1, <2>3 DEF UpdateRow
    <3>2. \A c \in VisibleDays : Stamped([r EXCEPT !.day = c, !.time = now.time])'
      BY <1>1, <3>1 DEF Stamped, Row, DayStamps
    <3> QED
      BY <2>3, <3>2 DEF UpdateRow
  <2> QED
    BY <2>1, <2>2, <2>3 DEF Oracle
<1> QED
  BY <1>1, <1>2, <1>3

LEMMA PursuitOracle ==
  ASSUME TypeOK, Pursuit, Oracle
  PROVE  Pursuit'
<1>1. UNCHANGED <<staging, cfg, jobPk, cyc, orphan, faults>>
  BY KeysOfSrc
<1>2. \A d \in Nat, t \in NatOrNull : CursorOK(d, t) => CursorOK(d, t)'
  BY <1>1, OracleKeeps DEF CursorOK, Pursuit, staging
<1>3. \A q \in src' \cup Moving' : Stamped(q)'
  <2>1. Moving' = Moving /\ Moving \subseteq Row
    <3>1. cyc[Loop].pending \subseteq Row
      BY CyclesOK DEF CycleOK, Cycle, Workers
    <3> QED
      BY <1>1, <3>1 DEF Moving, TypeOK, staging
  <2>2. (\A q \in src' : Stamped(q)') /\ \A q \in Row : Stamped(q) => Stamped(q)'
    BY OracleStamps DEF Pursuit
  <2> QED
    BY <2>1, <2>2 DEF Pursuit
<1>4. cyc[Loop].pc \in {"insert", "advance"} =>
        \A q \in Moving :
          WatermarkOf(cfg.marker, q) >= cyc[Loop].wm =>
            Covers(KeysOf(tgt) \cup KeysOf(cyc[Loop].pending), WatermarkOf(cfg.marker, q), q.time)'
  <2>1. SUFFICES ASSUME cyc[Loop].pc \in {"insert", "advance"}, NEW q \in Moving,
                        WatermarkOf(cfg.marker, q) >= cyc[Loop].wm
                 PROVE  Covers(KeysOf(tgt) \cup KeysOf(cyc[Loop].pending),
                               WatermarkOf(cfg.marker, q), q.time)'
    OBVIOUS
  <2>2. q \in Row
    <3>1. cyc[Loop].pending \subseteq Row
      BY CyclesOK DEF CycleOK, Cycle, Workers
    <3> QED
      BY <3>1 DEF Moving, TypeOK
  <2>3. /\ Reached(WatermarkOf(cfg.marker, q), q.time)
        /\ WatermarkOf(cfg.marker, q) \in Nat /\ q.time \in NatOrNull
    BY <2>2, StampedReached DEF Pursuit, NatOrNull
  <2>4. Covers(KeysOf(tgt) \cup KeysOf(cyc[Loop].pending), WatermarkOf(cfg.marker, q), q.time)
    BY <2>1 DEF Pursuit
  <2>5. \A S : Covers(S, WatermarkOf(cfg.marker, q), q.time)
                 => \A r \in src' : \/ r.key \in S
                                     \/ Eligible(cfg.marker, r, WatermarkOf(cfg.marker, q), q.time)
                                     \/ PassedOver(cfg.marker, r, WatermarkOf(cfg.marker, q))
    BY <1>1, <2>3, OracleKeeps DEF Pursuit, Covers, CoversBy
  <2> QED
    BY <1>1, <2>4, <2>5 DEF Covers, CoversBy, staging, WatermarkOf
<1>5. Moving' = Moving
  BY <1>1 DEF Moving, staging
<1> QED
  BY <1>1, <1>2, <1>3, <1>4, <1>5 DEF Pursuit, CursorOK, staging

\* What is still on its way has a type, and lies between the cursor it came
\* from and the clock.
LEMMA MovingTyped == TypeOK => Moving \subseteq Row /\ cyc[Loop] \in Cycle
  BY CyclesOK DEF CycleOK, Cycle, Workers, Moving, TypeOK

LEMMA PursuitBegin ==
  ASSUME TypeOK, Indexed, Pursuit, Begin(Loop)
  PROVE  Pursuit'
<1>1. cyc \in [Workers -> Cycle] /\ Loop \in Workers
  BY DEF TypeOK, Workers
<1>2. cfg.wm # None /\ loaded /\ HasUpsertKey(cfg.marker, jobPk \/ cfg.pk)
  BY NoneAssumption DEF Pursuit, CursorOK, Indexed, HasUpsertKey
<1>3. /\ cyc'[Loop].pc = "pull" /\ cyc'[Loop].base = cfg /\ cyc'[Loop].pending = {}
      /\ cyc'[Loop].wm = cfg.wm /\ cyc'[Loop].wmTime = cfg.wmTime
  BY <1>1, <1>2 DEF Begin
<1>4. UNCHANGED <<oracle, staging, cfg, orphan>> /\ cyc[Loop].pending = {}
  BY DEF Begin, Pursuit
<1>5. CursorOK(cfg.wm, cfg.wmTime)'
  BY <1>4, GrowingKeeps DEF Pursuit, staging, oracle
<1>6. Moving' = Moving
  BY <1>3, <1>4 DEF Moving, staging
<1>7. cfg.wm >= cfg.wm /\ CursorOK(cyc[Loop].wm, cyc[Loop].wmTime)'
  BY <1>3, <1>4, <1>5 DEF Pursuit, CursorOK
<1> QED
  BY <1>3, <1>4, <1>5, <1>6, <1>7 DEF Pursuit, DayStamps, oracle, Stamped

LEMMA PursuitPull ==
  ASSUME TypeOK, Indexed, Pursuit, Pull(Loop)
  PROVE  Pursuit'
<1>1. cyc \in [Workers -> Cycle] /\ Loop \in Workers /\ cyc[Loop] \in Cycle
  BY DEF TypeOK, Workers
<1>2. /\ cyc'[Loop].pc = "insert" /\ cyc'[Loop].pending = Selected(Loop)
      /\ cyc'[Loop].base = cyc[Loop].base /\ cyc'[Loop].wm = cyc[Loop].wm
      /\ cyc'[Loop].wmTime = cyc[Loop].wmTime
  <2>1. cyc' = [cyc EXCEPT ![Loop] = [cyc[Loop] EXCEPT !.pc = "insert", !.pending = Selected(Loop)]]
    BY <1>1 DEF Pull, Indexed
  <2> QED
    BY <1>1, <2>1 DEF Cycle
<1>3. UNCHANGED <<oracle, tgt, cfg, orphan>> /\ cyc[Loop].pc = "pull"
  BY DEF Pull
<1>4. CursorOK(cfg.wm, cfg.wmTime)' /\ CursorOK(cyc[Loop].wm, cyc[Loop].wmTime)'
  <2>1. \A d, t : CursorOK(d, t) => CursorOK(d, t)'
    BY <1>3, GrowingKeeps
  <2> QED
    BY <1>2, <1>3, <2>1 DEF Pursuit
<1>5. Moving' \subseteq Moving \cup src
  BY <1>2, <1>3 DEF Moving, Selected
\* Selected rows are on their way, the others were in the target before.
<1>6. \A r \in src : \/ r.key \in KeysOf(tgt) \cup KeysOf(cyc'[Loop].pending)
                    \/ PassedOver(cfg.marker, r, cyc[Loop].wm)
  <2>1. SUFFICES ASSUME NEW r \in src, ~Eligible(cfg.marker, r, cyc[Loop].wm, cyc[Loop].wmTime)
                 PROVE  r.key \in KeysOf(tgt) \/ PassedOver(cfg.marker, r, cyc[Loop].wm)
    BY <1>2, <1>3 DEF Selected, KeysOf, Pursuit
  <2> QED
    BY <1>3, <2>1 DEF Pursuit, CursorOK, Covers, CoversBy
<1>9. ASSUME NEW q \in Moving', WatermarkOf(cfg.marker, q) >= cyc[Loop].wm, NEW r \in src,
             PassedOver(cfg.marker, r, cyc[Loop].wm)
      PROVE  PassedOver(cfg.marker, r, WatermarkOf(cfg.marker, q))
  <2>1. q \in Row /\ r \in Row /\ cyc[Loop].wm \in Nat
    BY <1>3, <1>5, MovingTyped DEF Pursuit, CursorOK, TypeOK
  <2>2. WatermarkOf(cfg.marker, q) \in Nat /\ r.day \in Nat
    BY <2>1 DEF Row, WatermarkOf
  <2> QED
    BY <1>9, <2>1, <2>2 DEF PassedOver, Year
<1>7. \A q \in Moving' : WatermarkOf(cfg.marker, q) >= cyc[Loop].wm =>
        Covers(KeysOf(tgt) \cup KeysOf(cyc[Loop].pending), WatermarkOf(cfg.marker, q), q.time)'
  BY <1>3, <1>6, <1>9 DEF Covers, CoversBy, oracle
<1>8. \A q \in src' \cup Moving' : Stamped(q)'
  BY <1>3, <1>5 DEF Pursuit, Stamped, DayStamps, oracle
<1> QED
  BY <1>2, <1>3, <1>4, <1>7, <1>8 DEF Pursuit

LEMMA PursuitInsert ==
  ASSUME TypeOK, Indexed, Pursuit, InsertPulled(Loop)
  PROVE  Pursuit'
<1>1. cyc \in [Workers -> Cycle] /\ Loop \in Workers /\ cyc[Loop] \in Cycle
  BY DEF TypeOK, Workers
<1>2. PICK p \in cyc[Loop].pending : Insert(p) /\ cyc' = [cyc EXCEPT ![Loop].pending = @ \ {p}]
  BY DEF InsertPulled
<1>3. /\ cyc'[Loop].pc = "insert" /\ cyc'[Loop].pending = cyc[Loop].pending \ {p}
      /\ cyc'[Loop].base = cyc[Loop].base /\ cyc'[Loop].wm = cyc[Loop].wm
      /\ cyc'[Loop].wmTime = cyc[Loop].wmTime
  BY <1>1, <1>2 DEF InsertPulled, Cycle
<1>4. UNCHANGED <<oracle, cfg, orphan>> /\ cyc[Loop].pc = "insert"
  BY DEF InsertPulled
<1>5. /\ tgt \subseteq tgt' /\ tgt' \subseteq tgt \cup {p}
      /\ KeysOf(tgt') = KeysOf(tgt) \cup {p.key}
  BY <1>2, InsertAdds DEF Indexed
<1>6. CursorOK(cfg.wm, cfg.wmTime)' /\ CursorOK(cyc[Loop].wm, cyc[Loop].wmTime)'
  <2>1. \A d, t : CursorOK(d, t) => CursorOK(d, t)'
    BY <1>4, <1>5, GrowingKeeps
  <2> QED
    BY <1>3, <1>4, <2>1 DEF Pursuit
<1>7. Moving' \subseteq Moving
  BY <1>2, <1>3, <1>4, <1>5 DEF Moving
<1>8. KeysOf(tgt') \cup KeysOf(cyc'[Loop].pending) = KeysOf(tgt) \cup KeysOf(cyc[Loop].pending)
  BY <1>2, <1>3, <1>5 DEF KeysOf
<1>9. \A q \in Moving' : WatermarkOf(cfg.marker, q) >= cyc[Loop].wm =>
        Covers(KeysOf(tgt) \cup KeysOf(cyc[Loop].pending), WatermarkOf(cfg.marker, q), q.time)'
  BY <1>4, <1>7, <1>8 DEF Pursuit, Covers, CoversBy, oracle
<1>10. \A q \in src' \cup Moving' : Stamped(q)'
  BY <1>4, <1>7 DEF Pursuit, Stamped, DayStamps, oracle
<1> QED
  BY <1>3, <1>4, <1>6, <1>9, <1>10 DEF Pursuit

LEMMA PursuitPullEnds ==
  ASSUME TypeOK, Indexed, Pursuit, PullDone(Loop) \/ PullFails(Loop)
  PROVE  Pursuit'
<1>1. cyc \in [Workers -> Cycle] /\ Loop \in Workers /\ cyc[Loop] \in Cycle
  BY DEF TypeOK, Workers
<1>2. /\ cyc'[Loop].pc \in {"advance", "finish"} /\ cyc'[Loop].pending = {}
      /\ cyc'[Loop].base = cyc[Loop].base /\ cyc'[Loop].wm = cyc[Loop].wm
      /\ cyc'[Loop].wmTime = cyc[Loop].wmTime
      /\ cyc'[Loop].pc = "advance" => cyc[Loop].pc = "insert" /\ cyc[Loop].pending = {}
  <2>1. CASE PullDone(Loop)
    BY <1>1, <2>1 DEF PullDone, Goto, Cycle
  <2>2. CASE PullFails(Loop)
    BY <1>1, <2>2 DEF PullFails, Cycle
  <2> QED
    BY <2>1, <2>2
<1>3. UNCHANGED <<oracle, staging, cfg>> /\ cyc[Loop].pc \in {"pull", "insert"}
  BY DEF PullDone, PullFails
<1>4. Moving' \subseteq Moving
  BY <1>2, <1>3 DEF PullDone, PullFails, Moving, staging
<1>5. CursorOK(cfg.wm, cfg.wmTime)' /\ CursorOK(cyc[Loop].wm, cyc[Loop].wmTime)'
  <2>1. \A d, t : CursorOK(d, t) => CursorOK(d, t)'
    BY <1>3, GrowingKeeps DEF staging
  <2> QED
    BY <1>2, <1>3, <2>1 DEF Pursuit
<1>6. cyc'[Loop].pc = "advance" =>
        \A q \in Moving' : WatermarkOf(cfg.marker, q) >= cyc[Loop].wm =>
          Covers(KeysOf(tgt) \cup KeysOf(cyc[Loop].pending), WatermarkOf(cfg.marker, q), q.time)'
  BY <1>2, <1>3, <1>4 DEF Pursuit, Covers, CoversBy, oracle, staging
<1>7. \A q \in src' \cup Moving' : Stamped(q)'
  BY <1>3, <1>4 DEF Pursuit, Stamped, DayStamps, oracle
<1> QED
  BY <1>2, <1>3, <1>5, <1>6, <1>7 DEF Pursuit

\* The cursor jumps to the MAX of the target: a row nothing missing is behind,
\* and never less than the cursor the pull started from.
LEMMA PursuitAdvance ==
  ASSUME TypeOK, Indexed, Pursuit, Advance(Loop)
  PROVE  Pursuit'
<1>1. cyc \in [Workers -> Cycle] /\ Loop \in Workers /\ cyc[Loop] \in Cycle /\ cyc[Loop].pc = "advance"
  BY DEF TypeOK, Workers, Advance
<1>2. /\ UNCHANGED <<oracle, staging, cfg, orphan>> /\ cyc[Loop].pending = {}
      /\ cyc[Loop].base = cfg
  BY <1>1 DEF Advance, Pursuit
<1>3. PICK top \in TargetMax(cfg.marker) \cup {[d |-> None, t |-> None]} :
        cyc' = [cyc EXCEPT ![Loop].pc = "finish",
                  ![Loop].wm = IF top.d = None THEN @ ELSE top.d,
                  ![Loop].wmTime = IF top.d # None /\ cyc[Loop].base.marker = "timestamp"
                                   THEN top.t ELSE @]
  BY <1>2 DEF Advance
<1> DEFINE d == IF top.d = None THEN cyc[Loop].wm ELSE top.d
           t == IF top.d # None /\ cfg.marker = "timestamp" THEN top.t ELSE cyc[Loop].wmTime
<1>4. /\ cyc'[Loop].pc = "finish" /\ cyc'[Loop].pending = {} /\ cyc'[Loop].base = cfg
      /\ cyc'[Loop].wm = d /\ cyc'[Loop].wmTime = t
  BY <1>1, <1>2, <1>3 DEF Cycle
<1>5. CursorOK(cyc[Loop].wm, cyc[Loop].wmTime) /\ cyc[Loop].wm >= cfg.wm /\ CursorOK(cfg.wm, cfg.wmTime)
  BY <1>1 DEF Pursuit
<1>6. CursorOK(d, t) /\ d >= cfg.wm
  <2>1. CASE top.d = None
    BY <1>5, <2>1
  <2>2. CASE top.d # None
    <3>1. tgt # {} /\ top \in TargetMax(cfg.marker)
      BY <2>2 DEF TargetMax
    <3>2. PICK r \in tgt :
            /\ top = [d |-> WatermarkOf(cfg.marker, r),
                      t |-> IF cfg.marker = "timestamp" THEN r.time ELSE None]
            /\ \A p \in tgt : WatermarkOf(cfg.marker, p) <= WatermarkOf(cfg.marker, r)
      BY <3>1 DEF TargetMax
    <3>3. /\ r \in Row /\ Reached(WatermarkOf(cfg.marker, r), r.time)
          /\ WatermarkOf(cfg.marker, r) \in Nat /\ r.time \in Nat
      BY StampedReached DEF Pursuit, Moving, TypeOK
    <3>9. WatermarkOf(cfg.marker, r) >= cyc[Loop].wm
      <4>1. PICK q \in tgt : WatermarkOf(cfg.marker, q) >= cyc[Loop].wm
        BY <1>5 DEF CursorOK
      <4>2. WatermarkOf(cfg.marker, q) \in Nat /\ cyc[Loop].wm \in Nat
        BY <1>5, StampedReached DEF CursorOK, Pursuit, Moving, TypeOK
      <4> QED
        BY <3>2, <3>3, <4>1, <4>2
    <3>4. Covers(KeysOf(tgt), WatermarkOf(cfg.marker, r), r.time)
      BY <1>1, <1>2, <3>9 DEF Pursuit, Moving, KeysOf
    <3>5. d = WatermarkOf(cfg.marker, r) /\ (cfg.marker = "timestamp" => t = r.time)
      BY <2>2, <3>2
    <3>6. t \in NatOrNull
      BY <1>1, <3>3, <3>2, <2>2 DEF Cycle, NatOrNull
    <3> HIDE DEF d, t
    <3>7. Reached(d, t) /\ Covers(KeysOf(tgt), d, t)
      BY <3>3, <3>4, <3>5 DEF Reached, ReachedBy, Covers, CoversBy, Eligible
    <3>8. d >= cfg.wm
      <4>1. cyc[Loop].wm \in Nat /\ cfg.wm \in Nat
        BY <1>5 DEF CursorOK
      <4> QED
        BY <1>5, <3>3, <3>5, <3>9, <4>1
    <3> QED
      BY <3>3, <3>5, <3>6, <3>7, <3>8 DEF CursorOK
  <2> QED
    BY <2>1, <2>2
<1> HIDE DEF d, t
<1>7. CursorOK(cyc[Loop].wm, cyc[Loop].wmTime)' /\ CursorOK(cfg.wm, cfg.wmTime)'
  <2>1. \A e, u : CursorOK(e, u) => CursorOK(e, u)'
    BY <1>2, GrowingKeeps DEF staging
  <2>2. PICK e, u : e = d /\ u = t
    OBVIOUS
  <2> QED
    BY <1>2, <1>4, <1>5, <1>6, <2>1, <2>2
<1>8. Moving' = Moving
  BY <1>2, <1>4 DEF Moving, staging
<1>9. \A q \in src' \cup Moving' : Stamped(q)'
  BY <1>2, <1>8 DEF Pursuit, Stamped, DayStamps, oracle
<1> QED
  BY <1>2, <1>4, <1>6, <1>7, <1>9 DEF Pursuit

LEMMA PursuitFinish ==
  ASSUME TypeOK, Indexed, Pursuit, Finish(Loop)
  PROVE  Pursuit' /\ cfg'.wm \in Nat /\ cfg'.wm >= cfg.wm
<1>1. cyc \in [Workers -> Cycle] /\ Loop \in Workers /\ cfg \in Config
  BY DEF TypeOK, Workers
<1>2. /\ cyc[Loop].base = cfg /\ cyc[Loop].wm >= cfg.wm
      /\ CursorOK(cyc[Loop].wm, cyc[Loop].wmTime) /\ cyc[Loop].pending = {}
  BY DEF Finish, Pursuit
<1>3. cfg'.wm = cyc[Loop].wm /\ cfg'.wmTime = cyc[Loop].wmTime /\ cfg'.marker = cfg.marker
  BY <1>1, <1>2 DEF Finish, Config
<1>4. UNCHANGED <<oracle, staging, orphan>> /\ cyc'[Loop] = Idle
  BY <1>1 DEF Finish
<1>5. CursorOK(cfg.wm, cfg.wmTime)'
  BY <1>2, <1>3, <1>4 DEF CursorOK, Covers, CoversBy, Reached, ReachedBy, DayStamps, oracle, staging
<1>6. Moving' \subseteq Moving /\ cyc'[Loop].pc = "idle" /\ cyc'[Loop].pending = {}
  BY <1>4 DEF Moving, staging, Idle
<1>7. \A q \in src' \cup Moving' : Stamped(q)'
  BY <1>4, <1>6 DEF Pursuit, Stamped, DayStamps, oracle
<1>8. cfg'.wm \in Nat
  BY <1>5 DEF CursorOK
<1> QED
  BY <1>2, <1>3, <1>5, <1>6, <1>7, <1>8 DEF Pursuit

LEMMA PursuitRest ==
  ASSUME PollAlone, TypeOK, Indexed, Pursuit, InitialLoad \/ Crash \/ Container
  PROVE  Pursuit'
<1>1. /\ UNCHANGED <<oracle, cfg>> /\ tgt \subseteq tgt' /\ Moving' \subseteq Moving
      /\ \/ cyc' = cyc
         \/ cyc'[Loop] = Idle
  <2>1. ~InitialLoad
    BY DEF Indexed, InitialLoad
  <2>2. CASE Crash
    <3>1. Workers = {Loop}
      BY DEF PollAlone, Workers
    <3>2. orphan' \subseteq orphan \cup cyc[Loop].pending /\ cyc'[Loop] = Idle
      BY <2>2, <3>1 DEF Crash, LoseCycles, Sent
    <3> QED
      BY <2>2, <3>2 DEF Crash, LoseCycles, Moving, Idle
  <2>3. CASE OrphanInsert
    <3>1. PICK r \in orphan : Insert(r) /\ orphan' = orphan \ {r}
      BY <2>3 DEF OrphanInsert
    <3>2. tgt \subseteq tgt' /\ tgt' \subseteq tgt \cup {r}
      BY <3>1, InsertAdds DEF Indexed
    <3> QED
      BY <2>3, <3>1, <3>2 DEF OrphanInsert, Moving
  <2>4. CASE OrphanDies
    BY <2>4 DEF OrphanDies, Moving, staging
  <2>5. CASE StrayLoad \/ StrayDies
    BY <2>5 DEF StrayLoad, StrayDies, Load, Moving
  <2> QED
    BY <2>1, <2>2, <2>3, <2>4, <2>5 DEF Container
<1>2. CursorOK(cfg.wm, cfg.wmTime)'
      /\ (cyc' = cyc /\ cyc[Loop].pc # "idle" => CursorOK(cyc[Loop].wm, cyc[Loop].wmTime)')
  <2>1. \A d, t : CursorOK(d, t) => CursorOK(d, t)'
    BY <1>1, GrowingKeeps
  <2> QED
    BY <1>1, <2>1 DEF Pursuit
<1>3. \A q \in src' \cup Moving' : Stamped(q)'
  BY <1>1 DEF Pursuit, Stamped, DayStamps, oracle
<1>4. CASE cyc'[Loop] = Idle
  BY <1>1, <1>2, <1>3, <1>4 DEF Pursuit, Idle
<1>5. CASE cyc' = cyc
  <2>1. KeysOf(tgt) \subseteq KeysOf(tgt')
    BY <1>1 DEF KeysOf
  <2>2. cyc[Loop].pc \in {"insert", "advance"} =>
          \A q \in Moving' : WatermarkOf(cfg.marker, q) >= cyc[Loop].wm =>
            Covers(KeysOf(tgt) \cup KeysOf(cyc[Loop].pending), WatermarkOf(cfg.marker, q), q.time)'
    BY <1>1, <1>5, <2>1 DEF Pursuit, Covers, CoversBy, oracle
  <2> QED
    BY <1>1, <1>2, <1>3, <1>5, <2>2 DEF Pursuit
<1> QED
  BY <1>1, <1>4, <1>5

LEMMA PursuitStep ==
  ASSUME PollAlone, TypeOK, Indexed, Pursuit, [Next]_vars
  PROVE  Pursuit' /\ cfg'.wm >= cfg.wm
<1>0. cfg.wm \in Nat
  BY DEF Pursuit, CursorOK
<1>1. CASE UNCHANGED vars
  <2>1. UNCHANGED <<oracle, staging, cfg, cyc, orphan>>
    BY <1>1 DEF vars
  <2>2. Moving' = Moving
    BY <2>1 DEF Moving, staging
  <2> QED
    BY <1>0, <2>1, <2>2 DEF Pursuit, CursorOK, Covers, CoversBy, Reached, ReachedBy, Stamped, DayStamps, oracle, staging, KeysOf
<1>2. CASE Oracle
  BY <1>0, <1>2, PursuitOracle, KeysOfSrc
<1>3. ASSUME NEW w \in Workers, Work(w) PROVE Pursuit' /\ cfg'.wm >= cfg.wm
  <2>1. w = Loop
    BY DEF PollAlone, Workers
  <2>2. ~InitCursor(w) /\ ~PullUnseen(w) /\ ~Reload(w)
    BY <2>1, ReloadStep DEF PollAlone, Pursuit, Indexed, InitCursor, PullUnseen
  <2>3. CASE Finish(w)
    BY <2>1, <2>3, PursuitFinish
  <2>4. CASE ~Finish(w)
    <3>1. cfg' = cfg
      BY <1>3, <2>2, <2>4 DEF Work, Begin, Pull, InsertPulled, PullDone, PullFails, Advance
    <3>2. Pursuit'
      BY <1>3, <2>1, <2>2, <2>4, PursuitBegin, PursuitPull, PursuitInsert, PursuitPullEnds,
         PursuitAdvance DEF Work
    <3> QED
      BY <1>0, <3>1, <3>2
  <2> QED
    BY <2>3, <2>4
<1>4. CASE InitialLoad \/ Crash \/ Container
  <2>1. cfg' = cfg
    BY <1>4 DEF InitialLoad, Crash, LoseCycles, Container, OrphanInsert, OrphanDies, StrayLoad, StrayDies
  <2> QED
    BY <1>0, <1>4, <2>1, PursuitRest
<1> QED
  BY <1>1, <1>2, <1>3, <1>4 DEF Next

LEMMA PursuitInit == InitStreaming => Pursuit
<1> SUFFICES ASSUME InitStreaming PROVE Pursuit
  OBVIOUS
<1>1. PICK t \in 0..MaxTime, k \in Keys :
        /\ now = [day |-> 0, time |-> t]
        /\ src = {[key |-> k, day |-> Julian(0), time |-> t, seq |-> 1]}
  BY DEF InitStreaming, StartOracle
<1>2. PICK r : r = [key |-> k, day |-> Julian(0), time |-> t, seq |-> 1]
  OBVIOUS
<1>3. /\ src = {r} /\ tgt = {r} /\ seqGen = 1 /\ t \in Nat
      /\ r.key = k /\ r.day = Julian(0) /\ r.time = t /\ r.seq = 1
  BY <1>1, <1>2, BoundAssumption DEF InitStreaming, StartOracle
<1>4. cyc[Loop] = Idle /\ orphan = {} /\ Idle.pc = "idle" /\ Idle.pending = {}
  BY DEF InitStreaming, StartCycles, Workers, Idle
<1>5. \A q \in src \cup Moving : Stamped(q)
  <2>1. now.day = 0 /\ r.day \in DayStamps /\ r.time <= now.time
    BY <1>1, <1>3, TodayStamped
  <2> QED
    BY <1>3, <1>4, <2>1 DEF Moving, Stamped
<1>6. PICK m \in Markers, copied \in {jobPk, FALSE} :
        /\ HasUpsertKey(m, jobPk)
        /\ \E top \in TargetMax(m) :
             cfg = [enabled |-> TRUE, marker |-> m, pk |-> copied, wm |-> top.d, wmTime |-> top.t]
  BY DEF InitStreaming
<1>7. /\ cfg.marker = m /\ cfg.wm = WatermarkOf(m, r) /\ m # "none"
      /\ cfg.wmTime = IF m = "timestamp" THEN t ELSE None
  BY <1>3, <1>6 DEF TargetMax, HasUpsertKey
<1>8. CursorOK(cfg.wm, cfg.wmTime)
  <2>1. cfg.wm \in Nat /\ cfg.wmTime \in NatOrNull /\ WatermarkOf(m, r) >= cfg.wm
    BY <1>3, <1>7, JulianNat DEF WatermarkOf, NatOrNull
  <2>2. Reached(cfg.wm, cfg.wmTime)
    <3>1. now.day = 0 /\ r.day \in DayStamps /\ now.time = t
      BY <1>1, <1>3, TodayStamped
    <3> QED
      BY <1>3, <1>7, <3>1, NoneAssumption DEF Reached, ReachedBy, WatermarkOf, TimeOf
  <2> QED
    BY <1>3, <1>7, <2>1, <2>2 DEF CursorOK, Covers, CoversBy, KeysOf
<1> QED
  BY <1>4, <1>5, <1>7, <1>8 DEF Pursuit

THEOREM PursuitAlways ==
  ASSUME PollAlone
  PROVE  Spec => []Pursuit
<1>1. TypeOK /\ Indexed /\ Pursuit /\ [Next]_vars => Pursuit'
  BY PursuitStep
<1> QED
  BY <1>1, PursuitInit, TypeCorrect, IndexedAlways, PTL DEF Spec

\* What the committed cursor has passed is in the target: rows inserted in any
\* order, stamped late within the lookback, re-stamped while a pull runs, pulls
\* that fail half way, restarts, and execs that go on after both lose no row.
THEOREM NoRowIsMissed ==
  ASSUME PollAlone
  PROVE  Spec => []NoMissedRow
<1>1. Pursuit => NoMissedRow
  BY DEF Pursuit, CursorOK, Covers, CoversBy, NoMissedRow
<1> QED
  BY <1>1, PursuitAlways, PTL

\* run_cycle only ever replaces the cursor by the MAX of a target that grows.
THEOREM CursorOnlyAdvances ==
  ASSUME PollAlone
  PROVE  Spec => CursorNeverRegresses
<1>1. TypeOK /\ Indexed /\ Pursuit /\ [Next]_vars
        => [cfg.wm # None /\ cfg'.wm # None => cfg'.wm >= cfg.wm]_vars
  BY PursuitStep
<1> QED
  BY <1>1, PursuitAlways, TypeCorrect, IndexedAlways, PTL DEF Spec, CursorNeverRegresses

(***************************************************************************)
(* The edits of a streaming table beside its cycles (StreamingConfig), for *)
(* every set of keys, request threads and columns.  Types always hold; the *)
(* rest holds when edits are made one at a time on a disabled table        *)
(* (Careful), and section 4 of the README shows that they need it.         *)
(***************************************************************************)
AdminTypes ==
  /\ put \in [pc : {"idle", "fields", "reset"}, base : Config \cup {None},
              marker : MarkerKinds, enabled : BOOLEAN, reset : BOOLEAN]
  /\ put.pc # "idle" => put.base \in Config
  /\ scan \in [pc : {"idle", "found", "read"}, jobPk : BOOLEAN, cfgPk : BOOLEAN, source : Sources]
  /\ pkSource \in Sources /\ cleared \in BOOLEAN

\* AdminTypeOK, and a PUT that goes on holds the row it loaded.
EditInv == TypeOK /\ AdminTypes

(***************************************************************************)
(* Types.                                                                  *)
(***************************************************************************)
LEMMA IdleTypes ==
  /\ NoPut \in [pc : {"idle", "fields", "reset"}, base : Config \cup {None},
                marker : MarkerKinds, enabled : BOOLEAN, reset : BOOLEAN]
  /\ NoPut.pc = "idle"
  /\ NoScan \in [pc : {"idle", "found", "read"}, jobPk : BOOLEAN, cfgPk : BOOLEAN, source : Sources]
  /\ NoScan.pc = "idle"
  BY DEF NoPut, NoScan, MarkerKinds, Sources

\* An edit of the configuration row, the key or the index keeps TypeOK if what it
\* writes has its type.
LEMMA EditTypes ==
  ASSUME TypeOK, cfg' \in Config, jobPk' \in BOOLEAN, uniq' \in BOOLEAN,
         UNCHANGED <<oracle, loaded, tgt, dup, temp, stray, cyc, orphan, faults>>
  PROVE  TypeOK'
  BY DEF TypeOK, oracle

\* What the administrators' operations do not touch is typed when it was.
LEMMA SameAdmin == AdminTypes /\ UNCHANGED admin => AdminTypes'
  BY DEF AdminTypes, admin

LEMMA PutTypes ==
  ASSUME EditInv, (\E m \in Markers, e \in BOOLEAN : PutRead(m, e)) \/ PutFields \/ PutReset
  PROVE  EditInv'
<1>0. cfg \in Config /\ jobPk \in BOOLEAN /\ uniq \in BOOLEAN
  BY DEF EditInv, TypeOK
<1>1. ASSUME NEW m \in Markers, NEW e \in BOOLEAN, PutRead(m, e) PROVE EditInv'
  <2>1. m \in MarkerKinds /\ MarkerChanged(cfg.marker, m) \in BOOLEAN
    BY MarkerAssumption DEF MarkerChanged
  <2>2. TypeOK'
    BY <1>0, <1>1, EditTypes DEF PutRead, EditInv, vars, staging
  <2>3. /\ put' \in [pc : {"idle", "fields", "reset"}, base : Config \cup {None},
                     marker : MarkerKinds, enabled : BOOLEAN, reset : BOOLEAN]
        /\ put'.base \in Config
    BY <1>0, <1>1, <2>1 DEF PutRead
  <2> QED
    BY <1>1, <2>2, <2>3 DEF PutRead, EditInv, AdminTypes
<1>2. CASE PutFields
  <2>1. cfg' \in Config
    BY <1>0, <1>2 DEF PutFields, EditInv, AdminTypes, Config
  <2>2. TypeOK'
    BY <1>0, <1>2, <2>1, EditTypes DEF PutFields, EditInv, staging
  <2>3. CASE put.reset
    BY <1>2, <2>1, <2>2, <2>3 DEF PutFields, EditInv, AdminTypes
  <2>4. CASE ~put.reset
    BY <1>2, <2>1, <2>2, <2>4, IdleTypes DEF PutFields, EditInv, AdminTypes
  <2> QED
    BY <2>3, <2>4
<1>3. CASE PutReset
  <2>1. cfg' \in Config
    BY <1>0, <1>3 DEF PutReset, Config, NatOrNull
  <2>2. TypeOK'
    BY <1>0, <1>3, <2>1, EditTypes DEF PutReset, EditInv, staging
  <2> QED
    BY <1>3, <2>1, <2>2, IdleTypes DEF PutReset, EditInv, AdminTypes
<1> QED
  BY <1>1, <1>2, <1>3

LEMMA KeyTypes ==
  ASSUME EditInv, SetPk \/ ClearPk \/ Discover \/ ScanRead \/ ScanCommit
  PROVE  EditInv'
<1>0. cfg \in Config /\ jobPk \in BOOLEAN /\ uniq \in BOOLEAN
  BY DEF EditInv, TypeOK
<1>1. CASE SetPk
  <2>1. cfg' \in Config /\ jobPk' \in BOOLEAN /\ uniq' \in BOOLEAN
    BY <1>0, <1>1 DEF SetPk, RebuildIndex, Config
  <2>2. TypeOK'
    BY <1>1, <2>1, EditTypes DEF SetPk, EditInv
  <2> QED
    BY <1>1, <2>2 DEF SetPk, EditInv, AdminTypes, Sources
<1>2. CASE ClearPk
  <2>1. cfg' \in Config /\ jobPk' \in BOOLEAN /\ uniq' \in BOOLEAN
    BY <1>0, <1>2 DEF ClearPk, Config
  <2>2. TypeOK'
    BY <1>2, <2>1, EditTypes DEF ClearPk, EditInv
  <2> QED
    BY <1>2, <2>2 DEF ClearPk, EditInv, AdminTypes, Sources
<1>3. CASE Discover
  <2>1. TypeOK'
    BY <1>0, <1>3, EditTypes DEF Discover, EditInv, vars, staging
  <2> QED
    BY <1>3, <2>1 DEF Discover, NoScan, EditInv, AdminTypes, Sources
<1>4. CASE ScanRead
  <2>1. TypeOK'
    BY <1>0, <1>4, EditTypes DEF ScanRead, EditInv, vars, staging
  <2>2. scan' \in [pc : {"idle", "found", "read"}, jobPk : BOOLEAN, cfgPk : BOOLEAN, source : Sources]
    <3>1. CASE pkSource = "manual"
      BY <1>4, <3>1, IdleTypes DEF ScanRead
    <3>2. CASE pkSource # "manual"
      BY <1>0, <1>4, <3>2 DEF ScanRead, EditInv, AdminTypes, Config
    <3> QED
      BY <3>1, <3>2
  <2> QED
    BY <1>4, <2>1, <2>2 DEF ScanRead, EditInv, AdminTypes
<1>5. CASE ScanCommit
  <2>1. cfg' \in Config /\ jobPk' \in BOOLEAN
    BY <1>0, <1>5 DEF ScanCommit, EditInv, AdminTypes, Config
  <2>2. TypeOK'
    BY <1>0, <1>5, <2>1, EditTypes DEF ScanCommit, EditInv, staging
  <2> QED
    BY <1>5, <2>2, IdleTypes DEF ScanCommit, EditInv, AdminTypes, Sources
<1> QED
  BY <1>1, <1>2, <1>3, <1>4, <1>5

LEMMA RestartTypes == ASSUME EditInv, Restart PROVE EditInv'
<1>1. CycleOK(Idle) /\ Idle.pc = "idle"
  BY DEF CycleOK, Cycle, Idle, NatOrNull
<1>3. orphan' \in SUBSET Row /\ stray' \in SUBSET Row /\ faults' \in 0..MaxFaults
  BY SentType, FaultType DEF Restart, LoseCycles, EditInv, TypeOK
<1>4. jobPk' \in BOOLEAN /\ pkSource' \in Sources
  BY DEF Restart, Seed, EditInv, TypeOK, AdminTypes, Sources
<1>5. /\ cyc' \in [Workers -> Cycle]
      /\ \A w \in Workers : cyc'[w].pc = "idle"
  BY <1>1 DEF Restart, LoseCycles, CycleOK
<1>6. TypeOK'
  BY <1>3, <1>4, <1>5 DEF Restart, LoseCycles, EditInv, TypeOK, oracle
<1> QED
  BY <1>4, <1>6, IdleTypes DEF Restart, EditInv, AdminTypes

LEMMA CyclesTypes == ASSUME EditInv, Cycles PROVE EditInv'
<1>1. TypeOK'
  BY OracleType, WorkType, RestType DEF Cycles, EditInv
<1> QED
  BY <1>1, SameAdmin DEF Cycles, EditInv

LEMMA EditInvKeeps == EditInv /\ [AdminNext]_allVars => EditInv'
<1>1. ASSUME EditInv, UNCHANGED allVars PROVE EditInv'
  <2>1. TypeOK'
    BY <1>1 DEF EditInv, TypeOK, allVars, vars, oracle, staging
  <2> QED
    BY <1>1, <2>1, SameAdmin DEF EditInv, allVars
<1> QED
  BY <1>1, PutTypes, KeyTypes, RestartTypes, CyclesTypes DEF AdminNext, Edit

LEMMA EditInvBegins == AdminInit => EditInv
<1> SUFFICES ASSUME AdminInit PROVE EditInv
  OBVIOUS
<1>1. PICK m \in Markers, copied \in {jobPk, FALSE} : \E top \in TargetMax(m) :
        cfg = [enabled |-> TRUE, marker |-> m, pk |-> copied, wm |-> top.d, wmTime |-> top.t]
  BY DEF AdminInit, InitStreaming
<1>2. PICK top \in TargetMax(m) :
        cfg = [enabled |-> TRUE, marker |-> m, pk |-> copied, wm |-> top.d, wmTime |-> top.t]
  BY <1>1
<1>3. src \in SUBSET Row
  BY BoundAssumption, JulianNat DEF AdminInit, InitStreaming, StartOracle, Row
<1>4. top.d \in NatOrNull /\ top.t \in NatOrNull
  BY <1>3, TargetMaxType DEF AdminInit, InitStreaming
<1>5. cfg \in Config
  BY <1>2, <1>4, MarkerAssumption DEF AdminInit, InitStreaming, Config
<1>6. TypeOK
  BY <1>5, TypeInit DEF AdminInit, InitStreaming
<1> QED
  BY <1>6, IdleTypes DEF AdminInit, EditInv, AdminTypes, Sources

\* Whatever edits, cycles and restarts come together, every reachable state is
\* well typed: a cycle that pulls has a cursor, also when a PUT drops it meanwhile.
THEOREM EditsTypeCorrect == AdminSpec => []AdminTypeOK
<1>1. EditInv => AdminTypeOK
  BY DEF EditInv, AdminTypes, AdminTypeOK
<1> QED
  BY <1>1, EditInvBegins, EditInvKeeps, PTL DEF AdminSpec

(***************************************************************************)
(* Keys, when edits are careful.                                           *)
(***************************************************************************)
\* A scan that has read the job has not read a manual key, and none was set since.
ScanIsStale == scan.pc = "read" => pkSource # "manual"

\* A cycle or a cursor's row moves neither the job's key source nor a scan.
LEMMA CyclesKeepSource == Cycles => UNCHANGED <<put, scan, pkSource, cleared>>
  BY DEF Cycles, admin

LEMMA CarefulEdit == ASSUME Careful, MayEdit PROVE scan.pc = "idle" /\ \A w \in Workers : cyc[w].pc = "idle"
  BY DEF MayEdit, Quiet, Editing

LEMMA ScanStays == ASSUME Careful, ScanIsStale, [AdminNext]_allVars PROVE ScanIsStale'
<1>1. CASE UNCHANGED allVars \/ Cycles
  BY <1>1, CyclesKeepSource DEF allVars, admin, ScanIsStale
<1>2. CASE Restart
  BY <1>2, IdleTypes DEF Restart, ScanIsStale
<1>3. CASE (\E m \in Markers, e \in BOOLEAN : PutRead(m, e)) \/ PutFields \/ PutReset
  BY <1>3 DEF PutRead, PutFields, PutReset, ScanIsStale
<1>4. CASE SetPk
  BY <1>4, CarefulEdit DEF SetPk, ScanIsStale
<1>5. CASE ClearPk
  BY <1>5 DEF ClearPk, ScanIsStale
<1>6. CASE Discover
  BY <1>6 DEF Discover, NoScan, ScanIsStale
<1>7. CASE ScanRead
  BY <1>7, IdleTypes DEF ScanRead, ScanIsStale
<1>8. CASE ScanCommit
  BY <1>8, IdleTypes DEF ScanCommit, ScanIsStale
<1> QED
  BY <1>1, <1>2, <1>3, <1>4, <1>5, <1>6, <1>7, <1>8 DEF AdminNext, Edit

\* When edits are careful a key set by hand is replaced by none but its operator:
\* neither by a scan that read the job before, nor by the seed of a restart.
THEOREM ManualKeyHolds == ASSUME Careful PROVE AdminSpec => ManualKeyStays
<1>1. AdminInit => ScanIsStale
  BY IdleTypes DEF AdminInit, ScanIsStale
<1>2. ScanIsStale /\ [AdminNext]_allVars => ScanIsStale'
  BY ScanStays
<1>3. ScanIsStale /\ [AdminNext]_allVars => [pkSource = "manual" => pkSource' = "manual" \/ cleared']_allVars
  <2> SUFFICES ASSUME ScanIsStale, AdminNext, pkSource = "manual"
               PROVE  pkSource' = "manual" \/ cleared'
    BY DEF allVars, admin
  <2>1. CASE Cycles
    BY <2>1, CyclesKeepSource
  <2>2. CASE Restart
    BY <2>2 DEF Restart, Seed
  <2>3. CASE Edit
    BY <2>3 DEF Edit, PutRead, PutFields, PutReset, SetPk, ClearPk, Discover, ScanRead, ScanCommit, ScanIsStale
  <2> QED
    BY <2>1, <2>2, <2>3 DEF AdminNext
<1> QED
  BY <1>1, <1>2, <1>3, PTL DEF AdminSpec, ManualKeyStays

\* A cleared key is neither on the job nor on the configuration, and no cycle has
\* a copy of it that it would write back.
KeyIsGone ==
  cleared => ~jobPk /\ ~cfg.pk /\ \A w \in Workers : cyc[w].pc # "idle" => ~cyc[w].pk

\* A step of a cycle does not bring a key back: it copies what it finds.
LEMMA WorkKeepsGone ==
  ASSUME EditInv, KeyIsGone, cleared, NEW w \in Workers, Work(w), UNCHANGED admin
  PROVE  KeyIsGone'
<1>1. cfg \in Config /\ cyc \in [Workers -> Cycle] /\ ~jobPk /\ ~cfg.pk /\ cleared'
  BY DEF EditInv, TypeOK, KeyIsGone, admin
<1>2. \A v \in Workers : cyc[v].pc # "idle" => ~cyc[v].pk
  BY DEF KeyIsGone
<1>3. UNCHANGED jobPk
  BY ReloadStep DEF EditInv, Work, Begin, InitCursor, Pull, InsertPulled, PullDone, PullFails, PullUnseen, Advance, Finish
<1>4. CASE Begin(w)
  <2>1. cyc'[w].pk = (jobPk \/ cfg.pk) /\ \A v \in Workers : v # w => cyc'[v] = cyc[v]
    BY <1>1, <1>4 DEF Begin
  <2>2. UNCHANGED cfg /\ ~cyc'[w].pk
    BY <1>1, <1>4, <2>1 DEF Begin
  <2> QED
    BY <1>1, <1>2, <1>3, <2>1, <2>2 DEF KeyIsGone
<1>5. CASE Finish(w)
  <2>1. cfg'.pk = (cfg.pk \/ (cyc[w].pk /\ ~cyc[w].base.pk))
    BY <1>1, <1>5 DEF Finish, Config
  <2>2. cyc[w].pc = "finish" /\ \A v \in Workers : cyc'[v] = IF v = w THEN Idle ELSE cyc[v]
    BY <1>1, <1>5 DEF Finish
  <2>3. Idle.pc = "idle"
    BY DEF Idle
  <2> QED
    BY <1>1, <1>2, <1>3, <2>1, <2>2, <2>3 DEF KeyIsGone
<1>6. CASE ~Begin(w) /\ ~Finish(w)
  <2>1. UNCHANGED cfg
    BY <1>6, ReloadStep DEF EditInv, Work, InitCursor, Pull, InsertPulled, PullDone, PullFails, PullUnseen, Advance
  <2>2. cyc[w].pc # "idle"
    BY <1>6, ReloadStep DEF EditInv, Work, InitCursor, Pull, InsertPulled, PullDone, PullFails, PullUnseen, Advance
  <2>3. cyc'[w].pk = cyc[w].pk /\ \A v \in Workers : v # w => cyc'[v] = cyc[v]
    <3>1. CASE InitCursor(w)
      BY <1>1, <3>1 DEF InitCursor, Cycle
    <3>2. CASE Pull(w)
      BY <1>1, <3>2 DEF Pull, Cycle
    <3>3. CASE InsertPulled(w)
      BY <1>1, <3>3 DEF InsertPulled, Cycle
    <3>4. CASE PullDone(w)
      BY <1>1, <3>4 DEF PullDone, Goto, Cycle
    <3>5. CASE PullFails(w) \/ PullUnseen(w)
      BY <1>1, <3>5 DEF PullFails, PullUnseen, Cycle
    <3>6. CASE Advance(w)
      BY <1>1, <3>6 DEF Advance, Cycle
    <3>7. CASE Reload(w)
      BY <3>7, ReloadStep DEF EditInv
    <3> QED
      BY <1>6, <3>1, <3>2, <3>3, <3>4, <3>5, <3>6, <3>7 DEF Work
  <2> QED
    BY <1>1, <1>2, <1>3, <2>1, <2>2, <2>3 DEF KeyIsGone
<1> QED
  BY <1>4, <1>5, <1>6

LEMMA GoneStays ==
  ASSUME Careful, InReference = FALSE, EditInv, KeyIsGone, [AdminNext]_allVars
  PROVE  KeyIsGone'
<1>0. cfg \in Config
  BY DEF EditInv, TypeOK
<1>1. CASE UNCHANGED allVars
  BY <1>1 DEF allVars, vars, admin, KeyIsGone
<1>2. CASE Cycles
  <2>1. CASE cleared
    <3>1. CASE \E w \in Workers : Work(w)
      BY <1>2, <2>1, <3>1, WorkKeepsGone DEF Cycles
    <3>2. CASE Oracle \/ Container
      BY <1>2, <3>2 DEF Cycles, Oracle, Tick, InsertRow, UpdateRow, Container, OrphanInsert, OrphanDies,
                        StrayLoad, StrayDies, admin, KeyIsGone
    <3> QED
      BY <1>2, <3>1, <3>2 DEF Cycles
  <2>2. CASE ~cleared
    BY <1>2, <2>2 DEF Cycles, admin, KeyIsGone
  <2> QED
    BY <2>1, <2>2
<1>3. CASE Restart
  <2>1. UNCHANGED <<jobPk, cfg, cleared>> /\ \A w \in Workers : cyc'[w] = Idle
    BY <1>3 DEF Restart, LoseCycles, Seed
  <2> QED
    BY <2>1 DEF KeyIsGone, Idle
<1>4. CASE \E m \in Markers, e \in BOOLEAN : PutRead(m, e)
  BY <1>4 DEF PutRead, vars, KeyIsGone
<1>5. CASE PutFields
  <2>1. cfg'.pk = cfg.pk
    BY <1>0, <1>5 DEF PutFields, Config
  <2> QED
    BY <1>5, <2>1 DEF PutFields, KeyIsGone
<1>6. CASE PutReset
  <2>1. cfg'.pk = cfg.pk
    BY <1>0, <1>6 DEF PutReset, Config
  <2> QED
    BY <1>6, <2>1 DEF PutReset, KeyIsGone
<1>7. CASE SetPk \/ ScanCommit
  BY <1>7 DEF SetPk, ScanCommit, KeyIsGone
<1>8. CASE ClearPk
  <2>1. ~cfg'.pk
    BY <1>0, <1>8 DEF ClearPk, Config
  <2> QED
    BY <1>8, <2>1, CarefulEdit DEF ClearPk, KeyIsGone
<1>9. CASE Discover \/ ScanRead
  BY <1>9 DEF Discover, ScanRead, vars, KeyIsGone
<1> QED
  BY <1>1, <1>2, <1>3, <1>4, <1>5, <1>6, <1>7, <1>8, <1>9 DEF AdminNext, Edit

\* When edits are careful a key an operator cleared, of a table the reference does
\* not list, does not come back to the configuration: no cycle has kept a copy.
THEOREM ClearedConfigHolds ==
  ASSUME Careful, InReference = FALSE PROVE AdminSpec => ClearedConfigStays
<1>1. AdminInit => KeyIsGone
  BY DEF AdminInit, KeyIsGone
<1>2. EditInv /\ KeyIsGone /\ [AdminNext]_allVars => KeyIsGone'
  BY GoneStays
<1>3. KeyIsGone' => [cleared /\ cleared' /\ ~cfg.pk => ~cfg'.pk]_allVars
  BY DEF KeyIsGone
<1> QED
  BY <1>1, <1>2, <1>3, EditInvBegins, EditInvKeeps, PTL DEF AdminSpec, ClearedConfigStays

(***************************************************************************)
(* No row behind a cursor that an edit dropped and a cycle initialised     *)
(* anew.  Pursuit ties the cursor to the marker it came from; here the     *)
(* marker changes.  What carries over is Whole: as long as nothing failed, *)
(* a row that is neither in the target nor on its way appeared after all   *)
(* rows that are, so in every marker it is selected from each of them.     *)
(***************************************************************************)
\* No row is stamped late over a New Year: such a row a day marker gives up, and no
\* other marker finds it.
InTime == Lag = 0 \/ MaxDay < YearDays

\* One operator at a time, the poll loop alone, and no change of granularity, which
\* keeps the cursor of the other one (README, section 4).
OneByOne == Careful /\ Callers = {} /\ ~({"day", "timestamp"} \subseteq Markers) /\ InTime

RealMarkers == Markers \ {"none"}

Sound(m, d, t) ==
  m \in RealMarkers /\ d \in Nat /\ t \in NatOrNull /\ ReachedBy(m, d, t) /\ CoversBy(m, KeysOf(tgt), d, t)

\* What is in the target or on its way there, and in <target>_new.
Aside == IF temp = None THEN {} ELSE temp.rows
Coming == tgt \cup orphan \cup cyc[Loop].pending \cup Aside

OneRowPerKey(S) == \A p, q \in S : p.key = q.key => p = q

\* A full reload under way has each key of the target once.
Copying ==
  /\ temp = None <=> cyc[Loop].pc \notin {"fill", "load", "swap"}
  /\ cyc[Loop].pc \in {"load", "swap"} =>
       ~temp.dup /\ KeysOf(tgt) \subseteq KeysOf(Aside \cup cyc[Loop].pending)
  /\ cyc[Loop].pc = "load" =>
       OneRowPerKey(cyc[Loop].pending) /\ \A q \in cyc[Loop].pending : q.key \notin KeysOf(Aside)

Gapless ==
  \A m \in RealMarkers, q \in Coming : CoversBy(m, KeysOf(Coming), WatermarkOf(m, q), q.time)

Whole ==
  /\ orphan = {} /\ stray = {} /\ loaded /\ ~dup
  /\ \A q \in src \cup Coming : Stamped(q) /\ q.key \in KeysOf(src)
  /\ (\A q \in src : q.seq > 0) /\ OneRowPerKey(src)
  /\ cyc[Loop].pc \notin {"insert", "load"} => cyc[Loop].pending = {}
  /\ cyc[Loop].pc = "insert" => uniq
  /\ Gapless /\ Copying

\* a cursor, on the row and in the cycle, is one of the marker of the row
CursorsFit ==
  /\ cfg.marker \in Markers
  /\ put.pc # "reset" /\ cfg.wm # None => Sound(cfg.marker, cfg.wm, cfg.wmTime)
  /\ cyc[Loop].pc # "idle" =>
       /\ cyc[Loop].base.marker = cfg.marker
       /\ cyc[Loop].base.wm = cfg.wm /\ cyc[Loop].base.wmTime = cfg.wmTime
       /\ cyc[Loop].wm # None => Sound(cfg.marker, cyc[Loop].wm, cyc[Loop].wmTime)
       /\ cyc[Loop].pc = "init" => cfg.marker # "none"

\* the marker is about to change, or has, and the cursor is not dropped yet
Changing == put.pc = "reset" \/ (put.pc = "fields" /\ put.reset)

PutHeld ==
  /\ put.pc # "idle" => put.marker \in Markers
  /\ put.pc = "fields" => /\ put.base.marker = cfg.marker /\ (put.reset <=> put.marker # cfg.marker)
                          /\ put.reset => ~put.enabled
  /\ put.pc = "reset" => put.base.wm = cfg.wm /\ put.base.wmTime = cfg.wmTime
  /\ Changing => ~cfg.enabled /\ cyc[Loop].pc = "idle"

EditPursuit == Whole /\ CursorsFit /\ PutHeld

\* A target that gains keys leaves a cursor sound.
LEMMA SoundStays ==
  ASSUME UNCHANGED oracle, KeysOf(tgt) \subseteq KeysOf(tgt')
  PROVE  \A m, d, t : Sound(m, d, t) => Sound(m, d, t)'
  BY DEF Sound, ReachedBy, CoversBy, DayStamps, oracle

LEMMA GapsStay ==
  ASSUME UNCHANGED oracle, Gapless, Coming' \subseteq Coming, KeysOf(Coming) \subseteq KeysOf(Coming')
  PROVE  Gapless'
  BY DEF Gapless, CoversBy, oracle

LEMMA ComingTyped == TypeOK => Coming \subseteq Row /\ Aside \subseteq Row /\ cyc[Loop] \in Cycle
<1> SUFFICES ASSUME TypeOK PROVE Coming \subseteq Row /\ Aside \subseteq Row /\ cyc[Loop] \in Cycle
  OBVIOUS
<1>1. Aside \subseteq Row
  BY DEF Aside, TypeOK, TempTable
<1> QED
  BY <1>1, CyclesOK DEF CycleOK, Cycle, Workers, Coming, TypeOK

\* A full reload that does not move keeps its place.
LEMMA CopyingStays ==
  ASSUME Copying, UNCHANGED <<tgt, temp>>,
         \/ cyc'[Loop] = cyc[Loop]
         \/ cyc[Loop].pc \notin {"fill", "load", "swap"} /\ cyc'[Loop].pc \notin {"fill", "load", "swap"}
  PROVE  Copying' /\ UNCHANGED Aside
<1>1. UNCHANGED Aside
  BY DEF Aside
<1>2. CASE cyc'[Loop] = cyc[Loop]
  BY <1>1, <1>2 DEF Copying, OneRowPerKey
<1>3. CASE cyc[Loop].pc \notin {"fill", "load", "swap"} /\ cyc'[Loop].pc \notin {"fill", "load", "swap"}
  BY <1>1, <1>3 DEF Copying
<1> QED
  BY <1>1, <1>2, <1>3

LEMMA MarkersReal == ASSUME NEW m \in RealMarkers PROVE m \in {"day", "timestamp", "sequence"} /\ m \in MarkerKinds
  BY MarkerAssumption DEF RealMarkers, MarkerKinds

\* The MAX of the target, in any marker, is a cursor nothing missing is behind.
LEMMA MaxIsSound ==
  ASSUME TypeOK, Whole, cyc[Loop].pending = {}, temp = None, NEW m \in RealMarkers, tgt # {}, NEW top \in TargetMax(m),
         NEW t \in NatOrNull, m = "timestamp" => t = top.t
  PROVE  Sound(m, top.d, t) /\ top.d # None /\ top.t \in NatOrNull
<1>1. PICK r \in tgt : top = [d |-> WatermarkOf(m, r), t |-> IF m = "timestamp" THEN r.time ELSE None]
  BY DEF TargetMax
<1>2. r \in Row /\ Stamped(r) /\ Coming = tgt
  BY DEF Whole, Coming, Aside, TypeOK
<1>3. ReachedBy(m, top.d, r.time) /\ top.d \in Nat /\ r.time \in Nat
  BY <1>1, <1>2, StampedReachedBy, MarkersReal
<1>4. CoversBy(m, KeysOf(tgt), top.d, r.time)
  BY <1>1, <1>2 DEF Whole, Gapless
<1>5. m = "timestamp" => t = r.time
  BY <1>1
<1>6. ReachedBy(m, top.d, t) /\ CoversBy(m, KeysOf(tgt), top.d, t)
  BY <1>3, <1>4, <1>5 DEF ReachedBy, CoversBy, Eligible
<1>7. top.d # None /\ top.t \in NatOrNull
  BY <1>1, <1>3, NoneAssumption DEF NatOrNull
<1> QED
  BY <1>3, <1>6, <1>7 DEF Sound

\* So is 0: ids start at 1.
LEMMA ZeroIsSound ==
  ASSUME TypeOK, Whole, NEW m \in RealMarkers
  PROVE  Sound(m, 0, None)
<1>1. /\ seqGen \in Nat /\ now.day \in Nat /\ now.time \in Nat /\ Lookback \in Nat
      /\ \A r \in src : r \in Row /\ r.day \in Nat /\ r.time \in Nat /\ r.seq \in Nat /\ r.seq > 0
  BY BoundAssumption, LagAssumption DEF TypeOK, Whole, Row
<1>2. ReachedBy(m, 0, None)
  BY <1>1 DEF ReachedBy, TimeOf
<1>3. \A r \in src : Eligible(m, r, 0, None)
  BY <1>1, MarkersReal DEF Eligible, TimeOf
<1> QED
  BY <1>2, <1>3 DEF Sound, CoversBy, NatOrNull

\* The parts of the configuration row that tell cursors apart.
SameCursor == cfg'.marker = cfg.marker /\ cfg'.wm = cfg.wm /\ cfg'.wmTime = cfg.wmTime

\* A cycle takes a step that inserts nothing.
LEMMA CycleTurns ==
  ASSUME EditPursuit, UNCHANGED <<oracle, loaded, tgt, dup, temp, stray, orphan, cfg, put>>, ~Changing,
         cyc[Loop].pending = {}, cyc'[Loop].pending = {}, cyc[Loop].pc \notin {"fill", "load", "swap"},
         cyc'[Loop].pc \notin {"insert", "fill", "load", "swap"},
         cyc'[Loop].pc # "idle" =>
           /\ cyc'[Loop].base.marker = cfg.marker
           /\ cyc'[Loop].base.wm = cfg.wm /\ cyc'[Loop].base.wmTime = cfg.wmTime
           /\ cyc'[Loop].wm # None => Sound(cfg.marker, cyc'[Loop].wm, cyc'[Loop].wmTime)
           /\ cyc'[Loop].pc = "init" => cfg.marker # "none"
  PROVE  EditPursuit'
<1>0. Copying' /\ UNCHANGED Aside
  BY CopyingStays DEF EditPursuit, Whole
<1>1. Coming' = Coming
  BY <1>0 DEF Coming
<1>2. Gapless'
  BY <1>1, GapsStay DEF EditPursuit, Whole
<1>3. Whole'
  BY <1>0, <1>1, <1>2 DEF EditPursuit, Whole, Stamped, DayStamps, OneRowPerKey, oracle
<1>4. \A m, d, t : Sound(m, d, t) => Sound(m, d, t)'
  BY SoundStays
<1>5. CursorsFit'
  BY <1>4 DEF EditPursuit, CursorsFit
<1>6. PutHeld'
  BY DEF EditPursuit, PutHeld, Changing
<1> QED
  BY <1>3, <1>5, <1>6 DEF EditPursuit

\* The cycle runs, so no change of marker is under way.
LEMMA NotChanging ==
  ASSUME Callers = {}, EditPursuit, Work(Loop)
  PROVE  ~Changing
<1>1. cyc[Loop].pc = "idle" => cfg.enabled
  BY DEF Work, Begin, InitCursor, Pull, InsertPulled, PullDone, PullFails, PullUnseen, Advance, Finish,
         Reload, CreateTemp, CopyAll, LoadRow, CopyDone, SwapAll, ReloadBreaks, ReloadFails, CopyUnseen
<1> QED
  BY <1>1 DEF EditPursuit, PutHeld

LEMMA TurnKeeps ==
  ASSUME Callers = {}, TypeOK, EditPursuit, UNCHANGED admin,
         Begin(Loop) \/ InitCursor(Loop) \/ PullDone(Loop) \/ Advance(Loop)
  PROVE  EditPursuit'
<1>0. cyc \in [Workers -> Cycle] /\ Loop \in Workers /\ cyc[Loop] \in Cycle /\ ~Changing
  BY NotChanging DEF TypeOK, Workers, Work
<1>1. UNCHANGED <<oracle, loaded, tgt, dup, temp, stray, orphan, cfg, put>>
  BY DEF Begin, InitCursor, PullDone, Advance, staging, admin
<1>2. /\ cyc[Loop].pending = {} /\ cyc[Loop].pc \notin {"fill", "load", "swap"} /\ temp = None
  BY DEF Begin, InitCursor, PullDone, Advance, EditPursuit, Whole, Copying
<1>3. CASE Begin(Loop)
  <2>1. put.pc # "reset"
    BY <1>0 DEF Changing
  <2>2. PICK pc \in {"copy", "finish", "init", "pull"} :
          /\ pc = "init" => cfg.marker # "none"
          /\ \E pk : cyc' = [cyc EXCEPT ![Loop] = [pc |-> pc, base |-> cfg, wm |-> cfg.wm,
                                        wmTime |-> cfg.wmTime, pk |-> pk, pending |-> {}]]
    BY <1>3 DEF Begin, HasUpsertKey
  <2>3. /\ cyc'[Loop].pc = pc /\ cyc'[Loop].base = cfg /\ cyc'[Loop].pending = {}
        /\ cyc'[Loop].wm = cfg.wm /\ cyc'[Loop].wmTime = cfg.wmTime
    BY <1>0, <2>2
  <2> QED
    BY <1>0, <1>1, <1>2, <2>1, <2>2, <2>3, CycleTurns DEF EditPursuit, CursorsFit
<1>4. CASE InitCursor(Loop)
  <2> DEFINE m == cfg.marker
  <2>1. cyc[Loop].pc = "init" /\ cyc[Loop].base.marker = m /\ m \in RealMarkers
    BY <1>4 DEF InitCursor, EditPursuit, CursorsFit, RealMarkers
  <2>2. PICK top \in TargetMax(m) \cup {[d |-> None, t |-> None]} :
          cyc' = [cyc EXCEPT ![Loop].pc = "pull",
                             ![Loop].wm = IF top.d = None THEN 0 ELSE top.d,
                             ![Loop].wmTime = top.t]
    BY <1>4, <2>1 DEF InitCursor
  <2> DEFINE n == IF top.d = None THEN 0 ELSE top.d
  <2>3. /\ cyc'[Loop].pc = "pull" /\ cyc'[Loop].base = cyc[Loop].base /\ cyc'[Loop].pending = {}
        /\ cyc'[Loop].wm = n /\ cyc'[Loop].wmTime = top.t
    BY <1>0, <1>2, <2>2 DEF Cycle
  <2>4. Sound(m, n, top.t)
    <3>1. CASE top = [d |-> None, t |-> None]
      <4>1. Sound(m, 0, None)
        BY <2>1, ZeroIsSound DEF EditPursuit
      <4> QED
        BY <3>1, <4>1
    <3>2. CASE top # [d |-> None, t |-> None]
      <4>1. tgt # {} /\ top \in TargetMax(m)
        BY <2>2, <3>2 DEF TargetMax
      <4>2. top.t \in NatOrNull
        BY <1>0, <4>1, TargetMaxType DEF TypeOK
      <4>3. Sound(m, top.d, top.t) /\ top.d # None
        BY <1>2, <2>1, <4>1, <4>2, MaxIsSound DEF EditPursuit
      <4> QED
        BY <4>3
    <3> QED
      BY <3>1, <3>2
  <2> HIDE DEF n
  <2> QED
    BY <1>0, <1>1, <1>2, <2>1, <2>3, <2>4, CycleTurns DEF EditPursuit, CursorsFit
<1>5. CASE PullDone(Loop)
  <2>1. cyc[Loop].pc = "insert" /\ cyc' = [cyc EXCEPT ![Loop].pc = "advance"]
    BY <1>5 DEF PullDone, Goto
  <2>2. /\ cyc'[Loop].pc = "advance" /\ cyc'[Loop].base = cyc[Loop].base /\ cyc'[Loop].pending = {}
        /\ cyc'[Loop].wm = cyc[Loop].wm /\ cyc'[Loop].wmTime = cyc[Loop].wmTime
    BY <1>0, <1>2, <2>1 DEF Cycle
  <2> QED
    BY <1>0, <1>1, <1>2, <2>1, <2>2, CycleTurns DEF EditPursuit, CursorsFit
<1>6. CASE Advance(Loop)
  <2> DEFINE m == cfg.marker
  <2>1. cyc[Loop].pc = "advance" /\ cyc[Loop].base.marker = m /\ cyc[Loop].wm \in Nat
    BY <1>0, <1>6 DEF Advance, EditPursuit, CursorsFit, TypeOK
  <2>2. Sound(m, cyc[Loop].wm, cyc[Loop].wmTime) /\ m \in RealMarkers
    BY <2>1, NoneAssumption DEF EditPursuit, CursorsFit, Sound
  <2>3. PICK top \in TargetMax(m) \cup {[d |-> None, t |-> None]} :
          cyc' = [cyc EXCEPT ![Loop].pc = "finish",
                    ![Loop].wm = IF top.d = None THEN @ ELSE top.d,
                    ![Loop].wmTime = IF top.d # None /\ m = "timestamp" THEN top.t ELSE @]
    BY <1>6, <2>1 DEF Advance
  <2> DEFINE n == IF top.d = None THEN cyc[Loop].wm ELSE top.d
             t == IF top.d # None /\ m = "timestamp" THEN top.t ELSE cyc[Loop].wmTime
  <2>4. /\ cyc'[Loop].pc = "finish" /\ cyc'[Loop].base = cyc[Loop].base /\ cyc'[Loop].pending = {}
        /\ cyc'[Loop].wm = n /\ cyc'[Loop].wmTime = t
    BY <1>0, <1>2, <2>3 DEF Cycle
  <2>5. Sound(m, n, t)
    <3>1. CASE top.d = None
      BY <2>2, <3>1
    <3>2. CASE top.d # None
      <4>1. tgt # {} /\ top \in TargetMax(m)
        BY <2>3, <3>2 DEF TargetMax
      <4>2. top.t \in NatOrNull /\ cyc[Loop].wmTime \in NatOrNull
        BY <1>0, <2>2, <4>1, TargetMaxType DEF TypeOK, Sound
      <4>3. n = top.d /\ t \in NatOrNull /\ (m = "timestamp" => t = top.t)
        BY <3>2, <4>2
      <4> HIDE DEF n, t
      <4> QED
        BY <1>2, <2>2, <4>1, <4>3, MaxIsSound DEF EditPursuit
    <3> QED
      BY <3>1, <3>2
  <2> HIDE DEF n, t
  <2> QED
    BY <1>0, <1>1, <1>2, <2>1, <2>4, <2>5, CycleTurns DEF EditPursuit, CursorsFit
<1> QED
  BY <1>3, <1>4, <1>5, <1>6

LEMMA NeverPassedOver ==
  ASSUME InTime, TypeOK, NEW m, NEW d, NEW t, Sound(m, d, t), NEW r \in src
  PROVE  ~PassedOver(m, r, d)
<1> SUFFICES ASSUME m = "day", Lag > 0, Year(r.day) < Year(d) PROVE FALSE
  BY DEF PassedOver
<1>1. now.day \in Nat /\ now.day <= MaxDay /\ MaxDay \in Nat /\ r.day \in Nat
  BY BoundAssumption DEF TypeOK, Row
<1>2. d \in Nat /\ d <= Julian(now.day)
  BY <1>1, StampsTyped DEF Sound, ReachedBy
<1>3. now.day < YearDays /\ YearDays \in Nat /\ YearDays < 1000
  BY <1>1, YearAssumption, LagAssumption DEF InTime
<1>4. now.day \div YearDays = 0 /\ now.day % YearDays = now.day
  BY <1>1, <1>3
<1>5. Julian(now.day) = now.day + 1
  BY <1>1, <1>4 DEF Julian
<1> QED
  BY <1>1, <1>2, <1>3, <1>5 DEF Year

\* What a pull selects from a sound cursor is all that the target misses.
LEMMA PullKeeps ==
  ASSUME Callers = {}, InTime, TypeOK, EditPursuit, UNCHANGED admin, Pull(Loop)
  PROVE  EditPursuit'
<1> DEFINE c == cyc[Loop]
           m == cfg.marker
<1>0. cyc \in [Workers -> Cycle] /\ Loop \in Workers /\ c \in Cycle /\ ~Changing
  BY NotChanging DEF TypeOK, Workers, Work
<1>1. c.pc = "pull" /\ ~dup /\ uniq' /\ UNCHANGED <<oracle, loaded, tgt, dup, temp, stray, cfg, orphan, put>>
  BY DEF Pull, EditPursuit, Whole, admin
<1>2. /\ cyc'[Loop].pc = "insert" /\ cyc'[Loop].pending = Selected(Loop) /\ cyc'[Loop].base = c.base
      /\ cyc'[Loop].wm = c.wm /\ cyc'[Loop].wmTime = c.wmTime
  BY <1>0, <1>1 DEF Pull, Cycle
<1>3. c.base.marker = m /\ Sound(m, c.wm, c.wmTime)
  BY <1>1, NoneAssumption DEF EditPursuit, CursorsFit, TypeOK, Workers
<1>12. Copying' /\ temp = None
  BY <1>1, <1>2, CopyingStays DEF EditPursuit, Whole, Copying
<1>4. Coming = tgt \cup c.pending /\ Coming' = tgt \cup Selected(Loop) /\ c.pending = {} /\ Selected(Loop) \subseteq src
  BY <1>1, <1>2, <1>12 DEF Coming, Aside, Selected, EditPursuit, Whole
<1>5. \A r \in src : r.key \in KeysOf(Coming')
  BY <1>3, <1>4, NeverPassedOver DEF Sound, CoversBy, Selected, KeysOf
<1>6. Gapless'
  BY <1>1, <1>5 DEF Gapless, CoversBy, oracle
<1>7. \A q \in src' \cup Coming' : Stamped(q)' /\ q.key \in KeysOf(src)'
  BY <1>1, <1>4 DEF EditPursuit, Whole, Stamped, DayStamps, oracle
<1>8. Whole'
  BY <1>1, <1>2, <1>6, <1>7, <1>12 DEF EditPursuit, Whole, OneRowPerKey, oracle
<1>9. \A n, d, t : Sound(n, d, t) => Sound(n, d, t)'
  BY <1>1, SoundStays
<1>10. CursorsFit'
  BY <1>0, <1>1, <1>2, <1>9 DEF EditPursuit, CursorsFit
<1>11. PutHeld'
  BY <1>0, <1>1 DEF EditPursuit, PutHeld, Changing
<1> QED
  BY <1>8, <1>10, <1>11 DEF EditPursuit

LEMMA InsertKeeps ==
  ASSUME Callers = {}, TypeOK, EditPursuit, UNCHANGED admin, InsertPulled(Loop)
  PROVE  EditPursuit'
<1> DEFINE c == cyc[Loop]
<1>0. cyc \in [Workers -> Cycle] /\ Loop \in Workers /\ c \in Cycle /\ ~Changing
  BY NotChanging DEF TypeOK, Workers, Work
<1>1. PICK r \in c.pending : Insert(r) /\ cyc' = [cyc EXCEPT ![Loop].pending = @ \ {r}]
  BY DEF InsertPulled
<1>2. /\ c.pc = "insert" /\ uniq /\ UNCHANGED <<oracle, cfg, orphan, put>> /\ temp = None
      /\ cyc'[Loop] = [c EXCEPT !.pending = @ \ {r}]
  BY <1>0, <1>1 DEF InsertPulled, EditPursuit, Whole, Copying, admin
<1>3. /\ cyc'[Loop].pc = "insert" /\ cyc'[Loop].base = c.base
      /\ cyc'[Loop].wm = c.wm /\ cyc'[Loop].wmTime = c.wmTime
      /\ cyc'[Loop].pending = c.pending \ {r}
  BY <1>0, <1>2 DEF Cycle
<1>4. /\ UNCHANGED <<loaded, uniq, temp, stray>> /\ tgt \subseteq tgt' /\ tgt' \subseteq tgt \cup {r}
      /\ KeysOf(tgt') = KeysOf(tgt) \cup {r.key} /\ (~dup => ~dup')
  BY <1>1, <1>2, InsertAdds
<1>12. UNCHANGED Aside /\ Copying'
  BY <1>2, <1>3, <1>4 DEF Aside, Copying
<1>5. Coming' \subseteq Coming /\ KeysOf(Coming) \subseteq KeysOf(Coming')
  BY <1>2, <1>3, <1>4, <1>12 DEF Coming, KeysOf
<1>6. Gapless'
  BY <1>2, <1>5, GapsStay DEF EditPursuit, Whole
<1>7. \A q \in src' \cup Coming' : Stamped(q)' /\ q.key \in KeysOf(src)'
  BY <1>2, <1>5 DEF EditPursuit, Whole, Stamped, DayStamps, oracle
<1>8. Whole'
  BY <1>2, <1>3, <1>4, <1>6, <1>7, <1>12 DEF EditPursuit, Whole, OneRowPerKey, oracle
<1>9. \A n, d, t : Sound(n, d, t) => Sound(n, d, t)'
  BY <1>2, <1>4, SoundStays DEF KeysOf
<1>10. CursorsFit'
  BY <1>0, <1>2, <1>3, <1>9 DEF EditPursuit, CursorsFit
<1>11. PutHeld'
  BY <1>0, <1>2 DEF EditPursuit, PutHeld, Changing
<1> QED
  BY <1>8, <1>10, <1>11 DEF EditPursuit

\* A full reload replaces the target by rows with at least its keys.
LEMMA ReloadKeeps ==
  ASSUME Callers = {}, TypeOK, EditPursuit, UNCHANGED <<admin, faults>>, Reload(Loop)
  PROVE  EditPursuit'
<1> DEFINE c == cyc[Loop]
<1>0. /\ cyc \in [Workers -> Cycle] /\ Loop \in Workers /\ c \in Cycle /\ ~Changing
      /\ temp \in TempTable \cup {None} /\ Aside \subseteq Row /\ faults \in Nat
  BY NotChanging, ComingTyped, BoundAssumption DEF TypeOK, Workers, Work
<1>1. UNCHANGED <<oracle, cfg, orphan, put>> /\ orphan = {} /\ stray = {} /\ loaded /\ ~dup
  BY ReloadStep, <1>0 DEF EditPursuit, Whole, admin
<1>2. /\ c.pc \in {"copy", "fill", "load", "swap"} /\ cyc'[Loop].pc \in {"fill", "load", "swap", "finish"}
      /\ cyc'[Loop].base = c.base /\ cyc'[Loop].wm = c.wm /\ cyc'[Loop].wmTime = c.wmTime
  BY ReloadStep, <1>0
\* It is enough to say where the rows are.
<1>3. ASSUME UNCHANGED stray, loaded', ~dup', Copying', cyc'[Loop].pc # "load" => cyc'[Loop].pending = {},
             Coming' \subseteq Coming \/ (Coming' \subseteq Coming \cup src /\ src \subseteq Coming'),
             KeysOf(Coming) \subseteq KeysOf(Coming'),
             KeysOf(tgt) \subseteq KeysOf(tgt')
      PROVE  EditPursuit'
  <2>1. \A q \in src' \cup Coming' : Stamped(q)' /\ q.key \in KeysOf(src)'
    BY <1>1, <1>3 DEF EditPursuit, Whole, Stamped, DayStamps, oracle
  <2>2. Gapless'
    <3> SUFFICES ASSUME NEW m \in RealMarkers, NEW q \in Coming'
                 PROVE  CoversBy(m, KeysOf(Coming), WatermarkOf(m, q), q.time)'
      BY DEF Gapless
    <3>1. CASE q \in Coming
      BY <1>1, <1>3, <3>1 DEF EditPursuit, Whole, Gapless, CoversBy, oracle
    <3>2. CASE src \subseteq Coming'
      BY <1>1, <3>2 DEF CoversBy, KeysOf, oracle
    <3> QED
      BY <1>3, <3>1, <3>2
  <2>3. Whole'
    BY <1>1, <1>2, <1>3, <2>1, <2>2 DEF EditPursuit, Whole, OneRowPerKey, oracle
  <2>4. \A n, d, t : Sound(n, d, t) => Sound(n, d, t)'
    BY <1>1, <1>3, SoundStays
  <2>5. CursorsFit'
    BY <1>0, <1>1, <1>2, <2>4 DEF EditPursuit, CursorsFit
  <2>6. PutHeld'
    BY <1>0, <1>1 DEF EditPursuit, PutHeld, Changing
  <2> QED
    BY <2>3, <2>5, <2>6 DEF EditPursuit
<1>4. CASE CreateTemp(Loop)
  <2>1. /\ c.pc = "copy" /\ temp = None /\ c.pending = {} /\ UNCHANGED <<loaded, tgt, dup, stray>>
        /\ cyc'[Loop].pc = "fill" /\ cyc'[Loop].pending = {} /\ temp' \in TempTable /\ temp'.rows = {}
    BY <1>0, <1>4 DEF CreateTemp, Goto, EditPursuit, Whole, Copying, Cycle, TempTable
  <2>2. temp' # None /\ Aside = {} /\ Aside' = {}
    BY <2>1, NoneAssumption DEF Aside
  <2>3. Copying' /\ Coming' = Coming
    BY <1>1, <2>1, <2>2 DEF Copying, Coming
  <2> QED
    BY <1>1, <1>3, <2>1, <2>3
<1>5. CASE CopyAll(Loop)
  <2>1. /\ c.pc = "fill" /\ temp \in TempTable /\ c.pending = {} /\ UNCHANGED <<loaded, tgt, dup, stray>>
        /\ cyc'[Loop].pc = "load" /\ cyc'[Loop].pending = src
        /\ temp' \in TempTable /\ temp'.rows = {} /\ ~temp'.dup
    BY <1>0, <1>5 DEF CopyAll, EditPursuit, Whole, Cycle, TempTable
  <2>2. temp' # None /\ Aside' = {}
    BY <2>1, NoneAssumption DEF Aside
  <2>3. Coming' = tgt \cup src /\ tgt \subseteq Coming /\ KeysOf(Coming) \subseteq KeysOf(src)
    BY <1>1, <2>1, <2>2 DEF Coming, EditPursuit, Whole, KeysOf
  <2>4. KeysOf(tgt) \subseteq KeysOf(src) /\ KeysOf(Coming) \subseteq KeysOf(Coming')
    BY <2>3 DEF KeysOf
  <2>5. Copying'
    BY <2>1, <2>2, <2>4 DEF Copying, EditPursuit, Whole, OneRowPerKey, KeysOf
  <2> QED
    BY <1>1, <1>3, <2>1, <2>3, <2>4, <2>5
<1>6. CASE LoadRow(Loop)
  <2>1. PICK r \in c.pending : Load(r) /\ cyc' = [cyc EXCEPT ![Loop].pending = @ \ {r}]
    BY <1>6 DEF LoadRow
  <2>2. /\ c.pc = "load" /\ cyc'[Loop].pc = "load" /\ cyc'[Loop].pending = c.pending \ {r}
        /\ UNCHANGED <<loaded, tgt, dup, stray>>
    BY <1>0, <1>6, <2>1 DEF LoadRow, Load, Cycle
  <2>3. /\ temp \in TempTable /\ ~temp.dup /\ r.key \notin KeysOf(temp.rows) /\ Aside = temp.rows
        /\ KeysOf(tgt) \subseteq KeysOf(Aside \cup c.pending) /\ OneRowPerKey(c.pending)
        /\ \A q \in c.pending : q.key \notin KeysOf(Aside)
    BY <1>0, <2>2 DEF EditPursuit, Whole, Copying, Aside
  <2>4. temp' \in TempTable /\ temp'.rows = temp.rows \cup {r} /\ ~temp'.dup
    BY <1>0, <2>1, <2>3 DEF Load, TempTable, Cycle
  <2>5. Aside' = Aside \cup {r} /\ temp' # None
    BY <2>3, <2>4, NoneAssumption DEF Aside
  <2>6. Coming' = Coming /\ Aside' \cup cyc'[Loop].pending = Aside \cup c.pending
    BY <1>1, <2>2, <2>5 DEF Coming
  <2>7. \A q \in cyc'[Loop].pending : q.key \notin KeysOf(Aside')
    BY <2>2, <2>3, <2>5 DEF OneRowPerKey, KeysOf
  <2>8. Copying'
    BY <2>2, <2>3, <2>4, <2>5, <2>6, <2>7 DEF Copying, OneRowPerKey
  <2> QED
    BY <1>1, <1>3, <2>2, <2>6, <2>8
<1>7. CASE CopyDone(Loop)
  <2>1. /\ c.pc = "load" /\ c.pending = {} /\ UNCHANGED <<loaded, tgt, dup, temp, stray>>
        /\ cyc'[Loop].pc = "swap" /\ cyc'[Loop].pending = {}
    BY <1>0, <1>7 DEF CopyDone, Goto, staging, Cycle
  <2>2. Aside' = Aside
    BY <2>1 DEF Aside
  <2>3. Copying' /\ Coming' = Coming
    BY <1>1, <2>1, <2>2 DEF Copying, Coming, EditPursuit, Whole
  <2> QED
    BY <1>1, <1>3, <2>1, <2>3
<1>8. CASE SwapAll(Loop)
  <2>1. /\ c.pc = "swap" /\ c.pending = {} /\ temp # None /\ ~temp.dup /\ Aside = temp.rows
        /\ KeysOf(tgt) \subseteq KeysOf(Aside)
    BY <1>8 DEF SwapAll, EditPursuit, Whole, Copying, Aside
  <2>2. /\ loaded' /\ tgt' = Aside /\ ~dup' /\ temp' = None /\ UNCHANGED stray
        /\ cyc'[Loop].pc = "finish" /\ cyc'[Loop].pending = {}
    BY <1>0, <1>8, <2>1 DEF SwapAll, Goto, Cycle
  <2>3. Aside' = {} /\ Copying'
    BY <2>2 DEF Aside, Copying
  <2>4. Coming' = Aside /\ Coming = tgt \cup Aside
    BY <1>1, <2>1, <2>2, <2>3 DEF Coming
  <2> QED
    BY <1>3, <2>1, <2>2, <2>3, <2>4 DEF KeysOf
\* It never finds its table gone or its key there, and an empty copy is one of nothing.
<1>9. CASE ReloadBreaks(Loop)
  <2>1. /\ temp' = None /\ cyc' = [cyc EXCEPT ![Loop] = [c EXCEPT !.pc = "finish", !.pending = {}]]
        /\ UNCHANGED <<loaded, tgt, dup, stray>>
    BY <1>9, Zenon DEF ReloadBreaks
  <2>2. cyc'[Loop].pc = "finish" /\ cyc'[Loop].pending = {}
    BY <1>0, <2>1 DEF Cycle
  <2>3. c.pc = "swap" /\ (IF temp = None THEN TRUE ELSE temp.rows = {})
    <3>1. c.pc = "fill" => temp # None
      BY DEF EditPursuit, Whole, Copying
    <3>2. c.pc = "load" => \A r \in c.pending : ~Blocked(r)
      BY DEF EditPursuit, Whole, Copying, Blocked, Aside
    <3> QED
      BY <1>9, <3>1, <3>2, Zenon DEF ReloadBreaks
  <2>4. Aside = {} /\ c.pending = {} /\ tgt = {}
    BY <2>3 DEF EditPursuit, Whole, Copying, Aside, KeysOf
  <2>5. Aside' = {} /\ Copying'
    BY <2>1, <2>2 DEF Aside, Copying
  <2>6. Coming = {} /\ Coming' = {}
    BY <1>1, <2>1, <2>2, <2>4, <2>5 DEF Coming
  <2> QED
    BY <1>1, <1>3, <2>1, <2>2, <2>5, <2>6 DEF KeysOf
<1>10. ~ReloadFails(Loop) /\ ~CopyUnseen(Loop)
  BY <1>0 DEF ReloadFails, CopyUnseen
<1> QED
  BY <1>4, <1>5, <1>6, <1>7, <1>8, <1>9, <1>10 DEF Reload

LEMMA FinishKeeps ==
  ASSUME Callers = {}, TypeOK, EditPursuit, UNCHANGED admin, Finish(Loop)
  PROVE  EditPursuit'
<1> DEFINE c == cyc[Loop]
<1>0. cyc \in [Workers -> Cycle] /\ Loop \in Workers /\ c \in Cycle /\ ~Changing /\ cfg \in Config
  BY NotChanging DEF TypeOK, Workers, Work
<1>1. UNCHANGED <<oracle, loaded, tgt, uniq, dup, temp, stray, orphan, put>> /\ c.pc = "finish" /\ c.pending = {}
  BY DEF Finish, staging, admin, EditPursuit, Whole
<1>2. /\ cyc'[Loop].pc = "idle" /\ cyc'[Loop].pending = {}
      /\ cfg'.marker = cfg.marker /\ cfg'.enabled = cfg.enabled /\ cfg'.wm = c.wm /\ cfg'.wmTime = c.wmTime
  BY <1>0, <1>1 DEF Finish, Idle, Config, EditPursuit, CursorsFit
<1>9. Copying' /\ UNCHANGED Aside
  BY <1>1, <1>2, CopyingStays DEF EditPursuit, Whole
<1>3. Coming' = Coming
  BY <1>1, <1>2, <1>9 DEF Coming
<1>4. Gapless'
  BY <1>1, <1>3, GapsStay DEF EditPursuit, Whole
<1>5. Whole'
  BY <1>1, <1>2, <1>3, <1>4, <1>9 DEF EditPursuit, Whole, Stamped, DayStamps, OneRowPerKey, oracle
<1>6. \A n, d, t : Sound(n, d, t) => Sound(n, d, t)'
  BY <1>1, SoundStays
<1>7. CursorsFit'
  BY <1>1, <1>2, <1>6 DEF EditPursuit, CursorsFit
<1>8. PutHeld'
  BY <1>0, <1>1, <1>2 DEF EditPursuit, PutHeld, Changing
<1> QED
  BY <1>5, <1>7, <1>8 DEF EditPursuit

\* Rows that appear or change are stamped no earlier than any row there is.
LEMMA OracleSound ==
  ASSUME TypeOK, EditPursuit, UNCHANGED admin, Oracle
  PROVE  EditPursuit'
<1>0. UNCHANGED <<staging, cfg, jobPk, cyc, orphan, faults, put>> /\ KeysOf(src) \subseteq KeysOf(src')
  BY KeysOfSrc DEF admin
<1>11. Copying' /\ UNCHANGED Aside
  BY <1>0, CopyingStays DEF EditPursuit, Whole, staging
<1>1. Coming' = Coming /\ Coming \subseteq Row
  BY <1>0, <1>11, ComingTyped DEF Coming, staging
<1>10. OneRowPerKey(src')
  <2>1. src \subseteq Row /\ OneRowPerKey(src)
    BY DEF TypeOK, EditPursuit, Whole
  <2>2. CASE Tick
    BY <2>1, <2>2 DEF Tick
  <2>3. ASSUME NEW k \in Keys, InsertRow(k) PROVE OneRowPerKey(src')
    <3>1. PICK q : src' = src \cup {q} /\ q.key = k
      <4>1. PICK d \in VisibleDays : src' = src \cup {[key |-> k, day |-> d, time |-> now.time, seq |-> seqGen + 1]}
        BY <2>3 DEF InsertRow
      <4> DEFINE n == [key |-> k, day |-> d, time |-> now.time, seq |-> seqGen + 1]
      <4>2. src' = src \cup {n} /\ n.key = k
        BY <4>1
      <4> HIDE DEF n
      <4> QED
        BY <4>2
    <3> QED
      BY <2>1, <2>3, <3>1 DEF InsertRow, OneRowPerKey, KeysOf
  <2>4. ASSUME NEW r \in src, UpdateRow(r) PROVE OneRowPerKey(src')
    <3>1. PICK q : src' = (src \ {r}) \cup {q} /\ q.key = r.key
      <4>1. PICK d \in VisibleDays : src' = (src \ {r}) \cup {[r EXCEPT !.day = d, !.time = now.time]}
        BY <2>4 DEF UpdateRow
      <4>2. [r EXCEPT !.day = d, !.time = now.time].key = r.key
        BY <2>1 DEF Row
      <4> QED
        BY <4>1, <4>2
    <3> QED
      BY <2>1, <3>1 DEF OneRowPerKey
  <2> QED
    BY <2>2, <2>3, <2>4 DEF Oracle
<1>2. (\A q \in src' : Stamped(q)') /\ \A q \in Row : Stamped(q) => Stamped(q)'
  BY OracleStamps DEF EditPursuit, Whole
<1>3. \A q \in src' \cup Coming' : Stamped(q)' /\ q.key \in KeysOf(src')
  BY <1>0, <1>1, <1>2 DEF EditPursuit, Whole, KeysOf
<1>4. \A q \in src' : q.seq > 0
  <2>1. seqGen \in Nat /\ src \subseteq Row /\ \A q \in src : q.seq > 0
    BY DEF TypeOK, EditPursuit, Whole
  <2>2. CASE Tick
    BY <2>1, <2>2 DEF Tick
  <2>3. ASSUME NEW k \in Keys, InsertRow(k) PROVE \A q \in src' : q.seq > 0
    <3>1. PICK d \in VisibleDays : src' = src \cup {[key |-> k, day |-> d, time |-> now.time, seq |-> seqGen + 1]}
      BY <2>3 DEF InsertRow
    <3>2. seqGen + 1 > 0
      BY <2>1
    <3> QED
      BY <2>1, <3>1, <3>2
  <2>4. ASSUME NEW r \in src, UpdateRow(r) PROVE \A q \in src' : q.seq > 0
    <3>1. PICK d \in VisibleDays : src' = (src \ {r}) \cup {[r EXCEPT !.day = d, !.time = now.time]}
      BY <2>4 DEF UpdateRow
    <3>2. [r EXCEPT !.day = d, !.time = now.time].seq = r.seq
      BY <2>1 DEF Row
    <3> QED
      BY <2>1, <3>1, <3>2
  <2> QED
    BY <2>2, <2>3, <2>4 DEF Oracle
<1>5. Gapless'
  <2> SUFFICES ASSUME NEW m \in RealMarkers, NEW q \in Coming
               PROVE  CoversBy(m, KeysOf(Coming), WatermarkOf(m, q), q.time)'
    BY <1>1 DEF Gapless
  <2>1. q \in Row /\ Stamped(q)
    BY <1>1 DEF EditPursuit, Whole
  <2>2. ReachedBy(m, WatermarkOf(m, q), q.time) /\ WatermarkOf(m, q) \in Nat /\ q.time \in NatOrNull
    BY <2>1, StampedReachedBy, MarkersReal DEF NatOrNull
  <2>3. CoversBy(m, KeysOf(Coming), WatermarkOf(m, q), q.time)
    BY DEF EditPursuit, Whole, Gapless
  <2> DEFINE d == WatermarkOf(m, q)
  <2> HIDE DEF d
  <2>4. \A S : CoversBy(m, S, d, q.time) => CoversBy(m, S, d, q.time)'
    BY <2>2, OracleKeepsBy DEF RealMarkers, d
  <2>5. CoversBy(m, KeysOf(Coming), d, q.time)'
    BY <1>1, <2>3, <2>4 DEF d, CoversBy, KeysOf
  <2> QED
    BY <2>5 DEF d
<1>6. Whole'
  BY <1>0, <1>1, <1>3, <1>4, <1>5, <1>10, <1>11 DEF EditPursuit, Whole, staging
<1>7. \A m, d, t : Sound(m, d, t) => Sound(m, d, t)'
  <2> SUFFICES ASSUME NEW m, NEW d, NEW t, Sound(m, d, t)
               PROVE  Sound(m, d, t)'
    OBVIOUS
  <2>1. m \in RealMarkers /\ d \in Nat /\ t \in NatOrNull /\ ReachedBy(m, d, t) /\ CoversBy(m, KeysOf(tgt), d, t)
    BY DEF Sound
  <2>2. ReachedBy(m, d, t)' /\ CoversBy(m, KeysOf(tgt), d, t)'
    BY <1>0, <2>1, OracleKeepsBy DEF RealMarkers, CoversBy, staging
  <2> QED
    BY <2>1, <2>2 DEF Sound
<1>8. CursorsFit'
  BY <1>0, <1>7 DEF EditPursuit, CursorsFit
<1>9. PutHeld'
  BY <1>0 DEF EditPursuit, PutHeld, Changing
<1> QED
  BY <1>6, <1>8, <1>9 DEF EditPursuit

\* An edit moves neither the cursor nor a row; a cycle keeps its place, and the index is
\* rebuilt or dropped between cycles only.
LEMMA CursorKept ==
  ASSUME EditPursuit, SameCursor, PutHeld', UNCHANGED <<oracle, loaded, tgt, dup, temp, stray, cyc, orphan>>,
         cyc[Loop].pc = "insert" => uniq' = uniq,
         put'.pc # "reset" => put.pc # "reset"
  PROVE  EditPursuit'
<1>0. Copying' /\ UNCHANGED Aside
  BY CopyingStays DEF EditPursuit, Whole
<1>1. Coming' = Coming
  BY <1>0 DEF Coming
<1>2. Gapless'
  BY <1>1, GapsStay DEF EditPursuit, Whole
<1>3. Whole'
  BY <1>0, <1>1, <1>2 DEF EditPursuit, Whole, Stamped, DayStamps, OneRowPerKey, oracle
<1>4. \A n, d, t : Sound(n, d, t) => Sound(n, d, t)'
  BY SoundStays
<1>5. CursorsFit'
  BY <1>4 DEF EditPursuit, CursorsFit, SameCursor
<1> QED
  BY <1>3, <1>5 DEF EditPursuit

LEMMA PutReadKeeps ==
  ASSUME OneByOne, EditInv, EditPursuit, NEW m \in Markers, NEW e \in BOOLEAN, PutRead(m, e)
  PROVE  EditPursuit'
<1>1. /\ UNCHANGED <<oracle, loaded, tgt, uniq, dup, temp, stray, cyc, orphan, cfg>> /\ put.pc = "idle"
      /\ put' = [pc |-> "fields", base |-> cfg, marker |-> m, enabled |-> e,
                 reset |-> MarkerChanged(cfg.marker, m)]
  BY DEF PutRead, vars, staging
<1>2. MarkerChanged(cfg.marker, m) <=> m # cfg.marker
  BY DEF MarkerChanged, OneByOne, EditPursuit, CursorsFit
<1>3. CASE m = cfg.marker
  <2>1. PutHeld'
    BY <1>1, <1>2, <1>3 DEF PutHeld, Changing
  <2> QED
    BY <1>1, <2>1, CursorKept DEF SameCursor
<1>4. CASE m # cfg.marker
  <2>1. ~e /\ ~cfg.enabled /\ cyc[Loop].pc = "idle"
    BY <1>4 DEF PutRead, MayEdit, Quiet, OneByOne, Workers
  <2>2. PutHeld'
    BY <1>1, <1>2, <2>1 DEF PutHeld, Changing
  <2> QED
    BY <1>1, <2>2, CursorKept DEF SameCursor
<1> QED
  BY <1>3, <1>4

LEMMA PutFieldsKeeps ==
  ASSUME EditInv, EditPursuit, PutFields
  PROVE  EditPursuit'
<1>1. /\ UNCHANGED <<oracle, loaded, tgt, uniq, dup, temp, stray, cyc, orphan>> /\ put.pc = "fields"
      /\ cfg \in Config /\ put.base.marker = cfg.marker /\ put.marker \in Markers
      /\ put.reset <=> put.marker # cfg.marker
      /\ put.reset => ~put.enabled
  BY DEF PutFields, staging, EditInv, TypeOK, EditPursuit, PutHeld
<1>2. /\ cfg'.marker = put.marker /\ cfg'.wm = cfg.wm /\ cfg'.wmTime = cfg.wmTime
      /\ cfg'.enabled = IF put.enabled # put.base.enabled THEN put.enabled ELSE cfg.enabled
  BY <1>1 DEF PutFields, Config
<1>3. CASE ~put.reset
  <2>1. put' = NoPut /\ put'.pc = "idle"
    BY <1>1, <1>3 DEF PutFields, NoPut
  <2>2. PutHeld'
    BY <2>1 DEF PutHeld, Changing
  <2> QED
    BY <1>1, <1>2, <1>3, <2>1, <2>2, CursorKept DEF SameCursor
<1>4. CASE put.reset
  <2>1. put' = [put EXCEPT !.pc = "reset", !.base = cfg'] /\ put'.pc = "reset" /\ put'.base = cfg'
        /\ put'.marker = put.marker
    BY <1>1, <1>4 DEF PutFields, EditInv, AdminTypes
  <2>2. ~cfg.enabled /\ cyc[Loop].pc = "idle" /\ ~put.enabled
    BY <1>1, <1>4 DEF EditPursuit, PutHeld, Changing
  <2>3. ~cfg'.enabled
    BY <1>2, <2>2
  <2>4. PutHeld'
    BY <1>1, <2>1, <2>2, <2>3 DEF PutHeld, Changing
  <2>9. Copying' /\ UNCHANGED Aside
    BY <1>1, CopyingStays DEF EditPursuit, Whole
  <2>5. Coming' = Coming
    BY <1>1, <2>9 DEF Coming
  <2>6. Gapless'
    BY <1>1, <2>5, GapsStay DEF EditPursuit, Whole
  <2>7. Whole'
    BY <1>1, <2>5, <2>6, <2>9 DEF EditPursuit, Whole, Stamped, DayStamps, OneRowPerKey, oracle
  <2>8. CursorsFit'
    BY <1>1, <1>2, <2>1, <2>2 DEF CursorsFit
  <2> QED
    BY <2>4, <2>7, <2>8 DEF EditPursuit
<1> QED
  BY <1>3, <1>4

\* The cursor of the old marker is dropped.
LEMMA PutResetKeeps ==
  ASSUME EditInv, EditPursuit, PutReset
  PROVE  EditPursuit'
<1>1. /\ UNCHANGED <<oracle, loaded, tgt, uniq, dup, temp, stray, cyc, orphan>> /\ put' = NoPut /\ put'.pc = "idle"
      /\ put.pc = "reset" /\ cfg \in Config /\ cyc[Loop].pc = "idle"
      /\ put.base.wm = cfg.wm /\ put.base.wmTime = cfg.wmTime
  BY DEF PutReset, NoPut, staging, EditInv, TypeOK, EditPursuit, PutHeld, Changing
<1>2. cfg'.marker = cfg.marker /\ cfg'.wm = None
  BY <1>1 DEF PutReset, Config
<1>8. Copying' /\ UNCHANGED Aside
  BY <1>1, CopyingStays DEF EditPursuit, Whole
<1>3. Coming' = Coming
  BY <1>1, <1>8 DEF Coming
<1>4. Gapless'
  BY <1>1, <1>3, GapsStay DEF EditPursuit, Whole
<1>5. Whole'
  BY <1>1, <1>3, <1>4, <1>8 DEF EditPursuit, Whole, Stamped, DayStamps, OneRowPerKey, oracle
<1>6. CursorsFit'
  BY <1>1, <1>2 DEF EditPursuit, CursorsFit
<1>7. PutHeld'
  BY <1>1 DEF PutHeld, Changing
<1> QED
  BY <1>5, <1>6, <1>7 DEF EditPursuit

LEMMA PkKeeps ==
  ASSUME OneByOne, EditInv, EditPursuit, SetPk \/ ClearPk \/ Discover \/ ScanRead \/ ScanCommit
  PROVE  EditPursuit'
<1>1. UNCHANGED <<oracle, loaded, tgt, dup, temp, stray, cyc, orphan, put>> /\ cfg \in Config
  BY DEF SetPk, ClearPk, Discover, ScanRead, ScanCommit, vars, staging, EditInv, TypeOK
<1>2. SameCursor /\ cfg'.enabled = cfg.enabled
  BY <1>1 DEF SetPk, ClearPk, Discover, ScanRead, ScanCommit, vars, SameCursor, Config
<1>3. cyc[Loop].pc = "insert" => uniq' = uniq
  <2>1. CASE SetPk \/ ClearPk
    <3>1. cyc[Loop].pc = "idle"
      BY <2>1, CarefulEdit DEF SetPk, ClearPk, OneByOne, Workers
    <3> QED
      BY <3>1
  <2>2. CASE Discover \/ ScanRead \/ ScanCommit
    BY <2>2 DEF Discover, ScanRead, ScanCommit, vars, staging
  <2> QED
    BY <2>1, <2>2
<1>4. PutHeld'
  BY <1>1, <1>2 DEF EditPursuit, PutHeld, Changing, SameCursor
<1> QED
  BY <1>1, <1>2, <1>3, <1>4, CursorKept

\* No step of the edits, of a cycle or of Oracle makes a gap behind a cursor; a failure may.
LEMMA EditPursuitStays ==
  ASSUME OneByOne, EditInv, faults = 0 => EditPursuit, [AdminNext]_allVars
  PROVE  faults' = 0 => EditPursuit'
<1> SUFFICES ASSUME faults' = 0
             PROVE  EditPursuit'
  OBVIOUS
<1>0. Callers = {} /\ TypeOK /\ faults \in Nat
  BY BoundAssumption DEF OneByOne, EditInv, TypeOK
<1>1. CASE Edit
  <2>1. EditPursuit
    BY <1>1 DEF Edit, PutRead, PutFields, PutReset, SetPk, ClearPk, Discover, ScanRead, ScanCommit, vars
  <2> QED
    BY <1>1, <2>1, PutReadKeeps, PutFieldsKeeps, PutResetKeeps, PkKeeps DEF Edit
<1>2. ASSUME Work(Loop), UNCHANGED admin PROVE EditPursuit'
  <2>1. CASE PullFails(Loop) \/ PullUnseen(Loop) \/ ReloadFails(Loop) \/ CopyUnseen(Loop)
    BY <1>0, <2>1 DEF PullFails, PullUnseen, ReloadFails, CopyUnseen
  <2>2. CASE ~(PullFails(Loop) \/ PullUnseen(Loop) \/ ReloadFails(Loop) \/ CopyUnseen(Loop))
    <3>1. EditPursuit /\ UNCHANGED faults
      BY <1>2, <2>2 DEF Work, Begin, InitCursor, Pull, InsertPulled, PullDone, Advance, Finish,
                       Reload, CreateTemp, CopyAll, LoadRow, CopyDone, SwapAll, ReloadBreaks
    <3> QED
      BY <1>0, <1>2, <2>2, <3>1, TurnKeeps, PullKeeps, InsertKeeps, ReloadKeeps, FinishKeeps DEF Work, OneByOne
  <2> QED
    BY <2>1, <2>2
<1>3. ASSUME Oracle, UNCHANGED admin PROVE EditPursuit'
  <2>1. EditPursuit
    BY <1>0, <1>3, KeysOfSrc
  <2> QED
    BY <1>0, <1>3, <2>1, OracleSound
<1>4. ASSUME Container PROVE FALSE
  BY <1>4 DEF Container, OrphanInsert, OrphanDies, StrayLoad, StrayDies, EditPursuit, Whole
<1>5. CASE Cycles
  BY <1>0, <1>2, <1>3, <1>4, <1>5 DEF Cycles, Workers
<1>6. CASE Restart
  BY <1>0, <1>6 DEF Restart, LoseCycles
<1>7. CASE UNCHANGED allVars
  <2>1. EditPursuit /\ SameCursor /\ UNCHANGED <<oracle, loaded, tgt, uniq, dup, temp, stray, cyc, orphan, cfg, put>>
    BY <1>7 DEF allVars, vars, admin, staging, SameCursor
  <2>2. PutHeld'
    BY <2>1 DEF EditPursuit, PutHeld, Changing
  <2> QED
    BY <2>1, <2>2, CursorKept
<1> QED
  BY <1>1, <1>5, <1>6, <1>7 DEF AdminNext

LEMMA EditPursuitBegins ==
  ASSUME OneByOne, AdminInit
  PROVE  EditPursuit
<1>1. InitStreaming /\ put = NoPut /\ put.pc = "idle"
  BY DEF AdminInit, NoPut
<1>2. Pursuit
  BY <1>1, PursuitInit
<1>3. PICK t \in 0..MaxTime, k \in Keys :
        /\ now = [day |-> 0, time |-> t] /\ seqGen = 1
        /\ src = {[key |-> k, day |-> Julian(0), time |-> t, seq |-> 1]}
  BY <1>1 DEF InitStreaming, StartOracle
<1>4. /\ cyc[Loop] = Idle /\ cyc[Loop].pc = "idle" /\ cyc[Loop].pending = {} /\ orphan = {}
      /\ loaded /\ ~dup /\ tgt = src /\ temp = None /\ stray = {}
  BY <1>1 DEF InitStreaming, StartCycles, Idle, Workers
<1>5. Coming = src /\ Copying /\ OneRowPerKey(src)
  BY <1>3, <1>4 DEF Coming, Aside, Copying, OneRowPerKey
<1>6. \A r \in src : r.key \in KeysOf(src)
  BY DEF KeysOf
<1>7. Gapless
  BY <1>5, <1>6 DEF Gapless, CoversBy
<1>8. \A q \in src : Stamped(q) /\ q.seq > 0
  BY <1>2, <1>3 DEF Pursuit
<1>9. Whole
  BY <1>4, <1>5, <1>6, <1>7, <1>8 DEF Whole
<1>10. CursorsFit
  BY <1>2, <1>4 DEF CursorsFit, Pursuit, CursorOK, Sound, Reached, Covers, RealMarkers
<1>11. PutHeld
  BY <1>1 DEF PutHeld, Changing
<1> QED
  BY <1>9, <1>10, <1>11 DEF EditPursuit

LEMMA EditPursuitGivesNoRowSkipped ==
  ASSUME EditInv, faults = 0 => EditPursuit
  PROVE  NoRowSkippedByEdit
<1> SUFFICES ASSUME faults = 0, put.pc = "idle", cfg.wm # None, NEW r \in src
             PROVE  \/ r.key \in KeysOf(tgt) \/ Eligible(cfg.marker, r, cfg.wm, cfg.wmTime)
                    \/ PassedOver(cfg.marker, r, cfg.wm)
  BY DEF NoRowSkippedByEdit, NoRowSkipped, NoLostRow
<1>1. Sound(cfg.marker, cfg.wm, cfg.wmTime)
  BY DEF EditPursuit, CursorsFit
<1> QED
  BY <1>1 DEF Sound, CoversBy

\* Nothing that a table streams is skipped because its watermark column was edited: with
\* one careful operator, and as long as nothing failed, a cursor that PutReset dropped and
\* InitCursor took from the target's MAX has no row behind it that the target lacks.
THEOREM NoRowSkippedByEditHolds ==
  ASSUME OneByOne
  PROVE  AdminSpec => []NoRowSkippedByEdit
<1> DEFINE Inv == EditInv /\ (faults = 0 => EditPursuit)
<1>1. AdminInit => Inv
  BY EditInvBegins, EditPursuitBegins
<1>2. Inv /\ [AdminNext]_allVars => Inv'
  BY EditInvKeeps, EditPursuitStays
<1>3. Inv => NoRowSkippedByEdit
  BY EditPursuitGivesNoRowSkipped
<1> QED
  BY <1>1, <1>2, <1>3, PTL DEF AdminSpec
=============================================================================
