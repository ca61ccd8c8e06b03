--------------------------- MODULE GatewayProofs ---------------------------
(***************************************************************************)
(* What holds of Gateway, and of the backfill that runs beside it, for     *)
(* every set of calls, administrators, models, keys and attributes.        *)
(***************************************************************************)
EXTENDS TzBackfill, TLAPS

(***************************************************************************)
(* Types.                                                                  *)
(***************************************************************************)
ModelRow ==
  [name : Names, type : {"A", "B"}, attrs : SUBSET Attrs, pk : Attrs \cup {None},
   table : Names \cup {None}, active : BOOLEAN]

KeyRow == [active : BOOLEAN, scope : Scopes]

LogLine == [status : {"success", "failed"}, model : Models \cup {None}, key : Keys \cup {None}]

\* the codes of a call that failed on its way, and of all
Failures == {400, 404, 409, 422, 500}
Codes == Failures \cup {200, 401, 403, None}

Working == {"found", "stored", "committed", "broken"}

Errors == {"scope", "model", "refused", "validation", "sql", "value", "conflict", "lookup", "attribute"}

CallState ==
  [pc : Working \cup {"new", "done"}, kind : Kinds \cup {None}, key : Keys \cup {None},
   payload : Payloads \cup {None}, raw : BOOLEAN, mid : Models \cup {None},
   model : ModelRow \cup {None}, error : Errors \cup {None}, code : Codes, lost : BOOLEAN]

AdminState ==
  [pc : {"idle", "editing", "deleting"}, mid : Models \cup {None}, key : Keys \cup {None},
   seen : ModelRow \cup {None}, unlinked : SUBSET (Calls \X Nat)]

ModelsOK == models \in [Models -> ModelRow \cup {None, Gone}]
KeysOK == keys \in [Keys -> KeyRow \cup {None, Gone}]
TablesOK == tables \in [Names -> (SUBSET Attrs) \cup {None}]
RowsOK == rows \in [Names -> SUBSET Calls]
LogsOK == logs \in [Calls -> Seq(LogLine)]
CallsOK == call \in [Calls -> CallState]
AdminsOK == admin \in [Admins -> AdminState]
PlainOK == plain \subseteq Models

GatewayTypeOK ==
  ModelsOK /\ KeysOK /\ TablesOK /\ RowsOK /\ LogsOK /\ CallsOK /\ AdminsOK /\ PlainOK

(***************************************************************************)
(* The parts of the invariant.                                             *)
(***************************************************************************)
\* an administrator's request has what its step needs
AdminReady ==
  \A a \in Admins :
    /\ admin[a].pc = "editing" => /\ admin[a].mid \in Models /\ models[admin[a].mid] # None
                                  /\ admin[a].seen \in ModelRow
    /\ admin[a].pc = "deleting" =>
         \/ admin[a].mid \in Models /\ admin[a].key = None
         \/ admin[a].mid = None /\ admin[a].key \in Keys

\* a call that has committed nothing, and one whose work alone is committed
Unwritten(c) == logs[c] = <<>> /\ ~call[c].lost /\ \A n \in Names : c \notin rows[n]

Written(c) ==
  /\ Len(logs[c]) = 1 /\ Succeeded(c)
  /\ (\E n \in Names : c \in rows[n]) <=> call[c].kind = "inbound"

\* a call between its steps: what it loaded, what it has written, and what it waits on still there
CallReady(c) ==
  /\ call[c].pc \in Working => call[c].kind \in Kinds /\ call[c].mid \in Models /\ call[c].model \in ModelRow
  /\ call[c].pc # "done" => call[c].code = None
  /\ call[c].pc \in {"new", "found", "stored"} => Unwritten(c)
  /\ call[c].pc = "committed" => Written(c) /\ ~call[c].lost
  /\ call[c].pc = "broken" => IF call[c].lost THEN Written(c) ELSE Unwritten(c)
  /\ call[c].pc = "stored" => Linked(c)
  /\ call[c].pc = "broken" => Status(call[c].kind, call[c].error) \in Failures

\* what the log says of one call
OneLine(c) ==
  /\ (\E n \in Names : c \in rows[n]) <=> (call[c].kind = "inbound" /\ Succeeded(c))
  /\ call[c].code = 200 => Len(logs[c]) = 1 /\ Succeeded(c)
  /\ Succeeded(c) /\ ~call[c].lost => call[c].code \in {200, None}
  /\ IF call[c].lost THEN Len(logs[c]) <= 2 /\ Succeeded(c) ELSE Len(logs[c]) <= 1
  /\ call[c].code \in {401, 403} => logs[c] = <<>>

\* a line's model and key are there
LineKept(c) ==
  \A i \in DOMAIN logs[c] :
    /\ logs[c][i].model # None => Live(models[logs[c][i].model])
    /\ logs[c][i].key # None => Live(keys[logs[c][i].key])

LogInv ==
  /\ GatewayTypeOK /\ AdminReady
  /\ \A c \in Calls : CallReady(c) /\ OneLine(c) /\ LineKept(c)

\* a model that made its table and kept it, and what an edit of it has seen
Fitting(row, T) ==
  /\ row.type = "A" /\ row.table = row.name
  /\ T[row.name] # None /\ row.attrs \subseteq T[row.name]

\* columns are only ever added
Grown(T, U) == \A n \in Names : T[n] # None => U[n] # None /\ T[n] \subseteq U[n]

ColumnsInv ==
  /\ \A m \in plain : models[m] # None
  /\ \A m \in plain \cap LiveModels : Fitting(models[m], tables)
  /\ \A a \in Admins : admin[a].pc = "editing" /\ admin[a].mid \in plain =>
       /\ Fitting(admin[a].seen, tables)
       /\ Live(models[admin[a].mid]) => models[admin[a].mid].name = admin[a].seen.name

(***************************************************************************)
(* Types of what the operators build.                                      *)
(***************************************************************************)
LEMMA RowIsLive == ASSUME NEW row \in ModelRow PROVE Live(row)
  BY GatewayAssumption DEF ModelRow, Live

LEMMA KeyIsLive == ASSUME NEW key \in KeyRow PROVE Live(key)
  BY GatewayAssumption DEF KeyRow, Live

LEMMA TableOfType == ASSUME NEW row \in ModelRow PROVE TableOf(row) \in Names
  BY DEF ModelRow, TableOf

LEMMA LiveModelType ==
  ASSUME ModelsOK, NEW m \in Models, Live(models[m]) PROVE models[m] \in ModelRow
  BY DEF ModelsOK, Live

LEMMA LiveKeyType ==
  ASSUME KeysOK, NEW k \in Keys, Live(keys[k]) PROVE keys[k] \in KeyRow
  BY DEF KeysOK, Live

LEMMA NewCallType == NewCall \in CallState /\ NewCall.pc = "new" /\ NewCall.code = None /\ ~NewCall.lost
  BY DEF NewCall, CallState, Codes

LEMMA AnsweredType ==
  ASSUME NEW kind \in Kinds \cup {None}, NEW code \in Codes
  PROVE  /\ Answered(kind, code) \in CallState
         /\ Answered(kind, code).pc = "done" /\ Answered(kind, code).kind = kind
         /\ Answered(kind, code).code = code /\ ~Answered(kind, code).lost
  BY DEF Answered, NewCall, CallState

LEMMA EndedType ==
  ASSUME CallsOK, NEW c \in Calls, NEW code \in Codes
  PROVE  /\ Ended(c, code) \in CallState
         /\ Ended(c, code).pc = "done" /\ Ended(c, code).kind = call[c].kind
         /\ Ended(c, code).code = code /\ Ended(c, code).lost = call[c].lost
<1>1. call[c] \in CallState
  BY DEF CallsOK
<1> DEFINE old == Answered(call[c].kind, code)
           p == IF \E n \in Names : c \in rows[n] THEN call[c].payload ELSE None
<1>2. old \in CallState /\ old.pc = "done" /\ old.kind = call[c].kind /\ old.code = code
  BY <1>1, AnsweredType DEF CallState
<1>3. p \in Payloads \cup {None} /\ call[c].lost \in BOOLEAN
  BY <1>1 DEF CallState
<1>4. Ended(c, code) = [old EXCEPT !.payload = p, !.lost = call[c].lost]
  BY DEF Ended
<1> HIDE DEF old, p
<1> QED
  BY <1>2, <1>3, <1>4 DEF CallState

LEMMA InboundFailures ==
  ASSUME NEW error \in {"refused", "validation", "sql"} PROVE Status("inbound", error) \in Failures
  BY DEF Status, InboundStatus, Failures

LEMMA ListFailures ==
  ASSUME NEW error \in {"value", "validation", "conflict", "sql"} PROVE Status("list", error) \in Failures
  BY DEF Status, ListStatus, Failures

LEMMA KeyFailures ==
  ASSUME NEW error \in {"lookup", "attribute", "value", "validation", "conflict", "sql"}
  PROVE  Status("key", error) \in Failures
  BY DEF Status, KeyStatus, Failures

LEMMA SqlFails == ASSUME NEW kind \in Kinds PROVE Status(kind, "sql") \in Failures
  BY InboundFailures, ListFailures, KeyFailures DEF Kinds

LEMMA EarlyCodes ==
  ASSUME NEW kind \in Kinds
  PROVE  Status(kind, "scope") = 403 /\ Status(kind, "model") = 404
  BY DEF Kinds, Status, InboundStatus, ListStatus, KeyStatus

\* whatever goes wrong in the work of a call has a code of its own
LEMMA OutcomesFail ==
  ASSUME NEW c \in Calls, call[c].kind \in Kinds, NEW o \in Outcomes(c), o # "ok"
  PROVE  o \in Errors /\ Status(call[c].kind, o) \in Failures
<1>1. CASE call[c].kind = "inbound"
  <2>1. o \in {"validation", "sql"}
    BY <1>1 DEF Outcomes, Insert
  <2> QED
    BY <1>1, <2>1, InboundFailures DEF Errors
<1>2. CASE call[c].kind = "list"
  <2>1. o \in {"value", "validation", "sql"}
    BY <1>2 DEF Outcomes, List, Select
  <2> QED
    BY <1>2, <2>1, ListFailures DEF Errors
<1>3. CASE call[c].kind = "key"
  <2>1. o \in {"lookup", "attribute", "value", "validation", "conflict", "sql"}
    BY <1>3 DEF Outcomes, ByKey, Select
  <2> QED
    BY <1>3, <2>1, KeyFailures DEF Errors
<1> QED
  BY <1>1, <1>2, <1>3 DEF Kinds

(***************************************************************************)
(* The steps of calls.                                                     *)
(***************************************************************************)
LEMMA OthersStay ==
  ASSUME NEW d \in Calls, CallReady(d), OneLine(d), LineKept(d), UNCHANGED <<models, keys>>,
         call'[d] = call[d], logs'[d] = logs[d], \A n \in Names : d \in rows'[n] <=> d \in rows[n]
  PROVE  CallReady(d)' /\ OneLine(d)' /\ LineKept(d)'
<1>1. Linked(d)' <=> Linked(d)
  BY DEF Linked
<1>2. Succeeded(d)' <=> Succeeded(d)
  BY DEF Succeeded
<1>3. (Unwritten(d)' <=> Unwritten(d)) /\ (Written(d)' <=> Written(d))
  BY <1>2 DEF Unwritten, Written
<1>4. CallReady(d)'
  BY <1>1, <1>3 DEF CallReady
<1>5. OneLine(d)'
  BY <1>2 DEF OneLine
<1>6. LineKept(d)'
  BY DEF LineKept
<1> QED
  BY <1>4, <1>5, <1>6

\* a call writes a line
LEMMA LineWritten ==
  ASSUME LogInv, NEW c \in Calls, call[c].pc \in Working, Linked(c), UNCHANGED <<models, keys>>,
         NEW status \in {"success", "failed"}, logs' = Logged(c, status)
  PROVE  /\ LogsOK' /\ LineKept(c)'
         /\ Len(logs[c]) \in Nat /\ Len(logs'[c]) = Len(logs[c]) + 1
         /\ Succeeded(c)' <=> (Succeeded(c) \/ status = "success")
         /\ \A d \in Calls \ {c} : logs'[d] = logs[d]
<1>1. LogsOK /\ CallsOK /\ call[c] \in CallState /\ CallReady(c) /\ LineKept(c)
  BY DEF LogInv, GatewayTypeOK, CallsOK
<1>2. call[c].mid \in Models /\ call[c].key \in Keys \cup {None}
  BY <1>1 DEF CallReady, CallState
<1> DEFINE old == logs[c]
           line == Line(c, status)
<1>3. line \in LogLine /\ old \in Seq(LogLine)
  BY <1>1, <1>2 DEF Line, LogLine, LogsOK
<1>4. line.status = status /\ line.model = call[c].mid /\ line.key = call[c].key
  BY DEF Line
<1>5. logs' = [logs EXCEPT ![c] = Append(old, line)]
  BY DEF Logged
<1> HIDE DEF old, line
<1>6. logs'[c] = Append(old, line) /\ LogsOK' /\ \A d \in Calls \ {c} : logs'[d] = logs[d]
  BY <1>1, <1>3, <1>5 DEF LogsOK
<1>7. /\ Len(old) \in Nat /\ Len(logs'[c]) = Len(old) + 1
      /\ DOMAIN old = 1..Len(old) /\ DOMAIN logs'[c] = 1..(Len(old) + 1)
      /\ \A i \in 1..Len(old) : logs'[c][i] = old[i]
      /\ logs'[c][Len(old) + 1] = line
  BY <1>3, <1>6
<1>8. \A i \in DOMAIN logs'[c] : (i \in DOMAIN old /\ logs'[c][i] = old[i]) \/ logs'[c][i] = line
  BY <1>7
<1>9. LineKept(c)'
  <2>1. \A i \in DOMAIN old : /\ old[i].model # None => Live(models[old[i].model])
                              /\ old[i].key # None => Live(keys[old[i].key])
    BY <1>1 DEF LineKept, old
  <2>2. Live(models[line.model]) /\ (line.key # None => Live(keys[line.key]))
    BY <1>4 DEF Linked
  <2> QED
    BY <1>8, <2>1, <2>2 DEF LineKept
<1>10. Succeeded(c) <=> \E i \in DOMAIN old : old[i].status = "success"
  BY DEF Succeeded, old
<1>11. Succeeded(c)' <=> \E i \in DOMAIN logs'[c] : logs'[c][i].status = "success"
  BY DEF Succeeded
<1>12. Succeeded(c)' <=> (Succeeded(c) \/ status = "success")
  <2>1. Succeeded(c) => Succeeded(c)'
    BY <1>7, <1>10, <1>11
  <2>2. status = "success" => Succeeded(c)'
    BY <1>4, <1>7, <1>11
  <2>3. Succeeded(c)' => Succeeded(c) \/ status = "success"
    BY <1>4, <1>8, <1>10, <1>11
  <2> QED
    BY <2>1, <2>2, <2>3
<1> QED
  BY <1>6, <1>7, <1>9, <1>12 DEF old

\* a call that has committed nothing moves on, or is answered without a line
LEMMA NothingWritten ==
  ASSUME LogInv, NEW c \in Calls, Unwritten(c), UNCHANGED <<models, keys, rows, logs>>,
         NEW new \in CallState, call' = [call EXCEPT ![c] = new], new.code # 200, ~new.lost,
         new.pc # "committed", new.pc # "done" => new.code = None,
         new.pc \in Working => new.kind \in Kinds /\ new.mid \in Models /\ new.model \in ModelRow,
         new.pc = "broken" => Status(new.kind, new.error) \in Failures,
         new.pc = "stored" => /\ Live(models[new.mid])
                              /\ new.key # None => Live(keys[new.key])
  PROVE  CallsOK' /\ CallReady(c)' /\ OneLine(c)' /\ LineKept(c)'
<1>1. CallsOK /\ call[c] \in CallState
  BY DEF LogInv, GatewayTypeOK, CallsOK
<1>2. call'[c] = new /\ CallsOK'
  BY <1>1 DEF CallsOK
<1>3. logs'[c] = <<>> /\ Unwritten(c)'
  BY <1>2 DEF Unwritten
<1>4. Linked(c)' <=> Live(models[new.mid]) /\ (new.key # None => Live(keys[new.key]))
  BY <1>2 DEF Linked
<1>5. CallReady(c)'
  BY <1>2, <1>3, <1>4 DEF CallReady
<1>6. ~Succeeded(c)' /\ Len(logs'[c]) = 0
  BY <1>3 DEF Succeeded
<1>7. OneLine(c)'
  BY <1>2, <1>3, <1>6 DEF OneLine, Unwritten
<1>8. LineKept(c)'
  BY <1>3 DEF LineKept
<1> QED
  BY <1>2, <1>5, <1>7, <1>8

LEMMA ServeRest ==
  ASSUME LogInv, UNCHANGED <<models, keys, tables, admin, plain>>, RowsOK', LogsOK', CallsOK',
         \A d \in Calls : CallReady(d)' /\ OneLine(d)' /\ LineKept(d)'
  PROVE  LogInv'
<1>1. GatewayTypeOK'
  BY DEF LogInv, GatewayTypeOK, ModelsOK, KeysOK, TablesOK, AdminsOK, PlainOK
<1>2. AdminReady'
  BY DEF LogInv, AdminReady
<1> QED
  BY <1>1, <1>2 DEF LogInv

LEMMA ReceiveKeeps == ASSUME LogInv, NEW c \in Calls, Receive(c) PROVE LogInv'
<1>0. UNCHANGED <<models, keys, tables, rows, logs, admin, plain>> /\ call[c].pc = "new"
  BY DEF Receive, data, At
<1>1. ModelsOK /\ KeysOK /\ CallsOK /\ RowsOK /\ LogsOK /\ Unwritten(c)
  BY <1>0 DEF LogInv, GatewayTypeOK, CallReady
<1>2. PICK kind \in Kinds, token \in BOOLEAN, key \in Keys \cup {None}, n \in Names, p \in Payloads, raw \in BOOLEAN :
        call' = [call EXCEPT ![c] = Received(kind, token, key, n, p, raw)]
  BY DEF Receive
<1> DEFINE caller == Caller(token, key)
           found == {m \in LiveModels : models[m].name = n /\ models[m].active}
           mm == CHOOSE m \in found : TRUE
           loaded == [NewCall EXCEPT !.pc = "found", !.kind = kind, !.key = caller.key,
                          !.payload = p, !.raw = raw /\ models[mm].type = "B", !.mid = mm, !.model = models[mm]]
           new == IF caller = None THEN Answered(kind, 401)
              ELSE IF ~InScope(caller, kind, n) THEN Answered(kind, Status(kind, "scope"))
              ELSE IF found = {} THEN Answered(kind, Status(kind, "model"))
              ELSE loaded
<1>3. call' = [call EXCEPT ![c] = new]
  BY <1>2 DEF Received
<1>4. caller # None => caller.key \in Keys \cup {None}
  BY DEF Caller
<1>5. found # {} => mm \in Models /\ models[mm] \in ModelRow
  <2>1. found # {} => mm \in found
    OBVIOUS
  <2>2. found # {} => mm \in Models /\ Live(models[mm])
    BY <2>1 DEF LiveModels
  <2> QED
    BY <2>2, <1>1, LiveModelType
<1>6. caller # None /\ found # {} =>
        /\ loaded \in CallState /\ loaded.pc = "found" /\ loaded.kind = kind /\ loaded.code = None
        /\ loaded.mid = mm /\ loaded.model = models[mm] /\ ~loaded.lost
  BY <1>4, <1>5, NewCallType DEF CallState, Working, NewCall
<1>7. \A code \in {401, 403, 404} :
        /\ Answered(kind, code) \in CallState /\ Answered(kind, code).pc = "done"
        /\ Answered(kind, code).code = code /\ ~Answered(kind, code).lost
  BY AnsweredType DEF Codes, Failures
<1>8. \/ new \in CallState /\ new.pc = "done" /\ new.code \in {401, 403, 404} /\ ~new.lost
      \/ caller # None /\ found # {} /\ new = loaded
  BY <1>7, EarlyCodes
<1> HIDE DEF loaded
<1>9. new.code # 200
  <2>1. None # 200
    BY GatewayAssumption
  <2> HIDE DEF new
  <2> QED
    BY <1>6, <1>8, <2>1
<1> HIDE DEF new, loaded
<1>10. CallsOK' /\ CallReady(c)' /\ OneLine(c)' /\ LineKept(c)'
  <2>1. new \in CallState
    BY <1>6, <1>8
  <2>2. new.pc \in {"done", "found"} /\ (new.pc # "done" => new.code = None) /\ ~new.lost
    BY <1>6, <1>8
  <2>3. new.pc \in Working => new.kind \in Kinds /\ new.mid \in Models /\ new.model \in ModelRow
    BY <1>5, <1>6, <1>8 DEF Working
  <2> QED
    BY <1>0, <1>1, <1>3, <1>9, <2>1, <2>2, <2>3, NothingWritten
<1>11. \A d \in Calls \ {c} : CallReady(d)' /\ OneLine(d)' /\ LineKept(d)'
  <2> TAKE d \in Calls \ {c}
  <2>1. call'[d] = call[d]
    BY <1>1, <1>3 DEF CallsOK
  <2>2. CallReady(d) /\ OneLine(d) /\ LineKept(d)
    BY DEF LogInv
  <2> QED
    BY <1>0, <2>1, <2>2, OthersStay
<1>12. RowsOK' /\ LogsOK'
  BY <1>0, <1>1 DEF RowsOK, LogsOK
<1> QED
  BY <1>0, <1>10, <1>11, <1>12, ServeRest

LEMMA FailureToldKeeps ==
  ASSUME LogInv, NEW c \in Calls, call[c].pc \in {"found", "broken"},
         NEW error, Status(call[c].kind, error) \in Failures,
         FailureTold(c, error), UNCHANGED <<models, keys, tables, rows, admin, plain>>
  PROVE  LogInv'
<1>1. /\ CallsOK /\ RowsOK /\ LogsOK /\ call[c].kind \in Kinds /\ CallReady(c) /\ OneLine(c) /\ LineKept(c)
      /\ call[c].pc \in Working
  BY DEF LogInv, GatewayTypeOK, CallReady, Working
<1>2. PICK written \in BOOLEAN, known \in BOOLEAN :
        /\ written => Linked(c)
        /\ logs' = IF written THEN Logged(c, "failed") ELSE logs
        /\ call' = [call EXCEPT ![c] = Ended(c, Status(@.kind, IF known THEN error ELSE "sql"))]
  BY DEF FailureTold
<1> DEFINE code == Status(call[c].kind, IF known THEN error ELSE "sql")
           new == Ended(c, code)
<1>3. code \in Failures /\ Status(call[c].kind, "sql") \in Failures
  BY <1>1, SqlFails
<1>4. call' = [call EXCEPT ![c] = new]
  BY <1>2
<1> HIDE DEF code
<1>5. /\ new \in CallState /\ new.pc = "done" /\ new.kind = call[c].kind /\ new.lost = call[c].lost
      /\ new.code \notin {None, 200, 401, 403}
  <2>1. code \in Codes /\ code \notin {200, 401, 403}
    BY <1>3 DEF Codes, Failures
  <2>2. None \notin Failures
    BY GatewayAssumption DEF Failures
  <2> QED
    BY <1>1, <1>3, <2>1, <2>2, EndedType
<1> HIDE DEF new
<1>6. call'[c] = new /\ CallsOK' /\ \A d \in Calls \ {c} : call'[d] = call[d]
  BY <1>1, <1>4, <1>5 DEF CallsOK
<1>7. IF call[c].lost THEN Written(c) ELSE Unwritten(c)
  BY <1>1 DEF CallReady, Unwritten
<1>8. /\ LogsOK' /\ LineKept(c)' /\ (Succeeded(c)' <=> Succeeded(c))
      /\ Len(logs[c]) \in Nat /\ Len(logs'[c]) \in {Len(logs[c]), Len(logs[c]) + 1}
      /\ \A d \in Calls \ {c} : logs'[d] = logs[d]
  <2>1. CASE written
    BY <1>1, <1>2, <2>1, LineWritten
  <2>2. CASE ~written
    BY <1>1, <1>2, <2>2 DEF LogsOK, LineKept, Succeeded
  <2> QED
    BY <2>1, <2>2
<1>9. CallReady(c)'
  BY <1>5, <1>6 DEF CallReady, Working
<1>10. OneLine(c)'
  <2>1. /\ call'[c].kind = call[c].kind /\ call'[c].lost = call[c].lost
        /\ call'[c].code \notin {200, 401, 403}
    BY <1>5, <1>6
  <2>2. (\E n \in Names : c \in rows'[n]) <=> (call'[c].kind = "inbound" /\ Succeeded(c)')
    BY <1>1, <1>8, <2>1 DEF OneLine
  <2>3. Succeeded(c)' /\ ~call'[c].lost => call'[c].code \in {200, None}
    BY <1>7, <1>8, <2>1 DEF Unwritten, Succeeded
  <2>4. IF call'[c].lost THEN Len(logs'[c]) <= 2 /\ Succeeded(c)' ELSE Len(logs'[c]) <= 1
    <3>1. IF call[c].lost THEN Len(logs[c]) = 1 /\ Succeeded(c) ELSE Len(logs[c]) = 0
      BY <1>7 DEF Unwritten, Written
    <3>2. Len(logs'[c]) <= Len(logs[c]) + 1
      BY <1>8
    <3>3. CASE call[c].lost
      <4>1. Len(logs[c]) = 1 /\ Succeeded(c)
        BY <3>1, <3>3
      <4>2. Succeeded(c)'
        BY <1>8, <4>1, Zenon
      <4>3. Len(logs'[c]) <= 2
        <5>1. Len(logs[c]) = 1 /\ Len(logs'[c]) \in {1, 2}
          BY <1>8, <4>1
        <5>2. \A n \in {1, 2} : n <= 2
          OBVIOUS
        <5> QED
          BY <5>1, <5>2, Zenon
      <4> QED
        BY <2>1, <3>3, <4>2, <4>3
    <3>4. CASE ~call[c].lost
      BY <1>8, <2>1, <3>1, <3>2, <3>4
    <3> QED
      BY <3>3, <3>4
  <2> QED
    BY <2>1, <2>2, <2>3, <2>4 DEF OneLine
<1>11. \A d \in Calls \ {c} : CallReady(d)' /\ OneLine(d)' /\ LineKept(d)'
  <2> TAKE d \in Calls \ {c}
  <2>1. call'[d] = call[d] /\ logs'[d] = logs[d]
    BY <1>6, <1>8
  <2>2. CallReady(d) /\ OneLine(d) /\ LineKept(d)
    BY DEF LogInv
  <2> QED
    BY <2>1, <2>2, OthersStay
<1>12. RowsOK'
  BY <1>1 DEF RowsOK
<1> QED
  BY <1>6, <1>8, <1>9, <1>10, <1>11, <1>12, ServeRest

LEMMA RefuseKeeps == ASSUME LogInv, NEW c \in Calls, Refuse(c) PROVE LogInv'
<1>1. call[c].pc = "found" /\ Status(call[c].kind, "refused") \in Failures
  BY InboundFailures DEF Refuse, At, Refused
<1> QED
  BY <1>1, FailureToldKeeps DEF Refuse

LEMMA FailKeeps == ASSUME LogInv, NEW c \in Calls, Fail(c) PROVE LogInv'
<1>1. call[c].pc = "broken" /\ Status(call[c].kind, call[c].error) \in Failures
  BY DEF Fail, At, LogInv, CallReady
<1> QED
  BY <1>1, FailureToldKeeps DEF Fail

LEMMA WorkKeeps == ASSUME LogInv, NEW c \in Calls, Work(c) PROVE LogInv'
<1>0. UNCHANGED <<models, keys, tables, rows, logs, admin, plain>> /\ call[c].pc = "found"
  BY DEF Work, data, At
<1>1. CallsOK /\ RowsOK /\ LogsOK /\ call[c] \in CallState /\ CallReady(c)
  BY DEF LogInv, GatewayTypeOK, CallsOK
<1>2. /\ call[c].kind \in Kinds /\ call[c].mid \in Models /\ call[c].model \in ModelRow /\ call[c].code = None
      /\ Unwritten(c)
  BY <1>0, <1>1 DEF CallReady, Working
<1>3. PICK o \in Outcomes(c) :
        LET error == IF o = "ok" /\ ~Linked(c) THEN "sql" ELSE o
        IN  call' = [call EXCEPT ![c].pc = IF error = "ok" THEN "stored" ELSE "broken",
                                 ![c].error = IF error = "ok" THEN None ELSE error]
  BY DEF Work
<1> DEFINE error == IF o = "ok" /\ ~Linked(c) THEN "sql" ELSE o
           new == [call[c] EXCEPT !.pc = IF error = "ok" THEN "stored" ELSE "broken",
                                  !.error = IF error = "ok" THEN None ELSE error]
<1>4. error = "ok" \/ (error \in Errors /\ Status(call[c].kind, error) \in Failures)
  BY <1>2, OutcomesFail, SqlFails DEF Errors
<1>5. error = "ok" => Linked(c)
  OBVIOUS
<1> HIDE DEF error
<1>6. call' = [call EXCEPT ![c] = new]
  BY <1>1, <1>3 DEF CallsOK, error
<1>7. /\ new \in CallState /\ new.kind = call[c].kind /\ new.mid = call[c].mid /\ new.model = call[c].model
      /\ new.key = call[c].key /\ new.code = None /\ new.lost = call[c].lost
      /\ new.pc = IF error = "ok" THEN "stored" ELSE "broken"
      /\ error # "ok" => new.error = error
  <2> DEFINE pc == IF error = "ok" THEN "stored" ELSE "broken"
             told == IF error = "ok" THEN None ELSE error
  <2>1. pc \in Working /\ told \in Errors \cup {None} /\ new = [call[c] EXCEPT !.pc = pc, !.error = told]
    BY <1>4 DEF Working
  <2> HIDE DEF pc, told, new
  <2>2. new \in CallState /\ new.pc = pc /\ new.error = told
    BY <1>1, <2>1 DEF CallState
  <2>3. /\ new.kind = call[c].kind /\ new.mid = call[c].mid /\ new.model = call[c].model
        /\ new.key = call[c].key /\ new.code = call[c].code /\ new.lost = call[c].lost
    BY <1>1, <2>1 DEF CallState
  <2> QED
    BY <1>2, <2>2, <2>3 DEF pc, told
<1>8. None # 200
  BY GatewayAssumption
<1>9. new.pc = "stored" => Live(models[new.mid]) /\ (new.key # None => Live(keys[new.key]))
  BY <1>5, <1>7 DEF Linked
<1>13. ~new.lost /\ new.pc # "committed" /\ new.pc # "done"
  BY <1>2, <1>7 DEF Unwritten
<1> HIDE DEF new
<1>10. CallsOK' /\ CallReady(c)' /\ OneLine(c)' /\ LineKept(c)'
  BY <1>13, <1>0, <1>2, <1>4, <1>6, <1>7, <1>8, <1>9, NothingWritten
<1>11. \A d \in Calls \ {c} : CallReady(d)' /\ OneLine(d)' /\ LineKept(d)'
  <2> TAKE d \in Calls \ {c}
  <2>1. call'[d] = call[d]
    BY <1>1, <1>6 DEF CallsOK
  <2>2. CallReady(d) /\ OneLine(d) /\ LineKept(d)
    BY DEF LogInv
  <2> QED
    BY <1>0, <2>1, <2>2, OthersStay
<1>12. RowsOK' /\ LogsOK'
  BY <1>0, <1>1 DEF RowsOK, LogsOK
<1> QED
  BY <1>0, <1>10, <1>11, <1>12, ServeRest

LEMMA CommittedKeeps ==
  ASSUME LogInv, NEW c \in Calls, call[c].pc = "stored", Committed(c), NEW new \in CallState,
         call' = [call EXCEPT ![c] = new], UNCHANGED <<models, keys, tables, admin, plain>>,
         new.kind = call[c].kind, new.mid = call[c].mid, new.model = call[c].model, new.code = None,
         \/ new.pc = "committed" /\ ~new.lost
         \/ new.pc = "broken" /\ new.lost /\ Status(new.kind, new.error) \in Failures
  PROVE  LogInv'
<1>1. /\ CallsOK /\ RowsOK /\ LogsOK /\ call[c] \in CallState /\ CallReady(c) /\ call[c].pc \in Working
      /\ call[c].kind \in Kinds /\ call[c].mid \in Models /\ call[c].model \in ModelRow
      /\ Linked(c) /\ Unwritten(c)
  BY DEF LogInv, GatewayTypeOK, CallsOK, CallReady, Working
<1> DEFINE table == TableOf(call[c].model)
<1>2. /\ rows' = IF call[c].kind = "inbound" THEN [rows EXCEPT ![table] = @ \cup {c}] ELSE rows
      /\ logs' = Logged(c, "success")
  BY DEF Committed
<1>3. table \in Names
  BY <1>1, TableOfType
<1> HIDE DEF table
<1>4. RowsOK' /\ \A d \in Calls \ {c}, n \in Names : d \in rows'[n] <=> d \in rows[n]
  BY <1>1, <1>2, <1>3 DEF RowsOK
<1>5. (\E n \in Names : c \in rows'[n]) <=> call[c].kind = "inbound"
  BY <1>1, <1>2, <1>3 DEF RowsOK, Unwritten
<1>6. call'[c] = new /\ CallsOK' /\ \A d \in Calls \ {c} : call'[d] = call[d]
  BY <1>1 DEF CallsOK
<1>7. /\ LogsOK' /\ LineKept(c)' /\ Succeeded(c)' /\ Len(logs'[c]) = 1
      /\ \A d \in Calls \ {c} : logs'[d] = logs[d]
  <2>1. Len(logs[c]) = 0
    BY <1>1 DEF Unwritten
  <2>2. /\ LogsOK' /\ LineKept(c)' /\ Len(logs'[c]) = Len(logs[c]) + 1 /\ Succeeded(c)'
        /\ \A d \in Calls \ {c} : logs'[d] = logs[d]
    <3>1. call[c].pc \in Working /\ Linked(c) /\ UNCHANGED <<models, keys>> /\ logs' = Logged(c, "success")
      BY <1>1, <1>2
    <3> HIDE DEF table
    <3> QED
      BY <3>1, LineWritten
  <2> QED
    BY <2>1, <2>2
<1>8. Written(c)'
  BY <1>5, <1>6, <1>7 DEF Written
<1>9. CallReady(c)'
  BY <1>1, <1>6, <1>8 DEF CallReady
<1>10. OneLine(c)'
  <2>1. None \notin {200, 401, 403}
    BY GatewayAssumption
  <2> QED
    BY <1>5, <1>6, <1>7, <2>1 DEF OneLine
<1>11. \A d \in Calls \ {c} : CallReady(d)' /\ OneLine(d)' /\ LineKept(d)'
  <2> TAKE d \in Calls \ {c}
  <2>1. CallReady(d) /\ OneLine(d) /\ LineKept(d)
    BY DEF LogInv
  <2> QED
    BY <1>4, <1>6, <1>7, <2>1, OthersStay
<1> QED
  BY <1>4, <1>6, <1>7, <1>9, <1>10, <1>11, ServeRest

LEMMA CommitKeeps == ASSUME LogInv, NEW c \in Calls, Commit(c) PROVE LogInv'
<1> DEFINE new == [call[c] EXCEPT !.pc = "committed"]
<1>1. CallsOK /\ call[c] \in CallState /\ call[c].pc = "stored" /\ call[c].code = None /\ ~call[c].lost
  BY DEF Commit, At, LogInv, GatewayTypeOK, CallsOK, CallReady, Unwritten
<1>2. /\ new \in CallState /\ new.pc = "committed" /\ ~new.lost /\ new.code = None
      /\ new.kind = call[c].kind /\ new.mid = call[c].mid /\ new.model = call[c].model
  BY <1>1 DEF CallState, Working
<1>3. call' = [call EXCEPT ![c] = new] /\ Committed(c) /\ UNCHANGED <<models, keys, tables, admin, plain>>
  BY <1>1 DEF Commit, CallsOK
<1> HIDE DEF new
<1> QED
  BY <1>1, <1>2, <1>3, CommittedKeeps

LEMMA CommitBreaksKeeps == ASSUME LogInv, NEW c \in Calls, CommitBreaks(c) PROVE LogInv'
<1>1. /\ CallsOK /\ RowsOK /\ LogsOK /\ call[c] \in CallState /\ call[c].pc = "stored" /\ call[c].code = None
      /\ call[c].kind \in Kinds /\ call[c].mid \in Models /\ call[c].model \in ModelRow /\ Unwritten(c)
      /\ UNCHANGED <<models, keys, tables, admin, plain>>
  BY DEF CommitBreaks, At, LogInv, GatewayTypeOK, CallsOK, CallReady, Working
<1>2. PICK lost \in BOOLEAN :
        /\ IF lost THEN Committed(c) ELSE UNCHANGED <<rows, logs>>
        /\ call' = [call EXCEPT ![c].pc = "broken", ![c].error = "sql", ![c].lost = lost]
  BY DEF CommitBreaks
<1> DEFINE new == [call[c] EXCEPT !.pc = "broken", !.error = "sql", !.lost = lost]
<1>3. call' = [call EXCEPT ![c] = new]
  BY <1>1, <1>2 DEF CallsOK
<1>4. /\ new \in CallState /\ new.pc = "broken" /\ new.lost = lost /\ new.code = None /\ new.error = "sql"
      /\ new.kind = call[c].kind /\ new.mid = call[c].mid /\ new.model = call[c].model
  BY <1>1 DEF CallState, Working, Errors
<1>5. Status(new.kind, new.error) \in Failures
  BY <1>1, <1>4, SqlFails
<1> HIDE DEF new
<1>6. CASE lost
  BY <1>1, <1>2, <1>3, <1>4, <1>5, <1>6, CommittedKeeps
<1>7. CASE ~lost
  <2>1. UNCHANGED <<models, keys, rows, logs>> /\ None # 200
    BY <1>1, <1>2, <1>7, GatewayAssumption
  <2>2. CallsOK' /\ CallReady(c)' /\ OneLine(c)' /\ LineKept(c)'
    BY <1>1, <1>3, <1>4, <1>5, <1>7, <2>1, NothingWritten
  <2>3. \A d \in Calls \ {c} : CallReady(d)' /\ OneLine(d)' /\ LineKept(d)'
    <3> TAKE d \in Calls \ {c}
    <3>1. call'[d] = call[d]
      BY <1>1, <1>3 DEF CallsOK
    <3>2. CallReady(d) /\ OneLine(d) /\ LineKept(d)
      BY DEF LogInv
    <3> QED
      BY <2>1, <3>1, <3>2, OthersStay
  <2>4. RowsOK' /\ LogsOK'
    BY <1>1, <2>1 DEF RowsOK, LogsOK
  <2> QED
    BY <1>1, <2>2, <2>3, <2>4, ServeRest
<1> QED
  BY <1>6, <1>7

\* a call that ends on what it has written: it is answered, or the backend ends
LEMMA EndKeeps ==
  ASSUME LogInv, NEW c \in Calls, call[c].pc \in Working, UNCHANGED <<models, keys, rows, logs>>,
         NEW code \in {200, None}, code = 200 => call[c].pc = "committed", call'[c] = Ended(c, code)
  PROVE  call'[c] \in CallState /\ CallReady(c)' /\ OneLine(c)' /\ LineKept(c)'
<1>1. CallsOK /\ CallReady(c) /\ OneLine(c) /\ LineKept(c)
  BY DEF LogInv, GatewayTypeOK
<1> DEFINE new == Ended(c, code)
<1>2. /\ new \in CallState /\ new.pc = "done" /\ new.kind = call[c].kind
      /\ new.code = code /\ new.lost = call[c].lost
  BY <1>1, EndedType DEF Codes
<1>3. call'[c] = new
  OBVIOUS
<1> HIDE DEF new
<1>4. Succeeded(c)' <=> Succeeded(c)
  BY DEF Succeeded
<1>5. code = 200 => Len(logs[c]) = 1 /\ Succeeded(c) /\ ~call[c].lost
  BY <1>1 DEF CallReady, Written
<1>6. None \notin {401, 403}
  BY GatewayAssumption
<1>7. CallReady(c)'
  BY <1>2, <1>3 DEF CallReady, Working
<1>8. OneLine(c)'
  BY <1>1, <1>2, <1>3, <1>4, <1>5, <1>6 DEF OneLine
<1>9. LineKept(c)'
  BY <1>1 DEF LineKept
<1> QED
  BY <1>2, <1>3, <1>7, <1>8, <1>9

LEMMA AnswerKeeps == ASSUME LogInv, NEW c \in Calls, Answer(c) PROVE LogInv'
<1>1. /\ CallsOK /\ RowsOK /\ LogsOK /\ call[c].pc = "committed" /\ call[c].pc \in Working
      /\ UNCHANGED <<models, keys, tables, rows, logs, admin, plain>>
      /\ call' = [call EXCEPT ![c] = Ended(c, 200)]
  BY DEF Answer, At, Working, data, LogInv, GatewayTypeOK
<1>2. call'[c] = Ended(c, 200) /\ \A d \in Calls \ {c} : call'[d] = call[d]
  BY <1>1 DEF CallsOK
<1>3. call'[c] \in CallState /\ CallReady(c)' /\ OneLine(c)' /\ LineKept(c)'
  BY <1>1, <1>2, EndKeeps
<1>4. \A d \in Calls \ {c} : CallReady(d)' /\ OneLine(d)' /\ LineKept(d)'
  <2> TAKE d \in Calls \ {c}
  <2>1. CallReady(d) /\ OneLine(d) /\ LineKept(d)
    BY DEF LogInv
  <2> QED
    BY <1>1, <1>2, <2>1, OthersStay
<1>5. RowsOK' /\ LogsOK' /\ CallsOK'
  BY <1>1, <1>2, <1>3 DEF RowsOK, LogsOK, CallsOK
<1> QED
  BY <1>1, <1>3, <1>4, <1>5, ServeRest

(***************************************************************************)
(* The steps of administrators.                                            *)
(***************************************************************************)
\* nothing that is there goes, and no call moves
LEMMA CallsStay ==
  ASSUME LogInv, UNCHANGED <<rows, logs, call>>,
         \A m \in Models : Live(models[m]) => Live(models'[m]),
         \A k \in Keys : Live(keys[k]) => Live(keys'[k])
  PROVE  /\ RowsOK' /\ LogsOK' /\ CallsOK'
         /\ \A d \in Calls : CallReady(d)' /\ OneLine(d)' /\ LineKept(d)'
<1>1. RowsOK' /\ LogsOK' /\ CallsOK'
  BY DEF LogInv, GatewayTypeOK, RowsOK, LogsOK, CallsOK
<1>2. ASSUME NEW d \in Calls PROVE CallReady(d)' /\ OneLine(d)' /\ LineKept(d)'
  <2>1. CallReady(d) /\ OneLine(d) /\ LineKept(d) /\ call[d] \in CallState /\ logs[d] \in Seq(LogLine)
    BY DEF LogInv, GatewayTypeOK, CallsOK, LogsOK
  <2>2. CallReady(d)'
    <3>1. call[d].pc = "stored" => Linked(d)'
      <4>1. call[d].pc = "stored" => call[d].mid \in Models /\ call[d].key \in Keys \cup {None} /\ Linked(d)
        BY <2>1 DEF CallReady, Working, CallState
      <4> QED
        BY <4>1 DEF Linked
    <3> QED
      BY <2>1, <3>1 DEF CallReady, Unwritten, Written, Succeeded
  <2>3. OneLine(d)'
    BY <2>1 DEF OneLine, Succeeded
  <2>4. LineKept(d)'
    <3> SUFFICES ASSUME NEW i \in DOMAIN logs[d]
                 PROVE  /\ logs[d][i].model # None => Live(models'[logs[d][i].model])
                        /\ logs[d][i].key # None => Live(keys'[logs[d][i].key])
      BY DEF LineKept
    <3>1. logs[d][i] \in LogLine
      BY <2>1
    <3>2. logs[d][i].model \in Models \cup {None} /\ logs[d][i].key \in Keys \cup {None}
      BY <3>1 DEF LogLine
    <3> QED
      BY <2>1, <3>2 DEF LineKept
  <2> QED
    BY <2>2, <2>3, <2>4
<1> QED
  BY <1>1, <1>2

LEMMA Assemble ==
  ASSUME ModelsOK', KeysOK', TablesOK', RowsOK', LogsOK', CallsOK', AdminsOK', PlainOK', AdminReady',
         \A d \in Calls : CallReady(d)' /\ OneLine(d)' /\ LineKept(d)'
  PROVE  LogInv'
  BY DEF LogInv, GatewayTypeOK

LEMMA NewModelType ==
  ASSUME NEW n \in Names, NEW d \in Definitions
  PROVE  /\ NewModel(n, d) \in ModelRow
         /\ d.type = "A" => NewModel(n, d).type = "A" /\ NewModel(n, d).table = n
         /\ NewModel(n, d).name = n /\ NewModel(n, d).attrs = d.attrs
<1>1. d \in [type : {"A", "B"}, attrs : SUBSET Attrs, pk : Attrs \cup {None}]
  BY GatewayAssumption
<1> QED
  BY <1>1 DEF NewModel, ModelRow

LEMMA CreateModelKeeps ==
  ASSUME LogInv, NEW m \in Models, NEW n \in Names, NEW d \in Definitions, CreateModel(m, n, d) PROVE LogInv'
<1>1. /\ ModelsOK /\ KeysOK /\ TablesOK /\ AdminsOK /\ PlainOK /\ AdminReady
      /\ models' = [models EXCEPT ![m] = NewModel(n, d)] /\ models[m] = None
      /\ UNCHANGED <<keys, rows, logs, call, admin>>
      /\ plain' \in {plain, plain \cup {m}}
  BY DEF LogInv, GatewayTypeOK, CreateModel
<1>2. NewModel(n, d) \in ModelRow /\ Live(NewModel(n, d))
  BY NewModelType, RowIsLive
<1>3. ModelsOK' /\ KeysOK' /\ AdminsOK' /\ PlainOK'
  BY <1>1, <1>2 DEF ModelsOK, KeysOK, AdminsOK, PlainOK
<1>4. TablesOK'
  <2>1. d.attrs \in SUBSET Attrs
    BY GatewayAssumption
  <2> QED
    BY <1>1, <2>1 DEF CreateModel, TablesOK
<1>5. \A o \in Models : Live(models[o]) => Live(models'[o])
  BY <1>1, <1>2 DEF ModelsOK
<1>6. AdminReady'
  BY <1>1, <1>2 DEF AdminReady, ModelsOK, Live
<1> QED
  BY <1>1, <1>3, <1>4, <1>5, <1>6, CallsStay, Assemble

LEMMA DeactivateKeeps == ASSUME LogInv, NEW m \in Models, Deactivate(m) PROVE LogInv'
<1>1. /\ ModelsOK /\ KeysOK /\ TablesOK /\ AdminsOK /\ PlainOK /\ AdminReady
      /\ models' = [models EXCEPT ![m].active = FALSE] /\ Live(models[m])
      /\ UNCHANGED <<keys, tables, rows, logs, call, admin, plain>>
  BY DEF LogInv, GatewayTypeOK, Deactivate, LiveModels
<1> DEFINE new == [models[m] EXCEPT !.active = FALSE]
<1>2. new \in ModelRow
  BY <1>1, LiveModelType DEF ModelRow
<1>3. Live(new) /\ models' = [models EXCEPT ![m] = new]
  BY <1>1, <1>2, RowIsLive
<1> HIDE DEF new
<1>4. ModelsOK' /\ KeysOK' /\ TablesOK' /\ AdminsOK' /\ PlainOK'
  BY <1>1, <1>2, <1>3 DEF ModelsOK, KeysOK, TablesOK, AdminsOK, PlainOK
<1>5. \A o \in Models : Live(models[o]) => Live(models'[o])
  BY <1>1, <1>3 DEF ModelsOK
<1>6. AdminReady'
  BY <1>1, <1>3 DEF AdminReady, ModelsOK, Live
<1> QED
  BY <1>1, <1>4, <1>5, <1>6, CallsStay, Assemble

LEMMA AdminMoves ==
  ASSUME LogInv, UNCHANGED <<data, call, plain>>, NEW a \in Admins, NEW new \in AdminState,
         admin' = [admin EXCEPT ![a] = new],
         new.pc = "editing" => new.mid \in Models /\ models[new.mid] # None /\ new.seen \in ModelRow,
         new.pc = "deleting" => \/ new.mid \in Models /\ new.key = None
                                \/ new.mid = None /\ new.key \in Keys
  PROVE  LogInv'
<1>1. /\ ModelsOK /\ KeysOK /\ TablesOK /\ AdminsOK /\ PlainOK /\ AdminReady
      /\ UNCHANGED <<models, keys, tables, rows, logs, call, plain>>
  BY DEF LogInv, GatewayTypeOK, data
<1>2. ModelsOK' /\ KeysOK' /\ TablesOK' /\ AdminsOK' /\ PlainOK'
  BY <1>1 DEF ModelsOK, KeysOK, TablesOK, AdminsOK, PlainOK
<1>3. AdminReady'
  BY <1>1 DEF AdminReady, AdminsOK
<1> QED
  BY <1>1, <1>2, <1>3, CallsStay, Assemble

LEMMA IdleAdminType == IdleAdmin \in AdminState /\ IdleAdmin.pc = "idle"
  BY DEF IdleAdmin, AdminState

LEMMA EditBeginsKeeps ==
  ASSUME LogInv, NEW a \in Admins, NEW m \in Models, EditBegins(a, m) PROVE LogInv'
<1> DEFINE new == [IdleAdmin EXCEPT !.pc = "editing", !.mid = m, !.seen = models[m]]
<1>1. /\ UNCHANGED <<data, call, plain>> /\ admin' = [admin EXCEPT ![a] = new]
      /\ Live(models[m]) /\ ModelsOK
  BY DEF EditBegins, LiveModels, LogInv, GatewayTypeOK
<1>2. models[m] \in ModelRow /\ models[m] # None
  BY <1>1, LiveModelType DEF Live
<1>3. new \in AdminState /\ new.pc = "editing" /\ new.mid = m /\ new.seen = models[m]
  BY <1>2 DEF IdleAdmin, AdminState
<1> HIDE DEF new
<1> QED
  BY <1>1, <1>2, <1>3, AdminMoves

LEMMA UnlinkKeeps ==
  ASSUME LogInv, NEW a \in Admins, NEW m \in Models \cup {None}, NEW k \in Keys \cup {None}, Unlink(a, m, k)
  PROVE  LogInv'
<1> DEFINE new == [IdleAdmin EXCEPT !.pc = "deleting", !.mid = m, !.key = k,
                                      !.unlinked = Referring(m, k)]
<1>1. /\ UNCHANGED <<data, call, plain>> /\ admin' = [admin EXCEPT ![a] = new]
      /\ (m \in Models /\ k = None) \/ (m = None /\ k \in Keys)
  BY DEF Unlink, LiveModels
<1>3. Referring(m, k) \in SUBSET (Calls \X Nat)
  <2>1. \A c \in Calls : DOMAIN logs[c] \subseteq Nat
    BY DEF LogInv, GatewayTypeOK, LogsOK
  <2> QED
    BY <2>1 DEF Referring
<1>2. new \in AdminState /\ new.pc = "deleting" /\ new.mid = m /\ new.key = k
  BY <1>3 DEF IdleAdmin, AdminState
<1> HIDE DEF new
<1> QED
  BY <1>1, <1>2, AdminMoves

LEMMA KeysKeep ==
  ASSUME LogInv, NEW k \in Keys, NEW new \in KeyRow, keys' = [keys EXCEPT ![k] = new],
         UNCHANGED <<models, tables, rows, logs, call, admin, plain>>
  PROVE  LogInv'
<1>1. ModelsOK /\ KeysOK /\ TablesOK /\ AdminsOK /\ PlainOK /\ AdminReady
  BY DEF LogInv, GatewayTypeOK
<1>2. ModelsOK' /\ KeysOK' /\ TablesOK' /\ AdminsOK' /\ PlainOK' /\ AdminReady'
  BY <1>1 DEF ModelsOK, KeysOK, TablesOK, AdminsOK, PlainOK, AdminReady
<1>3. \A o \in Keys : Live(keys[o]) => Live(keys'[o])
  BY <1>1, KeyIsLive DEF KeysOK
<1> QED
  BY <1>2, <1>3, CallsStay, Assemble

LEMMA CreateKeyKeeps ==
  ASSUME LogInv, NEW k \in Keys, NEW scope \in Scopes, CreateKey(k, scope) PROVE LogInv'
  BY KeysKeep DEF CreateKey, KeyRow

LEMMA UpdateKeyKeeps ==
  ASSUME LogInv, NEW k \in Keys, NEW active \in BOOLEAN, NEW scope \in Scopes, UpdateKey(k, active, scope)
  PROVE  LogInv'
  BY KeysKeep DEF UpdateKey, KeyRow

LEMMA EditedType ==
  ASSUME NEW seen \in ModelRow, NEW n \in Names, NEW d \in Definitions, NEW active \in BOOLEAN
  PROVE  /\ Edited(seen, n, d, active) \in ModelRow
         /\ Edited(seen, n, d, active).name = n /\ Edited(seen, n, d, active).type = d.type
         /\ Edited(seen, n, d, active).attrs = d.attrs /\ Edited(seen, n, d, active).table = seen.table
<1>1. d \in [type : {"A", "B"}, attrs : SUBSET Attrs, pk : Attrs \cup {None}]
  BY GatewayAssumption
<1> QED
  BY <1>1 DEF Edited, ModelRow

LEMMA OverlaidType ==
  ASSUME NEW new \in ModelRow, NEW seen \in ModelRow, NEW row \in ModelRow
  PROVE  /\ Overlaid(new, seen, row) \in ModelRow
         /\ \A f \in {"name", "type", "attrs", "table"} :
              Overlaid(new, seen, row)[f] = IF new[f] # seen[f] THEN new[f] ELSE row[f]
<1>1. DOMAIN new = {"name", "type", "attrs", "pk", "table", "active"}
  BY DEF ModelRow
<1> DEFINE mix(f) == IF new[f] # seen[f] THEN new[f] ELSE row[f]
           r == [name |-> mix("name"), type |-> mix("type"), attrs |-> mix("attrs"), pk |-> mix("pk"),
                 table |-> mix("table"), active |-> mix("active")]
<1>2. Overlaid(new, seen, row) = r
  BY <1>1 DEF Overlaid
<1>3. r \in ModelRow
  BY DEF ModelRow
<1> QED
  BY <1>2, <1>3

\* an edit either fails as a whole or overlays the row of its model
LEMMA EditSavesSteps ==
  ASSUME LogInv, NEW a \in Admins, EditSaves(a)
  PROVE  /\ UNCHANGED <<keys, rows, logs, call, changes>> /\ admin' = [admin EXCEPT ![a] = IdleAdmin]
         /\ admin[a].mid \in Models /\ admin[a].seen \in ModelRow
         /\ \/ UNCHANGED <<models, tables, plain>>
            \/ /\ models[admin[a].mid] \in ModelRow
               /\ \E new \in ModelRow :
                    Overwrite(admin[a].mid, admin[a].seen, new) /\ new.table = admin[a].seen.table
<1> DEFINE m == admin[a].mid
           seen == admin[a].seen
<1>1. UNCHANGED <<keys, rows, logs, call, changes>> /\ admin' = [admin EXCEPT ![a] = IdleAdmin]
  BY DEF EditSaves
<1>2. m \in Models /\ models[m] # None /\ seen \in ModelRow
  BY DEF LogInv, AdminReady, EditSaves
<1>3. PICK n \in Names, d \in Definitions, active \in BOOLEAN :
        IF models[m] = Gone \/ (n # seen.name /\ Taken(n, LiveModels \ {m}))
        THEN UNCHANGED <<models, tables, plain>>
        ELSE Overwrite(m, seen, Edited(seen, n, d, active))
  BY DEF EditSaves
<1>4. Edited(seen, n, d, active) \in ModelRow /\ Edited(seen, n, d, active).table = seen.table
  BY <1>2, EditedType
<1>5. models[m] # Gone => models[m] \in ModelRow
  BY <1>2, LiveModelType DEF Live, LogInv, GatewayTypeOK
<1> QED
  BY <1>1, <1>2, <1>3, <1>4, <1>5

LEMMA SyncedType ==
  ASSUME TablesOK, NEW new \in ModelRow, NEW seen
  PROVE  /\ Synced(new, seen) \in [Names -> (SUBSET Attrs) \cup {None}]
         /\ \A n \in Names : tables[n] # None =>
              Synced(new, seen)[n] # None /\ tables[n] \subseteq Synced(new, seen)[n]
         /\ new.type = "A" /\ tables[new.name] # None => new.attrs \subseteq Synced(new, seen)[new.name]
<1>1. new.name \in Names /\ new.attrs \in SUBSET Attrs
  BY DEF ModelRow
<1>2. CASE new.type = "A" /\ tables[new.name] # None
  <2>1. Synced(new, seen) = [tables EXCEPT ![new.name] = tables[new.name] \cup new.attrs]
    BY <1>2 DEF Synced
  <2>2. tables[new.name] \in SUBSET Attrs /\ tables[new.name] \cup new.attrs \in SUBSET Attrs
    <3>0. tables[new.name] \in (SUBSET Attrs) \cup {None}
      BY <1>1 DEF TablesOK
    <3>1. tables[new.name] \in SUBSET Attrs
      BY <1>2, <3>0, Zenon
    <3> QED
      BY <1>1, <3>1
  <2>3. tables[new.name] \cup new.attrs # None
    BY <2>2, GatewayAssumption
  <2> QED
    BY <1>1, <2>1, <2>2, <2>3 DEF TablesOK
<1>3. CASE ~(new.type = "A" /\ tables[new.name] # None)
  BY <1>3 DEF Synced, TablesOK
<1> QED
  BY <1>2, <1>3

LEMMA OverwriteType ==
  ASSUME ModelsOK, TablesOK, PlainOK, NEW m \in Models, models[m] \in ModelRow,
         NEW seen \in ModelRow, NEW new \in ModelRow, Overwrite(m, seen, new)
  PROVE  /\ ModelsOK' /\ TablesOK' /\ PlainOK'
         /\ models'[m] = Overlaid(new, seen, models[m]) /\ models'[m] \in ModelRow
         /\ \A o \in Models \ {m} : models'[o] = models[o]
<1>1. models' = [models EXCEPT ![m] = Overlaid(new, seen, models[m])]
  BY DEF Overwrite
<1>2. Overlaid(new, seen, models[m]) \in ModelRow
  BY OverlaidType
<1>3. TablesOK'
  BY SyncedType DEF Overwrite, TablesOK
<1>4. PlainOK'
  BY DEF Overwrite, PlainOK
<1> QED
  BY <1>1, <1>2, <1>3, <1>4 DEF ModelsOK

LEMMA EditSavesKeeps == ASSUME LogInv, NEW a \in Admins, EditSaves(a) PROVE LogInv'
<1>1. /\ ModelsOK /\ KeysOK /\ TablesOK /\ AdminsOK /\ PlainOK /\ AdminReady
      /\ UNCHANGED <<keys, rows, logs, call>> /\ admin' = [admin EXCEPT ![a] = IdleAdmin]
  BY EditSavesSteps DEF LogInv, GatewayTypeOK
<1>2. /\ ModelsOK' /\ TablesOK' /\ PlainOK'
      /\ \A o \in Models : /\ models[o] # None => models'[o] # None
                           /\ Live(models[o]) => Live(models'[o])
  <2>1. CASE UNCHANGED <<models, tables, plain>>
    BY <1>1, <2>1 DEF ModelsOK, TablesOK, PlainOK
  <2>2. CASE models[admin[a].mid] \in ModelRow /\ \E new \in ModelRow : Overwrite(admin[a].mid, admin[a].seen, new)
    <3>1. PICK new \in ModelRow : Overwrite(admin[a].mid, admin[a].seen, new)
      BY <2>2
    <3>2. admin[a].mid \in Models /\ admin[a].seen \in ModelRow
      BY EditSavesSteps
    <3>3. \A row \in ModelRow : Live(row) /\ row # None
      BY RowIsLive DEF Live
    <3> QED
      BY <1>1, <2>2, <3>1, <3>2, <3>3, OverwriteType
  <2> QED
    BY <2>1, <2>2, EditSavesSteps
<1>3. KeysOK' /\ AdminsOK'
  BY <1>1, IdleAdminType DEF KeysOK, AdminsOK
<1>4. AdminReady'
  BY <1>1, <1>2, IdleAdminType DEF AdminReady, AdminsOK
<1>5. \A k \in Keys : Live(keys[k]) => Live(keys'[k])
  BY <1>1
<1> QED
  BY <1>1, <1>2, <1>3, <1>4, <1>5, CallsStay, Assemble

LEMMA DeleteRowKeeps == ASSUME LogInv, NEW a \in Admins, DeleteRow(a) PROVE LogInv'
<1> DEFINE m == admin[a].mid
           k == admin[a].key
<1>1. /\ ModelsOK /\ KeysOK /\ TablesOK /\ RowsOK /\ LogsOK /\ CallsOK /\ AdminsOK /\ PlainOK /\ AdminReady
      /\ UNCHANGED <<tables, rows, call, plain>> /\ admin' = [admin EXCEPT ![a] = IdleAdmin]
      /\ \A c \in Calls : ~Holds(c, m, k)
      /\ (m \in Models /\ k = None) \/ (m = None /\ k \in Keys)
      /\ \/ UNCHANGED <<models, keys, logs>>
         \/ /\ models' = IF m = None THEN models ELSE [models EXCEPT ![m] = Gone]
            /\ keys' = IF k = None THEN keys ELSE [keys EXCEPT ![k] = Gone]
            /\ logs' = [c \in Calls |-> [i \in DOMAIN logs[c] |-> Without(logs[c][i], m, k)]]
  BY DEF LogInv, GatewayTypeOK, DeleteRow, AdminReady
<1>2. CASE UNCHANGED <<models, keys, logs>>
  <2>1. UNCHANGED <<data, call, plain>>
    BY <1>1, <1>2 DEF data
  <2> QED
    BY <1>1, <2>1, IdleAdminType, AdminMoves
<1>3. CASE /\ models' = IF m = None THEN models ELSE [models EXCEPT ![m] = Gone]
           /\ keys' = IF k = None THEN keys ELSE [keys EXCEPT ![k] = Gone]
           /\ logs' = [c \in Calls |-> [i \in DOMAIN logs[c] |-> Without(logs[c][i], m, k)]]
  <2> HIDE DEF m, k
  <2>0. None \notin Models \cup Keys /\ None # Gone
    BY GatewayAssumption
  <2>1. ModelsOK' /\ KeysOK' /\ TablesOK' /\ RowsOK' /\ CallsOK' /\ AdminsOK' /\ PlainOK'
    BY <1>1, <1>3, <2>0, IdleAdminType DEF ModelsOK, KeysOK, TablesOK, RowsOK, CallsOK, AdminsOK, PlainOK
  <2>2. AdminReady'
    BY <1>1, <1>3, <2>0, IdleAdminType DEF AdminReady, AdminsOK, ModelsOK
  <2>3. /\ \A o \in Models : o # m => models'[o] = models[o]
        /\ \A o \in Keys : o # k => keys'[o] = keys[o]
    BY <1>1, <1>3, <2>0 DEF ModelsOK, KeysOK
  <2>4. ASSUME NEW d \in Calls
        PROVE  logs'[d] \in Seq(LogLine) /\ CallReady(d)' /\ OneLine(d)' /\ LineKept(d)'
    <3>1. CallReady(d) /\ OneLine(d) /\ LineKept(d) /\ call[d] \in CallState /\ logs[d] \in Seq(LogLine)
      BY <1>1 DEF LogInv, CallsOK, LogsOK
    <3>2. logs'[d] = [i \in DOMAIN logs[d] |-> Without(logs[d][i], m, k)]
      BY <1>3
    <3>3. \A i \in DOMAIN logs[d] :
            /\ logs[d][i] \in LogLine /\ Without(logs[d][i], m, k) \in LogLine
            /\ Without(logs[d][i], m, k).status = logs[d][i].status
            /\ Without(logs[d][i], m, k).model \in {None, logs[d][i].model} \ (IF m = None THEN {} ELSE {m})
            /\ Without(logs[d][i], m, k).key \in {None, logs[d][i].key} \ (IF k = None THEN {} ELSE {k})
      <4> TAKE i \in DOMAIN logs[d]
      <4>1. logs[d][i] \in LogLine
        BY <3>1
      <4> QED
        BY <2>0, <4>1 DEF Without, LogLine
    <3>4. /\ logs'[d] \in Seq(LogLine) /\ Len(logs'[d]) = Len(logs[d]) /\ DOMAIN logs'[d] = DOMAIN logs[d]
      <4>1. DOMAIN logs[d] = 1..Len(logs[d]) /\ Len(logs[d]) \in Nat
        BY <3>1
      <4> QED
        BY <3>2, <3>3, <4>1
    <3>5. logs[d] = <<>> => logs'[d] = <<>>
      BY <3>1, <3>4
    <3>7. Succeeded(d)' <=> Succeeded(d)
      BY <3>2, <3>3, <3>4 DEF Succeeded
    <3>6. CallReady(d)'
      <4>1. call[d].pc = "stored" => Linked(d)'
        <5> SUFFICES ASSUME call[d].pc = "stored" PROVE Linked(d)'
          OBVIOUS
        <5>1. ~Holds(d, m, k) /\ Linked(d) /\ call[d].mid \in Models /\ call[d].key \in Keys \cup {None}
          BY <1>1, <3>1 DEF CallReady, Working, CallState
        <5>2. call[d].mid # m /\ (call[d].key = k => k = None)
          BY <5>1 DEF Holds, At
        <5> QED
          BY <1>1, <2>3, <5>1, <5>2 DEF Linked
      <4> QED
        BY <1>1, <3>1, <3>4, <3>5, <3>7, <4>1 DEF CallReady, Unwritten, Written
    <3>8. OneLine(d)'
      BY <1>1, <3>1, <3>4, <3>5, <3>7 DEF OneLine
    <3>9. LineKept(d)'
      <4> SUFFICES ASSUME NEW i \in DOMAIN logs[d]
                   PROVE  /\ logs'[d][i].model # None => Live(models'[logs'[d][i].model])
                          /\ logs'[d][i].key # None => Live(keys'[logs'[d][i].key])
        BY <3>4 DEF LineKept
      <4>1. logs'[d][i] = Without(logs[d][i], m, k)
        BY <3>2
      <4>2. logs[d][i] \in LogLine
        BY <3>3
      <4>3. logs[d][i].model \in Models \cup {None} /\ logs[d][i].key \in Keys \cup {None}
        BY <4>2 DEF LogLine
      <4>4. /\ logs[d][i].model # None => Live(models[logs[d][i].model])
            /\ logs[d][i].key # None => Live(keys[logs[d][i].key])
        BY <3>1 DEF LineKept
      <4>5. logs'[d][i].model # None => logs'[d][i].model = logs[d][i].model /\ logs[d][i].model # m
        BY <3>3, <4>1
      <4>6. logs'[d][i].key # None => logs'[d][i].key = logs[d][i].key /\ logs[d][i].key # k
        BY <3>3, <4>1
      <4> QED
        BY <2>3, <4>3, <4>4, <4>5, <4>6
    <3> QED
      BY <3>4, <3>6, <3>8, <3>9
  <2>5. LogsOK'
    BY <1>3, <2>4 DEF LogsOK
  <2> QED
    BY <2>1, <2>2, <2>4, <2>5, Assemble
<1> QED
  BY <1>1, <1>2, <1>3

(***************************************************************************)
(* The end of the backend, and the whole.                                  *)
(***************************************************************************)
LEMMA CrashKeeps == ASSUME LogInv, Crash PROVE LogInv'
<1>1. /\ ModelsOK /\ KeysOK /\ TablesOK /\ RowsOK /\ LogsOK /\ CallsOK /\ PlainOK
      /\ UNCHANGED <<models, keys, tables, rows, logs, plain>> /\ admin' = [a \in Admins |-> IdleAdmin]
  BY DEF LogInv, GatewayTypeOK, Crash, data
<1>2. /\ ModelsOK' /\ KeysOK' /\ TablesOK' /\ RowsOK' /\ LogsOK' /\ PlainOK' /\ AdminsOK' /\ AdminReady'
  BY <1>1, IdleAdminType DEF ModelsOK, KeysOK, TablesOK, RowsOK, LogsOK, PlainOK, AdminsOK, AdminReady
<1>3. ASSUME NEW d \in Calls PROVE call'[d] \in CallState /\ CallReady(d)' /\ OneLine(d)' /\ LineKept(d)'
  <2>1. CallReady(d) /\ OneLine(d) /\ LineKept(d) /\ call[d] \in CallState
    BY <1>1 DEF LogInv, CallsOK
  <2>2. call'[d] = IF call[d].pc \in Working THEN Ended(d, None) ELSE call[d]
    BY DEF Crash, Working
  <2>3. CASE call[d].pc \notin Working
    BY <1>1, <2>1, <2>2, <2>3, OthersStay
  <2>4. CASE call[d].pc \in Working
    BY <1>1, <2>2, <2>4, EndKeeps, GatewayAssumption
  <2> QED
    BY <2>1, <2>3, <2>4, <2>2
<1>4. CallsOK'
  BY <1>3 DEF CallsOK, Crash
<1> QED
  BY <1>2, <1>3, <1>4, Assemble

LEMMA LogStutters == ASSUME LogInv, UNCHANGED <<data, call, admin, plain>> PROVE LogInv'
<1>1. /\ ModelsOK' /\ KeysOK' /\ TablesOK' /\ PlainOK' /\ AdminsOK' /\ AdminReady'
      /\ UNCHANGED <<models, keys, rows, logs, call>>
  BY DEF LogInv, GatewayTypeOK, data, ModelsOK, KeysOK, TablesOK, PlainOK, AdminsOK, AdminReady
<1> QED
  BY <1>1, CallsStay, Assemble

LEMMA LogBegins == ASSUME Init PROVE LogInv
<1>1. PICK m \in Models :
        /\ models = [x \in Models |-> IF x = m THEN NewModel(First.name, First.definition) ELSE None]
        /\ tables = [x \in Names |-> IF x = First.name THEN First.definition.attrs ELSE None]
        /\ plain = {m}
        /\ keys = [k \in Keys |-> None]
        /\ rows = [x \in Names |-> IF x = First.name THEN Earlier ELSE {}]
        /\ logs = [c \in Calls |->
             IF c \in Earlier THEN <<[status |-> "success", model |-> m, key |-> None]>> ELSE <<>>]
        /\ call = [c \in Calls |->
             IF c \in Earlier THEN [Answered("inbound", 200) EXCEPT !.payload = First.payload] ELSE NewCall]
        /\ admin = [a \in Admins |-> IdleAdmin]
  BY DEF Init
<1>2. /\ First.name \in Names /\ First.definition \in Definitions /\ First.payload \in Payloads
      /\ Earlier \subseteq Calls /\ First.definition.attrs \in SUBSET Attrs
  BY GatewayAssumption
<1>3. ModelsOK /\ KeysOK /\ TablesOK /\ RowsOK /\ PlainOK /\ AdminsOK /\ AdminReady
  BY <1>1, <1>2, NewModelType, IdleAdminType
     DEF ModelsOK, KeysOK, TablesOK, RowsOK, PlainOK, AdminsOK, AdminReady
<1> DEFINE old == [Answered("inbound", 200) EXCEPT !.payload = First.payload]
           line == [status |-> "success", model |-> m, key |-> None]
<1>4. old \in CallState /\ old.pc = "done" /\ old.kind = "inbound" /\ old.code = 200 /\ ~old.lost
  BY <1>2, AnsweredType DEF CallState, Codes, Kinds
<1>5. line \in LogLine /\ line.status = "success" /\ line.model = m /\ line.key = None
  BY DEF LogLine
<1>6. Live(models[m])
  BY <1>1, <1>2, NewModelType, RowIsLive
<1>7. ASSUME NEW c \in Calls
      PROVE  logs[c] \in Seq(LogLine) /\ call[c] \in CallState /\ CallReady(c) /\ OneLine(c) /\ LineKept(c)
  <2>1. CASE c \in Earlier
    <3>1. logs[c] = <<line>> /\ call[c] = old /\ c \in rows[First.name]
      BY <1>1, <1>2, <2>1
    <3> HIDE DEF old, line
    <3>2. Len(logs[c]) = 1 /\ DOMAIN logs[c] = {1} /\ logs[c][1] = line /\ logs[c] \in Seq(LogLine)
      BY <1>5, <3>1
    <3>3. Succeeded(c)
      BY <1>5, <3>2 DEF Succeeded
    <3> QED
      BY <1>2, <1>4, <1>5, <1>6, <3>1, <3>2, <3>3 DEF CallReady, OneLine, LineKept, Working
  <2>2. CASE c \notin Earlier
    <3>1. logs[c] = <<>> /\ call[c] = NewCall /\ \A n \in Names : c \notin rows[n]
      BY <1>1, <1>2, <2>2
    <3>2. None \notin {200, 401, 403}
      BY GatewayAssumption
    <3> QED
      BY <3>1, <3>2, NewCallType DEF CallReady, OneLine, LineKept, Succeeded, Unwritten, Working
  <2> QED
    BY <2>1, <2>2
<1>8. LogsOK /\ CallsOK
  BY <1>1, <1>7 DEF LogsOK, CallsOK
<1> QED
  BY <1>3, <1>7, <1>8 DEF LogInv, GatewayTypeOK

LEMMA LogKeeps == ASSUME LogInv, [TzNext]_vars PROVE LogInv'
<1>1. CASE Serve
  BY <1>1, ReceiveKeeps, RefuseKeeps, WorkKeeps, CommitKeeps, CommitBreaksKeeps, AnswerKeeps, FailKeeps DEF Serve
<1>2. CASE Administer
  BY <1>2, CreateModelKeeps, DeactivateKeeps, EditBeginsKeeps, EditSavesKeeps, DeleteRowKeeps,
     CreateKeyKeeps, UpdateKeyKeeps, UnlinkKeeps DEF Administer
<1>3. CASE Crash
  BY <1>3, CrashKeeps
<1>4. CASE Shift \/ UNCHANGED vars
  BY <1>4, LogStutters DEF Shift, StartShift, ShiftTable, CommitShift, ShiftDies, vars, gatewayVars
<1> QED
  BY <1>1, <1>2, <1>3, <1>4 DEF TzNext, GatewayNext

LEMMA LogAlways == TzSpec => []LogInv
<1>1. TzInit => LogInv
  BY LogBegins DEF TzInit
<1>2. LogInv /\ [TzNext]_vars => LogInv'
  BY LogKeeps
<1> QED
  BY <1>1, <1>2, PTL DEF TzSpec

\* The log of transactions tells what became of every call, whatever commit is
\* refused or not acknowledged and wherever the backend ends: a record is in a table
\* exactly when its call has the line of a success; a call told of success has that
\* line alone; only a lost acknowledgement leaves a success whose caller was told of a
\* failure, or a second line; no line names a model or a key that was deleted.
THEOREM RowsAreLoggedHolds == TzSpec => []RowsAreLogged
<1>1. LogInv => RowsAreLogged
  BY DEF LogInv, RowsAreLogged, OneLine, LineKept
<1> QED
  BY <1>1, LogAlways, PTL

(***************************************************************************)
(* Columns of the generated tables.                                        *)
(***************************************************************************)
LEMMA FittingStays ==
  ASSUME NEW T, NEW U, Grown(T, U), NEW row \in ModelRow, Fitting(row, T) PROVE Fitting(row, U)
  BY DEF Fitting, ModelRow, Grown

\* models and their edits stay, tables grow and no model becomes plain
LEMMA ColumnsStay ==
  ASSUME LogInv, ColumnsInv, UNCHANGED models, plain' = plain,
         Grown(tables, tables'),
         \A a \in Admins : admin'[a] = admin[a] \/ admin'[a].pc # "editing"
  PROVE  ColumnsInv'
<1>1. \A m \in plain \cap LiveModels : models[m] \in ModelRow
  BY LiveModelType DEF LogInv, GatewayTypeOK, LiveModels
<1>2. \A a \in Admins : admin[a].pc = "editing" => admin[a].seen \in ModelRow
  BY DEF LogInv, AdminReady
<1>3. LiveModels' = LiveModels
  BY DEF LiveModels
<1>4. \A m \in plain' \cap LiveModels' : Fitting(models'[m], tables')
  BY <1>1, <1>3, FittingStays DEF ColumnsInv
<1>5. ASSUME NEW a \in Admins, admin'[a].pc = "editing", admin'[a].mid \in plain'
      PROVE  /\ Fitting(admin'[a].seen, tables') /\ admin'[a].seen = admin[a].seen
             /\ Live(models'[admin'[a].mid]) => models'[admin'[a].mid].name = admin'[a].seen.name
  BY <1>2, <1>5, FittingStays DEF ColumnsInv
<1> QED
  BY <1>4, <1>5 DEF ColumnsInv

LEMMA ServeColumns ==
  ASSUME LogInv, ColumnsInv, UNCHANGED <<models, tables, plain>>,
         \A a \in Admins : admin'[a] = admin[a] \/ admin'[a].pc # "editing"
  PROVE  ColumnsInv'
  BY ColumnsStay DEF Grown

LEMMA CreateModelColumns ==
  ASSUME LogInv, ColumnsInv, NEW m \in Models, NEW n \in Names, NEW d \in Definitions, CreateModel(m, n, d)
  PROVE  ColumnsInv'
<1> DEFINE new == NewModel(n, d)
<1>1. /\ ModelsOK /\ TablesOK /\ PlainOK /\ AdminReady
      /\ models' = [models EXCEPT ![m] = new] /\ models[m] = None /\ admin' = admin
      /\ tables' = IF d.type = "A" /\ tables[n] = None THEN [tables EXCEPT ![n] = d.attrs] ELSE tables
      /\ plain' = IF d.type = "A" /\ tables[n] = None THEN plain \cup {m} ELSE plain
  BY DEF LogInv, GatewayTypeOK, CreateModel
<1>2. /\ new \in ModelRow /\ new.name = n /\ new.attrs = d.attrs
      /\ d.type = "A" => new.type = "A" /\ new.table = n
  BY NewModelType
<1>3. m \notin plain
  BY <1>1 DEF ColumnsInv
<1>4. d.attrs \in SUBSET Attrs /\ d.attrs # None
  BY GatewayAssumption
<1>5. Grown(tables, tables')
  BY <1>1, <1>4 DEF TablesOK, Grown
<1> HIDE DEF new
<1>6. \A o \in plain' : models'[o] # None
  <2>1. Live(new)
    BY <1>2, RowIsLive
  <2> QED
    BY <1>1, <2>1 DEF ColumnsInv, ModelsOK, Live, PlainOK
<1>7. ASSUME NEW o \in plain' \cap LiveModels' PROVE Fitting(models'[o], tables')
  <2>1. CASE o = m
    <3>1. d.type = "A" /\ tables[n] = None /\ models'[o] = new /\ tables'[n] = d.attrs
      BY <1>1, <1>3, <2>1 DEF ModelsOK, TablesOK
    <3> QED
      BY <1>2, <1>4, <3>1 DEF Fitting
  <2>2. CASE o # m
    <3>1. o \in plain \cap LiveModels /\ models'[o] = models[o]
      BY <1>1, <2>2 DEF ModelsOK, LiveModels, PlainOK
    <3>2. Fitting(models[o], tables) /\ models[o] \in ModelRow
      BY <1>1, <3>1, LiveModelType DEF ColumnsInv, LiveModels
    <3>3. Fitting(models'[o], tables')
      BY <1>5, <3>1, <3>2, FittingStays
    <3> QED
      BY <3>3
  <2> QED
    BY <2>1, <2>2
<1>8. ASSUME NEW a \in Admins, admin'[a].pc = "editing", admin'[a].mid \in plain'
      PROVE  /\ Fitting(admin'[a].seen, tables')
             /\ Live(models'[admin'[a].mid]) => models'[admin'[a].mid].name = admin'[a].seen.name
  <2>1. admin[a].mid \in Models /\ models[admin[a].mid] # None /\ admin[a].seen \in ModelRow
    BY <1>1, <1>8 DEF AdminReady
  <2>2. admin[a].mid # m /\ admin[a].mid \in plain
    BY <1>1, <1>8, <2>1
  <2>3. models'[admin[a].mid] = models[admin[a].mid]
    BY <1>1, <2>1, <2>2 DEF ModelsOK
  <2>4. Fitting(admin[a].seen, tables) /\ (Live(models[admin[a].mid]) => models[admin[a].mid].name = admin[a].seen.name)
    BY <1>1, <1>8, <2>2 DEF ColumnsInv
  <2>5. Fitting(admin'[a].seen, tables')
    BY <1>1, <1>5, <2>1, <2>4, FittingStays
  <2> QED
    BY <1>1, <2>3, <2>4, <2>5
<1> QED
  BY <1>6, <1>7, <1>8 DEF ColumnsInv

LEMMA DeactivateColumns ==
  ASSUME LogInv, ColumnsInv, NEW m \in Models, Deactivate(m) PROVE ColumnsInv'
<1> DEFINE new == [models[m] EXCEPT !.active = FALSE]
<1>1. /\ ModelsOK /\ PlainOK /\ AdminReady /\ Live(models[m])
      /\ models' = [models EXCEPT ![m] = new] /\ UNCHANGED <<tables, admin, plain>>
  BY DEF LogInv, GatewayTypeOK, Deactivate, LiveModels
<1>2. models[m] \in ModelRow
  BY <1>1, LiveModelType
<1>3. /\ new \in ModelRow /\ new.name = models[m].name /\ new.type = models[m].type
      /\ new.table = models[m].table /\ new.attrs = models[m].attrs
  BY <1>2 DEF ModelRow
<1>4. Live(new)
  BY <1>3, RowIsLive
<1> HIDE DEF new
<1>5. \A o \in plain' : models'[o] # None
  BY <1>1, <1>4 DEF ColumnsInv, ModelsOK, Live, PlainOK
<1>6. ASSUME NEW o \in plain' \cap LiveModels' PROVE Fitting(models'[o], tables')
  <2>1. o \in plain \cap LiveModels
    BY <1>1 DEF LiveModels, ModelsOK
  <2>2. models'[o] = models[o] \/ (o = m /\ models'[o] = new)
    BY <1>1, <2>1 DEF ModelsOK, LiveModels
  <2> QED
    BY <1>1, <1>3, <2>1, <2>2 DEF ColumnsInv, Fitting
<1>7. ASSUME NEW a \in Admins, admin'[a].pc = "editing", admin'[a].mid \in plain'
      PROVE  /\ Fitting(admin'[a].seen, tables')
             /\ Live(models'[admin'[a].mid]) => models'[admin'[a].mid].name = admin'[a].seen.name
  <2>1. /\ admin[a].mid \in Models /\ Fitting(admin[a].seen, tables)
        /\ Live(models[admin[a].mid]) => models[admin[a].mid].name = admin[a].seen.name
    BY <1>1, <1>7 DEF AdminReady, ColumnsInv
  <2>2. models'[admin[a].mid] = models[admin[a].mid] \/ (admin[a].mid = m /\ models'[admin[a].mid] = new)
    BY <1>1, <2>1 DEF ModelsOK
  <2> QED
    BY <1>1, <1>3, <2>1, <2>2 DEF Fitting
<1> QED
  BY <1>1, <1>5, <1>6, <1>7 DEF ColumnsInv

LEMMA EditBeginsColumns ==
  ASSUME LogInv, ColumnsInv, NEW a \in Admins, NEW m \in Models, EditBegins(a, m) PROVE ColumnsInv'
<1> DEFINE new == [IdleAdmin EXCEPT !.pc = "editing", !.mid = m, !.seen = models[m]]
<1>1. /\ UNCHANGED <<models, tables, plain>> /\ admin' = [admin EXCEPT ![a] = new]
      /\ m \in LiveModels /\ AdminsOK /\ ModelsOK
  BY DEF EditBegins, LogInv, GatewayTypeOK, data
<1>2. new.pc = "editing" /\ new.mid = m /\ new.seen = models[m]
  BY DEF IdleAdmin
<1> HIDE DEF new
<1>3. LiveModels' = LiveModels
  BY <1>1 DEF LiveModels
<1>4. ASSUME NEW b \in Admins, admin'[b].pc = "editing", admin'[b].mid \in plain'
      PROVE  /\ Fitting(admin'[b].seen, tables)
             /\ Live(models'[admin'[b].mid]) => models'[admin'[b].mid].name = admin'[b].seen.name
  <2>1. admin'[b] = admin[b] \/ (b = a /\ admin'[b] = new)
    BY <1>1 DEF AdminsOK
  <2>2. CASE admin'[b] = admin[b]
    BY <1>1, <1>4, <2>2 DEF ColumnsInv
  <2>3. CASE admin'[b] = new
    BY <1>1, <1>2, <1>4, <2>3 DEF ColumnsInv
  <2> QED
    BY <2>1, <2>2, <2>3
<1> QED
  BY <1>1, <1>3, <1>4 DEF ColumnsInv

LEMMA OverwriteColumns ==
  ASSUME LogInv, ColumnsInv, NEW a \in Admins, admin' = [admin EXCEPT ![a] = IdleAdmin], admin[a].pc = "editing",
         NEW m \in Models, m = admin[a].mid, NEW seen \in ModelRow, seen = admin[a].seen,
         models[m] \in ModelRow, NEW new \in ModelRow, Overwrite(m, seen, new), new.table = seen.table
  PROVE  ColumnsInv'
<1>0. ModelsOK /\ TablesOK /\ PlainOK /\ AdminsOK /\ AdminReady
  BY DEF LogInv, GatewayTypeOK
<1> DEFINE row == Overlaid(new, seen, models[m])
<1>1. /\ models'[m] = row /\ row \in ModelRow
      /\ \A o \in Models \ {m} : models'[o] = models[o]
  BY <1>0, OverwriteType
<1>2. \A f \in {"name", "type", "attrs", "table"} :
        row[f] = IF new[f] # seen[f] THEN new[f] ELSE models[m][f]
  BY OverlaidType
<1>3. /\ Grown(tables, tables')
      /\ new.type = "A" /\ tables[new.name] # None => new.attrs \subseteq tables'[new.name]
  BY <1>0, SyncedType DEF Overwrite, Grown
<1>4. plain' = IF new.name = new.table /\ new.type = "A" THEN plain ELSE plain \ {m}
  BY DEF Overwrite
<1> HIDE DEF row
<1>5. \A o \in plain' : models'[o] # None
  BY <1>0, <1>1, <1>4, RowIsLive DEF ColumnsInv, Live, PlainOK
<1>6. Live(models[m]) /\ Live(row)
  BY <1>1, RowIsLive
\* of a model that stays plain, the edit keeps name, table and type
<1>7. m \in plain' =>
        /\ Fitting(seen, tables) /\ Fitting(models[m], tables) /\ models[m].name = seen.name
        /\ new.name = seen.name /\ new.type = seen.type /\ new.table = seen.table
  <2> SUFFICES ASSUME m \in plain'
               PROVE  /\ Fitting(seen, tables) /\ Fitting(models[m], tables) /\ models[m].name = seen.name
                      /\ new.name = seen.name /\ new.type = seen.type /\ new.table = seen.table
    OBVIOUS
  <2>1. m \in plain /\ new.name = new.table /\ new.type = "A"
    BY <1>4
  <2>2. Fitting(seen, tables) /\ Fitting(models[m], tables) /\ models[m].name = seen.name
    BY <1>6, <2>1 DEF ColumnsInv, LiveModels
  <2> QED
    BY <2>1, <2>2 DEF Fitting
<1>8. m \in plain' => Fitting(row, tables')
  <2> SUFFICES ASSUME m \in plain' PROVE Fitting(row, tables')
    OBVIOUS
  <2>1. row.name = seen.name /\ row.type = "A" /\ row.table = seen.name
    BY <1>2, <1>7 DEF Fitting
  <2>2. tables'[seen.name] # None /\ models[m].attrs \subseteq tables'[seen.name]
        /\ seen.attrs \subseteq tables'[seen.name]
    BY <1>3, <1>7 DEF Fitting, ModelRow, Grown
  <2>3. new.attrs \subseteq tables'[seen.name]
    BY <1>3, <1>7 DEF Fitting
  <2>4. row.attrs = new.attrs \/ row.attrs = models[m].attrs
    BY <1>2
  <2>5. tables'[row.name] # None /\ row.attrs \subseteq tables'[row.name]
    BY <2>1, <2>2, <2>3, <2>4
  <2>6. row.table = row.name
    BY <2>1
  <2>7. Fitting(models'[m], tables')
    BY <1>1, <2>1, <2>5, <2>6 DEF Fitting
  <2> QED
    BY <1>1, <2>7
<1>9. ASSUME NEW o \in plain' \cap LiveModels' PROVE Fitting(models'[o], tables')
  <2>1. CASE o = m
    BY <1>1, <1>8, <2>1
  <2>2. CASE o # m
    <3>1. o \in plain \cap LiveModels /\ models'[o] = models[o]
      BY <1>0, <1>1, <1>4, <2>2 DEF LiveModels
    <3>2. Fitting(models[o], tables) /\ models[o] \in ModelRow
      BY <1>0, <3>1, LiveModelType DEF ColumnsInv, LiveModels
    <3> QED
      BY <1>3, <3>1, <3>2, FittingStays
  <2> QED
    BY <2>1, <2>2
<1>10. ASSUME NEW b \in Admins, admin'[b].pc = "editing", admin'[b].mid \in plain'
       PROVE  /\ Fitting(admin'[b].seen, tables') /\ admin'[b] = admin[b]
              /\ Live(models'[admin'[b].mid]) => models'[admin'[b].mid].name = admin'[b].seen.name
  <2>1. admin'[b] = admin[b]
    BY <1>0, <1>10, IdleAdminType DEF AdminsOK
  <2>2. admin[b].mid \in plain /\ admin[b].mid \in Models /\ admin[b].seen \in ModelRow
    BY <1>0, <1>4, <1>10, <2>1 DEF AdminReady
  <2>3. /\ Fitting(admin[b].seen, tables)
        /\ Live(models[admin[b].mid]) => models[admin[b].mid].name = admin[b].seen.name
    BY <1>10, <2>1, <2>2 DEF ColumnsInv
  <2>4. Fitting(admin'[b].seen, tables')
    BY <1>3, <2>1, <2>2, <2>3, FittingStays
  <2>5. CASE admin[b].mid = m
    BY <1>1, <1>2, <1>6, <1>7, <1>10, <2>1, <2>3, <2>4, <2>5
  <2>6. CASE admin[b].mid # m
    BY <1>1, <2>1, <2>2, <2>3, <2>4, <2>6
  <2> QED
    BY <2>5, <2>6
<1> QED
  BY <1>5, <1>9, <1>10 DEF ColumnsInv

LEMMA EditSavesColumns == ASSUME LogInv, ColumnsInv, NEW a \in Admins, EditSaves(a) PROVE ColumnsInv'
<1>1. /\ admin' = [admin EXCEPT ![a] = IdleAdmin] /\ admin[a].pc = "editing" /\ AdminsOK
      /\ admin[a].mid \in Models /\ admin[a].seen \in ModelRow
  BY EditSavesSteps DEF EditSaves, LogInv, GatewayTypeOK
<1>2. CASE UNCHANGED <<models, tables, plain>>
  <2>1. \A b \in Admins : admin'[b] = admin[b] \/ admin'[b].pc # "editing"
    BY <1>1, IdleAdminType DEF AdminsOK
  <2> QED
    BY <1>2, <2>1, ServeColumns
<1>3. CASE models[admin[a].mid] \in ModelRow /\ \E new \in ModelRow :
             Overwrite(admin[a].mid, admin[a].seen, new) /\ new.table = admin[a].seen.table
  BY <1>1, <1>3, OverwriteColumns
<1> QED
  BY <1>2, <1>3, EditSavesSteps

LEMMA DeleteRowColumns == ASSUME LogInv, ColumnsInv, NEW a \in Admins, DeleteRow(a) PROVE ColumnsInv'
<1>1. /\ ModelsOK /\ AdminsOK /\ PlainOK /\ AdminReady
      /\ UNCHANGED <<tables, plain>> /\ admin' = [admin EXCEPT ![a] = IdleAdmin]
      /\ \/ UNCHANGED models
         \/ \E m \in Models : models' = [models EXCEPT ![m] = Gone]
  BY DEF LogInv, GatewayTypeOK, DeleteRow, AdminReady
<1>2. \A b \in Admins : admin'[b] = admin[b] \/ admin'[b].pc # "editing"
  BY <1>1, IdleAdminType DEF AdminsOK
<1>3. CASE UNCHANGED models
  BY <1>1, <1>2, <1>3, ServeColumns
<1>4. CASE \E m \in Models : models' = [models EXCEPT ![m] = Gone]
  <2>1. None # Gone
    BY GatewayAssumption
  <2>2. \A o \in Models : /\ models[o] # None => models'[o] # None
                          /\ Live(models'[o]) => models'[o] = models[o]
    BY <1>1, <1>4, <2>1 DEF ModelsOK, Live
  <2>3. \A b \in Admins : admin[b].pc = "editing" => admin[b].mid \in Models
    BY <1>1 DEF AdminReady
  <2>4. \A o \in plain' : models'[o] # None
    BY <1>1, <2>2 DEF ColumnsInv, PlainOK
  <2>5. \A o \in plain' \cap LiveModels' : o \in plain \cap LiveModels /\ models'[o] = models[o]
    BY <1>1, <2>2 DEF LiveModels
  <2>6. \A b \in Admins : admin'[b].pc = "editing" /\ admin'[b].mid \in plain' =>
          /\ Fitting(admin[b].seen, tables) /\ admin'[b] = admin[b]
          /\ Live(models'[admin'[b].mid]) => models'[admin'[b].mid].name = admin'[b].seen.name
    BY <1>1, <1>2, <2>2, <2>3 DEF ColumnsInv
  <2> QED
    BY <1>1, <2>4, <2>5, <2>6 DEF ColumnsInv
<1> QED
  BY <1>1, <1>3, <1>4

LEMMA ColumnsBegin == ASSUME Init PROVE ColumnsInv
<1>1. PICK m \in Models :
        /\ models = [x \in Models |-> IF x = m THEN NewModel(First.name, First.definition) ELSE None]
        /\ tables = [x \in Names |-> IF x = First.name THEN First.definition.attrs ELSE None]
        /\ plain = {m} /\ admin = [a \in Admins |-> IdleAdmin]
  BY DEF Init
<1>2. /\ First.name \in Names /\ First.definition \in Definitions /\ First.definition.type = "A"
      /\ First.definition.attrs \in SUBSET Attrs /\ First.definition.attrs # None
  BY GatewayAssumption
<1> DEFINE new == NewModel(First.name, First.definition)
<1>3. /\ new \in ModelRow /\ new.type = "A" /\ new.table = First.name
      /\ new.name = First.name /\ new.attrs = First.definition.attrs
  BY <1>2, NewModelType
<1>4. models[m] = new
  BY <1>1
<1> HIDE DEF new
<1>5. Fitting(models[m], tables) /\ models[m] # None
  BY <1>1, <1>2, <1>3, <1>4, RowIsLive DEF Fitting, Live
<1> QED
  BY <1>1, <1>5, IdleAdminType DEF ColumnsInv

LEMMA ColumnsKeep == ASSUME LogInv, ColumnsInv, [TzNext]_vars PROVE ColumnsInv'
<1>1. CASE Serve
  BY <1>1, ServeColumns DEF Serve, Receive, Refuse, Work, Commit, CommitBreaks, Answer, Fail, data
<1>2. CASE Administer
  <2>1. CASE \E k \in Keys, scope \in Scopes : CreateKey(k, scope) \/ \E active \in BOOLEAN : UpdateKey(k, active, scope)
    BY <2>1, ServeColumns DEF CreateKey, UpdateKey
  <2>2. ASSUME NEW a \in Admins, NEW m \in Models \cup {None}, NEW k \in Keys \cup {None}, Unlink(a, m, k)
        PROVE  ColumnsInv'
    <3>1. \A b \in Admins : admin'[b] = admin[b] \/ admin'[b].pc # "editing"
      BY <2>2 DEF Unlink, IdleAdmin, LogInv, GatewayTypeOK, AdminsOK
    <3> QED
      BY <2>2, <3>1, ServeColumns DEF Unlink, data
  <2> QED
    BY <1>2, <2>1, <2>2, CreateModelColumns, DeactivateColumns, EditBeginsColumns, EditSavesColumns,
       DeleteRowColumns DEF Administer
<1>3. CASE Crash
  BY <1>3, ServeColumns, IdleAdminType DEF Crash, data
<1>4. CASE Shift \/ UNCHANGED vars
  BY <1>4, ServeColumns DEF Shift, StartShift, ShiftTable, CommitShift, ShiftDies, vars, gatewayVars, data
<1> QED
  BY <1>1, <1>2, <1>3, <1>4 DEF TzNext, GatewayNext

\* A model that made its table, was never renamed and never Type B finds a
\* column for each of its attributes, whoever edits it at the same time.
THEOREM AttributesHaveColumnsHolds == TzSpec => []AttributesHaveColumns
<1>1. TzInit => ColumnsInv
  BY ColumnsBegin DEF TzInit
<1>2. LogInv /\ ColumnsInv /\ [TzNext]_vars => ColumnsInv'
  BY ColumnsKeep
<1>3. ColumnsInv => AttributesHaveColumns
  BY GatewayAssumption DEF ColumnsInv, AttributesHaveColumns, Fitting, HasColumns, TableOf
<1> QED
  BY <1>1, <1>2, <1>3, LogAlways, PTL DEF TzSpec

(***************************************************************************)
(* The backfill: no record is shifted twice, for every set of records,     *)
(* tables, runs and hours, beside all that Gateway does.                   *)
(***************************************************************************)
Entry == [hours : Hours, cutoff : BOOLEAN]

Log == [Names -> Entry \cup {None}]

ShifterState ==
  [pc : {"new", "shifting", "done"}, reverse : BOOLEAN, hours : Hours \cup {0}, cutoff : BOOLEAN,
   seen : Log, left : SUBSET Names, plan : [Calls -> Int], entries : Log]

TzTypeOK ==
  /\ shifted \in Log /\ moves \in [Calls -> Seq(Int)]
  /\ shifter \in [Shifters -> ShifterState]

\* each record is in one table
InOneTable == \A n, o \in Names : \A c \in rows[n] \cap rows[o] : n = o

\* the log table is locked by the one run that shifts
OneShifts == \A s, o \in Shifters : ShifterAt(s, "shifting") /\ ShifterAt(o, "shifting") => s = o

\* the last thing that was done to a record was to add hours
Added(c) == moves[c] # <<>> /\ Last(moves[c]) > 0

\* a record hours were added to is in a table whose entry says how many
MovesRecorded ==
  \A c \in Calls :
    /\ moves[c] # <<>> => \E n \in Names : c \in rows[n]
    /\ \A n \in Names : c \in rows[n] /\ Added(c) => shifted[n] # None /\ shifted[n].hours = Last(moves[c])

\* what a reverse has done to a table it has been through: all its records go
\* back, but for those that came later and were never shifted
Reversed(run, n) ==
  /\ run.seen[n] # None /\ run.entries[n] = None
  /\ \A c \in rows[n] : run.plan[c] = - run.seen[n].hours \/ (run.plan[c] = 0 /\ moves[c] = <<>>)

\* what an apply has done
Applied(run, n) ==
  /\ run.seen[n] = None /\ run.entries[n] # None /\ run.entries[n].hours = run.hours
  /\ \A c \in rows[n] : run.plan[c] \in {0, run.hours}

Planned(run) ==
  /\ run.seen = shifted
  /\ ~run.reverse => run.hours # 0
  /\ \A n \in run.left : run.entries[n] = run.seen[n]
  /\ \A c \in Calls : run.plan[c] # 0 => \E n \in Names : c \in rows[n] /\ run.entries[n] # run.seen[n]
  /\ \A n \in Names : run.entries[n] # run.seen[n] => IF run.reverse THEN Reversed(run, n) ELSE Applied(run, n)

ShiftInv ==
  /\ TzTypeOK /\ InOneTable /\ OneShifts /\ MovesRecorded /\ NeverShiftedTwice
  /\ \A s \in Shifters : ShifterAt(s, "shifting") => Planned(shifter[s])

(***************************************************************************)
(* The records and the tables.                                             *)
(***************************************************************************)
\* a record is in its table from the commit of its call on, and never moves
RowsStep ==
  \/ UNCHANGED rows
  \/ \E n \in Names, c \in Calls :
       (\A o \in Names : c \notin rows[o]) /\ rows' = [rows EXCEPT ![n] = @ \cup {c}]

LEMMA RowsGrow == ASSUME LogInv, GatewayNext PROVE RowsStep
<1>1. ASSUME NEW c \in Calls, call[c].pc = "stored", Committed(c) PROVE RowsStep
  <2>1. TableOf(call[c].model) \in Names /\ \A n \in Names : c \notin rows[n]
    BY <1>1, TableOfType DEF LogInv, CallReady, Working, Unwritten
  <2> QED
    BY <1>1, <2>1 DEF Committed, RowsStep
<1>2. CASE Serve
  <2>1. ASSUME NEW c \in Calls, Commit(c) \/ CommitBreaks(c) PROVE RowsStep
    BY <1>1, <2>1 DEF Commit, CommitBreaks, At, RowsStep
  <2> QED
    BY <1>2, <2>1 DEF Serve, Receive, Refuse, Work, Answer, Fail, RowsStep, data
<1>3. CASE Administer
  BY <1>3 DEF Administer, CreateModel, Deactivate, EditBegins, EditSaves, DeleteRow, CreateKey, UpdateKey,
     Unlink, RowsStep, data
<1>4. CASE Crash
  BY <1>4 DEF Crash, RowsStep, data
<1> QED
  BY <1>2, <1>3, <1>4 DEF GatewayNext

LEMMA AppendEnds ==
  ASSUME NEW s \in Seq(Int), NEW h \in Int
  PROVE  /\ Append(s, h) \in Seq(Int) /\ Append(s, h) # <<>> /\ Last(Append(s, h)) = h
         /\ DOMAIN Append(s, h) = 1..(Len(s) + 1)
         /\ \A i \in 1..Len(s) : Append(s, h)[i] = s[i]
         /\ DOMAIN s = 1..Len(s) /\ Len(s) \in Nat /\ (s # <<>> <=> Len(s) > 0)
  BY DEF Last

LEMMA EntryHours ==
  ASSUME NEW e \in Entry PROVE e # None /\ e.hours \in Nat \ {0} /\ e.hours \in Int /\ - e.hours \in Int /\ - e.hours < 0
<1>1. e # None /\ e.hours \in Hours
  BY TzAssumption DEF Entry
<1>2. e.hours \in Nat /\ e.hours # 0
  BY <1>1, TzAssumption
<1> QED
  BY <1>1, <1>2

LEMMA HoursCount == ASSUME NEW h \in Hours PROVE h \in Int /\ h # 0
  BY TzAssumption

LEMMA NewShifterType == NewShifter \in ShifterState /\ NewShifter.pc = "new"
  BY DEF NewShifter, ShifterState, Log

(***************************************************************************)
(* Steps of the integration API beside the backfill.                       *)
(***************************************************************************)
LEMMA GatewayShift ==
  ASSUME LogInv, ShiftInv, RowsStep, RowsOK, UNCHANGED <<shifted, moves, shifter>> PROVE ShiftInv'
<1>1. CASE UNCHANGED rows
  BY <1>1 DEF ShiftInv, TzTypeOK, InOneTable, OneShifts, MovesRecorded, NeverShiftedTwice, Added,
     ShifterAt, Planned, Reversed, Applied
<1>2. ASSUME NEW m \in Names, NEW d \in Calls, \A o \in Names : d \notin rows[o],
             rows' = [rows EXCEPT ![m] = @ \cup {d}]
      PROVE  ShiftInv'
  <2>1. \A n \in Names : rows'[n] = IF n = m THEN rows[n] \cup {d} ELSE rows[n]
    BY <1>2 DEF RowsOK
  <2>2. moves[d] = <<>>
    BY <1>2 DEF ShiftInv, MovesRecorded
  <2>3. InOneTable'
    BY <1>2, <2>1 DEF ShiftInv, InOneTable
  <2>4. MovesRecorded'
    <3>1. ASSUME NEW c \in Calls, moves[c] # <<>> PROVE \E n \in Names : c \in rows'[n]
      BY <2>1, <3>1 DEF ShiftInv, MovesRecorded
    <3>2. ASSUME NEW c \in Calls, NEW n \in Names, c \in rows'[n], Added(c)
          PROVE  shifted[n] # None /\ shifted[n].hours = Last(moves[c])
      <4>1. c \in rows[n]
        BY <2>1, <2>2, <3>2 DEF Added
      <4> QED
        BY <3>2, <4>1 DEF ShiftInv, MovesRecorded
    <3> QED
      BY <3>1, <3>2 DEF MovesRecorded, Added
  <2>5. ASSUME NEW s \in Shifters, ShifterAt(s, "shifting") PROVE Planned(shifter[s])'
    <3> DEFINE run == shifter[s]
    <3>1. Planned(run)
      BY <2>5 DEF ShiftInv
    <3>2. run.plan[d] = 0
      BY <1>2, <3>1 DEF Planned
    <3> HIDE DEF run
    <3>3. \A n \in Names : Reversed(run, n) => (Reversed(run, n))'
      BY <2>1, <2>2, <3>2 DEF Reversed, run
    <3>4. \A n \in Names : Applied(run, n) => (Applied(run, n))'
      BY <2>1, <3>2 DEF Applied, run
    <3>5. run' = run
      BY DEF run
    <3>6. Planned(run)'
      BY <2>1, <3>1, <3>3, <3>4, <3>5 DEF Planned
    <3> QED
      BY <3>6 DEF run
  <2> QED
    BY <2>3, <2>4, <2>5 DEF ShiftInv, TzTypeOK, OneShifts, NeverShiftedTwice, ShifterAt
<1> QED
  BY <1>1, <1>2 DEF RowsStep

(***************************************************************************)
(* Steps of the backfill.                                                  *)
(***************************************************************************)
\* a step of the one run that shifts, which changes neither records nor log
LEMMA OneRunMoves ==
  ASSUME ShiftInv, NEW s \in Shifters, NEW new \in ShifterState, shifter' = [shifter EXCEPT ![s] = new],
         UNCHANGED <<rows, shifted, moves>>,
         \A o \in Shifters \ {s} : new.pc = "shifting" => ~ShifterAt(o, "shifting"),
         new.pc = "shifting" => Planned(new)
  PROVE  ShiftInv'
<1>1. TzTypeOK' /\ \A o \in Shifters : shifter'[o] = IF o = s THEN new ELSE shifter[o]
  BY DEF ShiftInv, TzTypeOK
<1>2. OneShifts'
  BY <1>1 DEF ShiftInv, OneShifts, ShifterAt
<1>3. InOneTable' /\ MovesRecorded' /\ NeverShiftedTwice'
  BY DEF ShiftInv, InOneTable, MovesRecorded, NeverShiftedTwice, Added
<1>4. ASSUME NEW o \in Shifters, ShifterAt(o, "shifting")' PROVE Planned(shifter[o])'
  <2>1. Planned(shifter'[o])
    BY <1>1, <1>4 DEF ShiftInv, ShifterAt
  <2> QED
    BY <2>1 DEF Planned, Reversed, Applied
<1> QED
  BY <1>1, <1>2, <1>3, <1>4 DEF ShiftInv

LEMMA StartShiftKeeps == ASSUME ShiftInv, NEW s \in Shifters, StartShift(s) PROVE ShiftInv'
<1>1. PICK reverse \in BOOLEAN, cutoff \in BOOLEAN, h \in Hours, left \in SUBSET Names :
        shifter' = [shifter EXCEPT ![s] = Started(reverse, h, cutoff, left)]
  BY DEF StartShift
<1> DEFINE new == Started(reverse, h, cutoff, left)
<1>2. new \in ShifterState
  BY NewShifterType DEF ShiftInv, TzTypeOK, ShifterState, Started
<1>3. /\ new.seen = shifted /\ new.entries = shifted /\ \A c \in Calls : new.plan[c] = 0
      /\ new.reverse = reverse /\ new.hours = (IF reverse THEN 0 ELSE h) /\ new.left = left
  BY DEF NewShifter, Started
<1> HIDE DEF new
<1>4. Planned(new)
  BY <1>3, TzAssumption DEF Planned
<1>5. UNCHANGED <<rows, shifted, moves>> /\ \A o \in Shifters \ {s} : ~ShifterAt(o, "shifting")
  BY DEF StartShift, EnsureLog, data
<1> QED
  BY <1>1, <1>2, <1>4, <1>5, OneRunMoves DEF new

LEMMA ShiftDiesKeeps == ASSUME ShiftInv, NEW s \in Shifters, ShiftDies(s) PROVE ShiftInv'
<1> DEFINE new == [NewShifter EXCEPT !.pc = "done"]
<1>1. new \in ShifterState /\ new.pc = "done"
  BY NewShifterType DEF ShifterState, NewShifter
<1> QED
  BY <1>1, OneRunMoves DEF ShiftDies, gatewayVars, data

\* new is run once the records chosen of one table have been shifted
Wrote(run, new, n, chosen, added, entry) ==
  /\ n \in run.left /\ chosen \in SUBSET rows[n] /\ added \in Int /\ added # 0
  /\ entry \in Entry \cup {None} /\ entry # run.seen[n]
  /\ new.seen = run.seen /\ new.reverse = run.reverse /\ new.hours = run.hours /\ new.left = run.left \ {n}
  /\ new.plan = [c \in Calls |-> IF c \in chosen THEN added ELSE run.plan[c]]
  /\ new.entries = [run.entries EXCEPT ![n] = entry]
  /\ run.reverse => entry = None /\ chosen = rows[n] /\ added = - run.seen[n].hours
  /\ ~run.reverse => run.seen[n] = None /\ entry.hours = run.hours /\ added = run.hours

LEMMA TablePlanned ==
  ASSUME ShiftInv, RowsOK, NEW run \in ShifterState, NEW new, Planned(run),
         NEW n, NEW chosen, NEW added, NEW entry, Wrote(run, new, n, chosen, added, entry)
  PROVE  Planned(new)
<1>0. /\ n \in run.left /\ chosen \in SUBSET rows[n] /\ added \in Int /\ added # 0
      /\ entry \in Entry \cup {None} /\ entry # run.seen[n]
      /\ new.seen = run.seen /\ new.reverse = run.reverse /\ new.hours = run.hours /\ new.left = run.left \ {n}
      /\ new.plan = [c \in Calls |-> IF c \in chosen THEN added ELSE run.plan[c]]
      /\ new.entries = [run.entries EXCEPT ![n] = entry]
      /\ run.reverse => entry = None /\ chosen = rows[n] /\ added = - run.seen[n].hours
      /\ ~run.reverse => run.seen[n] = None /\ entry.hours = run.hours /\ added = run.hours
  BY DEF Wrote
<1>1. n \in Names /\ run.plan \in [Calls -> Int] /\ run.entries \in Log /\ run.left \subseteq Names
  BY <1>0 DEF ShifterState
<1>2. \A o \in Names : new.entries[o] = IF o = n THEN entry ELSE run.entries[o]
  BY <1>0, <1>1 DEF Log
<1>3. run.entries[n] = run.seen[n]
  BY <1>0 DEF Planned
\* nothing was written to the table before
<1>4. \A c \in rows[n] : run.plan[c] = 0
  BY <1>1, <1>3 DEF Planned, ShiftInv, InOneTable, RowsOK
<1>5. \A o \in Names \ {n} : \A c \in rows[o] : c \in Calls /\ new.plan[c] = run.plan[c]
  BY <1>0, <1>1 DEF ShiftInv, InOneTable, RowsOK
<1>6. \A c \in rows[n] : c \in Calls /\ new.plan[c] = IF c \in chosen THEN added ELSE 0
  BY <1>0, <1>1, <1>4 DEF RowsOK
<1>7. \A c \in Calls : new.plan[c] # 0 => \E o \in Names : c \in rows[o] /\ new.entries[o] # new.seen[o]
  BY <1>0, <1>1, <1>2, <1>3, <1>4 DEF Planned
<1>8. ASSUME NEW o \in Names, new.entries[o] # new.seen[o]
      PROVE  IF new.reverse THEN Reversed(new, o) ELSE Applied(new, o)
  <2>1. CASE o = n
    <3>1. CASE run.reverse
      BY <1>0, <1>2, <1>6, <2>1, <3>1 DEF Reversed
    <3>2. CASE ~run.reverse
      <4>1. new.entries[n] = entry /\ entry # None
        BY <1>0, <1>1, <1>2, <3>2
      <4>2. new.seen[n] = None /\ entry.hours = new.hours /\ \A c \in rows[n] : new.plan[c] \in {0, new.hours}
        BY <1>0, <1>6, <3>2
      <4>3. Applied(new, n)
        BY <4>1, <4>2 DEF Applied
      <4> QED
        BY <1>0, <2>1, <3>2, <4>3
    <3> QED
      BY <3>1, <3>2
  <2>2. CASE o # n
    <3>1. new.entries[o] = run.entries[o] /\ run.entries[o] # run.seen[o]
      BY <1>0, <1>2, <1>8, <2>2
    <3>2. CASE run.reverse
      <4>1. Reversed(run, o)
        BY <3>1, <3>2 DEF Planned
      <4> QED
        BY <1>0, <1>5, <2>2, <3>1, <3>2, <4>1 DEF Reversed
    <3>3. CASE ~run.reverse
      <4>1. Applied(run, o)
        BY <3>1, <3>3 DEF Planned
      <4> QED
        BY <1>0, <1>5, <2>2, <3>1, <3>3, <4>1 DEF Applied
    <3> QED
      BY <3>2, <3>3
  <2> QED
    BY <2>1, <2>2
<1>9. \A o \in new.left : new.entries[o] = new.seen[o]
  BY <1>0, <1>1, <1>2 DEF Planned
<1> QED
  BY <1>0, <1>7, <1>8, <1>9 DEF Planned

LEMMA ShiftTableKeeps == ASSUME LogInv, ShiftInv, NEW s \in Shifters, ShiftTable(s) PROVE ShiftInv'
<1> DEFINE run == shifter[s]
           n == CHOOSE n \in run.left : TRUE
           entry == run.seen[n]
           done == [run EXCEPT !.left = @ \ {n}]
           skip == IF run.reverse THEN entry = None \/ entry.cutoff ELSE entry # None
           added == IF run.reverse THEN - entry.hours ELSE run.hours
           written == IF run.reverse THEN None ELSE [hours |-> run.hours, cutoff |-> run.cutoff]
           Shifting(chosen) ==
             [done EXCEPT !.plan = [c \in Calls |-> IF c \in chosen THEN added ELSE @[c]],
                          !.entries = [@ EXCEPT ![n] = written]]
<1>1. /\ run \in ShifterState /\ Planned(run) /\ RowsOK /\ run.pc = "shifting"
      /\ \A o \in Shifters \ {s} : ~ShifterAt(o, "shifting")
      /\ UNCHANGED <<rows, shifted, moves>>
  BY DEF ShiftInv, TzTypeOK, ShiftTable, ShifterAt, OneShifts, LogInv, GatewayTypeOK, gatewayVars, data
<1>2. n \in run.left /\ n \in Names
  BY <1>1 DEF ShiftTable, ShifterState
<1>3. entry \in Entry \cup {None}
  BY <1>1, <1>2 DEF ShifterState, Log
<1>4. \E chosen \in IF skip THEN {{}} ELSE Chosen(s, n) :
        shifter' = [shifter EXCEPT ![s] = IF skip THEN done ELSE Shifting(chosen)]
  BY DEF ShiftTable
<1>5. CASE skip
  <2>1. done \in ShifterState /\ done.pc = "shifting"
    BY <1>1 DEF ShifterState
  <2>2. Planned(done)
    BY <1>1 DEF Planned, Reversed, Applied, ShifterState
  <2>3. shifter' = [shifter EXCEPT ![s] = done]
    BY <1>4, <1>5
  <2> QED
    BY <1>1, <2>1, <2>2, <2>3, OneRunMoves
<1>6. CASE ~skip
  <2>1. PICK chosen \in Chosen(s, n) : shifter' = [shifter EXCEPT ![s] = Shifting(chosen)]
    BY <1>4, <1>6
  <2>2. chosen \in SUBSET rows[n] /\ (run.reverse => chosen = rows[n])
    BY DEF Chosen
  <2>3. /\ run.reverse => entry \in Entry
        /\ ~run.reverse => entry = None /\ run.hours \in Hours
    BY <1>1, <1>3, <1>6 DEF Planned, ShifterState
  <2>4. added \in Int /\ added # 0
    <3>1. CASE run.reverse
      <4>1. - entry.hours \in Int /\ - entry.hours < 0
        BY <2>3, <3>1, EntryHours
      <4> QED
        BY <3>1, <4>1
    <3>2. CASE ~run.reverse
      <4>1. added = run.hours /\ run.hours \in Hours
        BY <2>3, <3>2
      <4> HIDE DEF added
      <4> QED
        BY <4>1, HoursCount
    <3> QED
      BY <3>1, <3>2
  <2>5. /\ written \in Entry \cup {None} /\ written # entry
        /\ ~run.reverse => written.hours = run.hours
    BY <1>1, <2>3, EntryHours DEF Entry, ShifterState
  <2> DEFINE new == Shifting(chosen)
  <2>6. /\ new.seen = run.seen /\ new.reverse = run.reverse /\ new.hours = run.hours /\ new.pc = "shifting"
        /\ new.left = run.left \ {n}
        /\ new.plan = [c \in Calls |-> IF c \in chosen THEN added ELSE run.plan[c]]
        /\ new.entries = [run.entries EXCEPT ![n] = written]
    BY <1>1 DEF ShifterState
  <2>7. new \in ShifterState
    <3> HIDE DEF added, written, n
    <3>1. [c \in Calls |-> IF c \in chosen THEN added ELSE run.plan[c]] \in [Calls -> Int]
      BY <1>1, <2>4 DEF ShifterState
    <3>2. [run.entries EXCEPT ![n] = written] \in Log
      BY <1>1, <2>5 DEF ShifterState, Log
    <3> QED
      BY <1>1, <3>1, <3>2 DEF ShifterState
  <2>8. /\ run.reverse => written = None /\ chosen = rows[n] /\ added = - run.seen[n].hours
        /\ ~run.reverse => run.seen[n] = None /\ written.hours = run.hours /\ added = run.hours
    BY <2>2, <2>3, <2>5
  <2> HIDE DEF new, added, written, n, run
  <2>9. Planned(new)
    <3>1. Wrote(run, new, n, chosen, added, written)
      BY <1>2, <2>2, <2>4, <2>5, <2>6, <2>8 DEF Wrote
    <3> QED
      BY <1>1, <3>1, TablePlanned
  <2> QED
    BY <1>1, <2>1, <2>6, <2>7, <2>9, OneRunMoves DEF new
<1> QED
  BY <1>5, <1>6

LEMMA CommitShiftKeeps == ASSUME LogInv, ShiftInv, NEW s \in Shifters, CommitShift(s) PROVE ShiftInv'
<1> DEFINE run == shifter[s]
           plan == run.plan
<1>1. /\ run \in ShifterState /\ Planned(run) /\ RowsOK /\ run.pc = "shifting"
      /\ \A o \in Shifters \ {s} : ~ShifterAt(o, "shifting")
      /\ UNCHANGED rows
      /\ shifted \in Log /\ moves \in [Calls -> Seq(Int)] /\ shifter \in [Shifters -> ShifterState]
  BY DEF ShiftInv, TzTypeOK, CommitShift, ShifterAt, OneShifts, LogInv, GatewayTypeOK, gatewayVars, data
<1>2. /\ moves' = [c \in Calls |-> IF plan[c] = 0 THEN moves[c] ELSE Append(moves[c], plan[c])]
      /\ shifted' = [n \in Names |->
           IF run.entries[n] = run.seen[n] THEN shifted[n]
           ELSE IF run.reverse THEN None
           ELSE IF shifted[n] = None THEN run.entries[n] ELSE shifted[n]]
      /\ shifter' = [shifter EXCEPT ![s] = [NewShifter EXCEPT !.pc = "done"]]
  BY DEF CommitShift
<1>3. run.seen = shifted /\ plan \in [Calls -> Int] /\ run.entries \in Log
  BY <1>1 DEF Planned, ShifterState
<1>4. \A o \in Shifters : shifter'[o] = IF o = s THEN [NewShifter EXCEPT !.pc = "done"] ELSE shifter[o]
  BY <1>1, <1>2
<1>5. \A o \in Shifters : ~ShifterAt(o, "shifting")'
  <2>1. [NewShifter EXCEPT !.pc = "done"].pc = "done"
    BY NewShifterType DEF ShifterState
  <2> QED
    BY <1>1, <1>4, <2>1 DEF ShifterAt
<1> HIDE DEF run, plan
\* a table the run went through
<1>6. ASSUME NEW n \in Names, run.entries[n] # shifted[n], NEW c \in rows[n]
      PROVE  /\ run.reverse => /\ shifted[n] \in Entry /\ shifted'[n] = None
                               /\ plan[c] = - shifted[n].hours \/ (plan[c] = 0 /\ moves[c] = <<>>)
             /\ ~run.reverse => /\ shifted[n] = None /\ shifted'[n] = run.entries[n]
                                /\ run.entries[n] \in Entry /\ plan[c] \in {0, run.entries[n].hours}
  <2>1. shifted'[n] = IF run.reverse THEN None ELSE IF shifted[n] = None THEN run.entries[n] ELSE shifted[n]
    BY <1>2, <1>3, <1>6
  <2>2. CASE run.reverse
    <3>1. Reversed(run, n)
      BY <1>1, <1>3, <1>6, <2>2 DEF Planned
    <3>2. shifted[n] # None /\ (plan[c] = - shifted[n].hours \/ (plan[c] = 0 /\ moves[c] = <<>>))
      BY <1>3, <3>1 DEF Reversed, plan
    <3>3. shifted[n] \in Entry
      BY <1>1, <3>2 DEF Log
    <3> QED
      BY <2>1, <2>2, <3>2, <3>3
  <2>3. CASE ~run.reverse
    <3>1. Applied(run, n)
      BY <1>1, <1>3, <1>6, <2>3 DEF Planned
    <3>2. shifted[n] = None /\ run.entries[n] # None /\ plan[c] \in {0, run.entries[n].hours}
      BY <1>3, <3>1 DEF Applied, plan
    <3>3. run.entries[n] \in Entry
      BY <1>3, <3>2 DEF Log
    <3> QED
      BY <2>1, <2>3, <3>2, <3>3
  <2> QED
    BY <2>2, <2>3
<1>7. \A n \in Names : run.entries[n] = shifted[n] => shifted'[n] = shifted[n]
  BY <1>2, <1>3
\* a record it shifts is in such a table
<1>8. ASSUME NEW c \in Calls, plan[c] # 0
      PROVE  \E n \in Names : c \in rows[n] /\ run.entries[n] # shifted[n]
  BY <1>1, <1>3, <1>8 DEF Planned, plan
<1>9. TzTypeOK'
  <2>1. \A c \in Calls : moves'[c] \in Seq(Int)
    BY <1>1, <1>2, <1>3, AppendEnds
  <2>2. shifted' \in Log
    BY <1>1, <1>2, <1>3 DEF Log
  <2>3. [NewShifter EXCEPT !.pc = "done"] \in ShifterState
    BY NewShifterType DEF ShifterState
  <2>4. shifter' \in [Shifters -> ShifterState]
    BY <1>1, <1>2, <2>3
  <2> QED
    BY <1>2, <2>1, <2>2, <2>4 DEF TzTypeOK
<1>10. ASSUME NEW c \in Calls, plan[c] = 0
       PROVE  /\ moves'[c] = moves[c]
              /\ \A n \in Names : c \in rows[n] /\ Added(c) => shifted'[n] = shifted[n]
  <2>1. moves'[c] = moves[c]
    BY <1>2, <1>10
  <2>2. ASSUME NEW n \in Names, c \in rows[n], Added(c), run.entries[n] # shifted[n] PROVE FALSE
    <3>1. moves[c] # <<>> /\ shifted[n] # None
      BY <2>2 DEF ShiftInv, MovesRecorded, Added
    <3>2. run.reverse /\ shifted[n] \in Entry /\ plan[c] = - shifted[n].hours
      BY <1>6, <2>2, <3>1
    <3> QED
      BY <1>10, <3>2, EntryHours
  <2> QED
    BY <1>7, <2>1, <2>2
<1>11. ASSUME NEW c \in Calls, NEW n \in Names, c \in rows[n], run.entries[n] # shifted[n], plan[c] # 0
       PROVE  /\ moves'[c] = Append(moves[c], plan[c]) /\ plan[c] \in Int
              /\ Added(c) => plan[c] = - Last(moves[c])
              /\ plan[c] > 0 => shifted'[n] # None /\ shifted'[n].hours = plan[c]
  <2>1. moves'[c] = Append(moves[c], plan[c]) /\ plan[c] \in Int
    BY <1>2, <1>3, <1>11
  <2>2. Added(c) => shifted[n] # None /\ shifted[n].hours = Last(moves[c])
    BY <1>11 DEF ShiftInv, MovesRecorded
  <2>3. CASE run.reverse
    <3>1. shifted[n] \in Entry /\ plan[c] = - shifted[n].hours
      BY <1>6, <1>11, <2>3
    <3>2. ~(plan[c] > 0)
      BY <3>1, EntryHours
    <3> QED
      BY <2>1, <2>2, <3>1, <3>2
  <2>4. CASE ~run.reverse
    <3>1. shifted[n] = None /\ shifted'[n] \in Entry /\ plan[c] = shifted'[n].hours
      BY <1>6, <1>11, <2>4
    <3> QED
      BY <2>1, <2>2, <3>1, EntryHours
  <2> QED
    BY <2>3, <2>4
<1>12. MovesRecorded'
  <2> SUFFICES ASSUME NEW c \in Calls
               PROVE  /\ moves'[c] # <<>> => \E n \in Names : c \in rows[n]
                      /\ \A n \in Names : c \in rows[n] /\ Added(c)' =>
                           shifted'[n] # None /\ shifted'[n].hours = Last(moves'[c])
    BY <1>1 DEF MovesRecorded
  <2>1. CASE plan[c] = 0
    BY <1>10, <2>1 DEF ShiftInv, MovesRecorded, Added
  <2>2. CASE plan[c] # 0
    <3>1. PICK m \in Names : c \in rows[m] /\ run.entries[m] # shifted[m]
      BY <1>8, <2>2
    <3>2. \A n \in Names : c \in rows[n] => n = m
      BY <3>1 DEF ShiftInv, InOneTable
    <3>3. Last(moves'[c]) = plan[c]
      <4>1. moves'[c] = Append(moves[c], plan[c]) /\ plan[c] \in Int /\ moves[c] \in Seq(Int)
        BY <1>1, <1>11, <2>2, <3>1
      <4> QED
        BY <4>1, AppendEnds
    <3>4. Added(c)' => plan[c] > 0
      BY <3>3 DEF Added
    <3> QED
      BY <1>11, <2>2, <3>1, <3>2, <3>3, <3>4
  <2> QED
    BY <2>1, <2>2
<1>13. NeverShiftedTwice'
  <2> SUFFICES ASSUME NEW c \in Calls, NEW i \in DOMAIN moves'[c], i > 1, moves'[c][i - 1] > 0
               PROVE  moves'[c][i] = - moves'[c][i - 1]
    BY DEF NeverShiftedTwice
  <2>1. CASE plan[c] = 0
    BY <1>10, <2>1 DEF ShiftInv, NeverShiftedTwice
  <2>2. CASE plan[c] # 0
    <3> DEFINE s0 == moves[c]
               h == plan[c]
    <3>1. PICK m \in Names : c \in rows[m] /\ run.entries[m] # shifted[m]
      BY <1>8, <2>2
    <3>2. moves'[c] = Append(s0, h) /\ h \in Int /\ s0 \in Seq(Int) /\ (Added(c) => h = - Last(s0))
      BY <1>1, <1>11, <2>2, <3>1
    <3>3. /\ i \in 1..(Len(s0) + 1) /\ Len(s0) \in Nat /\ DOMAIN s0 = 1..Len(s0)
          /\ \A j \in 1..Len(s0) : moves'[c][j] = s0[j]
          /\ moves'[c][Len(s0) + 1] = h /\ (s0 # <<>> <=> Len(s0) > 0)
      <4>1. Len(Append(s0, h)) = Len(s0) + 1 /\ Append(s0, h)[Len(s0) + 1] = h
        BY <3>2
      <4> QED
        BY <3>2, <4>1, AppendEnds
    <3> HIDE DEF s0, h
    <3>4. CASE i = Len(s0) + 1
      <4>1. i - 1 = Len(s0) /\ i - 1 \in 1..Len(s0)
        BY <3>3, <3>4
      <4>2. s0[Len(s0)] > 0 /\ s0 # <<>>
        BY <3>3, <4>1
      <4>3. h = - s0[Len(s0)]
        BY <3>2, <4>2 DEF Added, Last, s0
      <4> QED
        BY <3>3, <3>4, <4>1, <4>3
    <3>5. CASE i \in 1..Len(s0)
      <4>1. i - 1 \in 1..Len(s0)
        BY <3>3, <3>5
      <4>2. i \in DOMAIN s0 /\ moves'[c][i] = s0[i] /\ moves'[c][i - 1] = s0[i - 1]
        BY <3>3, <3>5, <4>1
      <4> QED
        BY <4>2 DEF ShiftInv, NeverShiftedTwice, s0
    <3> QED
      BY <3>3, <3>4, <3>5
  <2> QED
    BY <2>1, <2>2
<1>14. InOneTable' /\ OneShifts'
  BY <1>1, <1>5 DEF ShiftInv, InOneTable, OneShifts
<1> QED
  BY <1>5, <1>9, <1>12, <1>13, <1>14 DEF ShiftInv

(***************************************************************************)
(* The theorem.                                                            *)
(***************************************************************************)
LEMMA ShiftBegins == ASSUME TzInit PROVE ShiftInv
<1>1. /\ rows = [n \in Names |-> IF n = First.name THEN Earlier ELSE {}]
      /\ shifted = [n \in Names |-> None] /\ moves = [c \in Calls |-> <<>>]
      /\ shifter = [s \in Shifters |-> NewShifter]
  BY DEF TzInit, Init
<1>2. TzTypeOK
  BY <1>1, NewShifterType DEF TzTypeOK, Log
<1>3. InOneTable
  BY <1>1 DEF InOneTable
<1>4. \A s \in Shifters : ~ShifterAt(s, "shifting")
  BY <1>1, NewShifterType DEF ShifterAt
<1>5. MovesRecorded /\ NeverShiftedTwice
  BY <1>1 DEF MovesRecorded, NeverShiftedTwice, Added
<1> QED
  BY <1>2, <1>3, <1>4, <1>5 DEF ShiftInv, OneShifts

LEMMA ShiftKeeps == ASSUME LogInv, ShiftInv, [TzNext]_vars PROVE ShiftInv'
<1>1. RowsOK
  BY DEF LogInv, GatewayTypeOK
<1>2. CASE GatewayNext /\ UNCHANGED <<shifted, moves, shifter>>
  BY <1>1, <1>2, RowsGrow, GatewayShift
<1>3. CASE Shift
  BY <1>3, StartShiftKeeps, ShiftTableKeeps, CommitShiftKeeps, ShiftDiesKeeps DEF Shift
<1>4. CASE UNCHANGED vars
  BY <1>1, <1>4, GatewayShift DEF vars, gatewayVars, data, RowsStep
<1> QED
  BY <1>2, <1>3, <1>4 DEF TzNext

\* Whatever runs of the backfill overlap, end or are followed by others, and
\* whatever the integration API writes at the same time, the hours of a record
\* are never added on top of hours that were added before.
THEOREM NeverShiftedTwiceHolds == TzSpec => []NeverShiftedTwice
<1>1. TzInit => ShiftInv
  BY ShiftBegins
<1>2. LogInv /\ ShiftInv /\ [TzNext]_vars => ShiftInv'
  BY ShiftKeeps
<1>3. ShiftInv => NeverShiftedTwice
  BY DEF ShiftInv
<1> QED
  BY <1>1, <1>2, <1>3, LogAlways, PTL DEF TzSpec
=============================================================================
