------------------------------ MODULE Gateway ------------------------------
(***************************************************************************)
(* The integration API: callers send records to Type A models and read     *)
(* models back, each call leaves its line in the log of transactions, and  *)
(* administrators create, edit and delete the models and the API keys the  *)
(* calls and their log lines refer to.                                     *)
(*                                                                         *)
(* A call runs in database transactions of its own: one authenticates, one *)
(* does the work and writes the line, and when that one is rolled back a   *)
(* third writes the line of a failure.  A commit may be refused, or done   *)
(* and never acknowledged, and the backend may end before the caller gets  *)
(* the answer.  A step of an action is a step other transactions or the    *)
(* caller can see, or that decides what they make it fail on.              *)
(***************************************************************************)
EXTENDS Naturals, SequencesExt

CONSTANTS
  Calls,       \* calls of the integration API
  Earlier,     \* those answered before: they sent First.payload
  First,       \* the model there is before: its name and definition
  Admins,      \* administrators' requests
  Models,      \* identities of models, never used twice
  Names,       \* names of models; a name's table is dm_<name>
  Keys,        \* API keys
  Attrs,       \* attribute names
  TypeOf,      \* the data type each attribute is declared with
  Required,    \* the attributes declared required
  Definitions, \* what an administrator may submit: type, attributes, primary key
  Scopes,      \* scopes a key may be given: directions and models
  Payloads,    \* what a call carries: a kind of value per attribute, or None
  MaxChanges,  \* administrators' requests, failing commits and crashes
  None, Gone   \* never there; there once and deleted

\* the kinds of JSON value each data type takes
Admitted ==
  [text |-> {"text", "date", "datetime"}, integer |-> {"integer"}, float |-> {"integer", "number"},
   boolean |-> {"boolean"}, date |-> {"date"}, datetime |-> {"date", "datetime"}, json |-> {"object"}]

Kinds == {"inbound", "list", "key"}

Direction(kind) == IF kind = "inbound" THEN "inbound" ELSE "outbound"

ASSUME GatewayAssumption ==
  /\ Earlier \subseteq Calls
  /\ First.name \in Names /\ First.definition \in Definitions /\ First.payload \in Payloads
  /\ First.definition.type = "A"
  /\ TypeOf \in [Attrs -> DOMAIN Admitted] /\ Required \subseteq Attrs
  /\ Payloads \subseteq [Attrs -> (UNION {Admitted[d] : d \in DOMAIN Admitted}) \cup {None}]
  /\ Scopes \subseteq [directions : SUBSET {"inbound", "outbound"}, models : SUBSET Names]
  /\ Definitions \subseteq [type : {"A", "B"}, attrs : SUBSET Attrs, pk : Attrs \cup {None}]
  /\ None \notin Models \cup Names \cup Keys \cup Attrs \cup 0..599 /\ None # Gone
  /\ \A S \in SUBSET Attrs : S # None
  /\ \A x \in {None, Gone} :
       x \notin [name : Names, type : {"A", "B"}, attrs : SUBSET Attrs, pk : Attrs \cup {None},
                table : Names \cup {None}, active : BOOLEAN]
               \cup [active : BOOLEAN, scope : Scopes]

VARIABLES
  models,  \* the models: None, Gone or the row of data_models
  keys,    \* the API keys: None, Gone or whether active and the scope
  tables,  \* the columns of each name's generated table, None when there is none
  rows,    \* the calls whose record each generated table holds
  logs,    \* per call, the lines of the log of transactions it wrote
  call,    \* per call, how far it has come
  admin,   \* per administrator's request, how far it has come
  plain,   \* history: models created with a table of their own, never renamed nor Type B
  changes  \* how much of MaxChanges is used

data == <<models, keys, tables, rows, logs>>
gatewayVars == <<data, call, admin, plain, changes>>

Live(x) == x \notin {None, Gone}

LiveModels == {m \in Models : Live(models[m])}

NewCall == [pc |-> "new", kind |-> None, key |-> None, payload |-> None, raw |-> FALSE,
            mid |-> None, model |-> None, error |-> None, code |-> None,
            lost |-> FALSE]  \* history: its commit was done and not acknowledged

At(c, pc) == call[c].pc = pc

(***************************************************************************)
(* Authentication: a valid token of an active user, or else the key.       *)
(***************************************************************************)
Anyone == [directions |-> {"inbound", "outbound"}, models |-> Names]

\* the caller the request is taken for: a user has no key, None is refused
Caller(token, key) ==
  IF token THEN [key |-> None, scope |-> Anyone]
  ELSE IF key = None THEN None
  ELSE IF ~Live(keys[key]) THEN None
  ELSE IF ~keys[key].active THEN None
  ELSE [key |-> key, scope |-> keys[key].scope]

InScope(caller, kind, n) ==
  /\ Direction(kind) \in caller.scope.directions
  /\ n \in caller.scope.models

\* each endpoint's answer to each way a call can end; a key finds its model or its row missing alike
InboundStatus(error) == [scope |-> 403, model |-> 404, refused |-> 400, validation |-> 422, sql |-> 500][error]

ListStatus(error) ==
  [scope |-> 403, model |-> 404, value |-> 400, validation |-> 422, conflict |-> 409, sql |-> 500][error]

KeyStatus(error) ==
  [scope |-> 403, model |-> 404, lookup |-> 404, attribute |-> 400, value |-> 400,
   validation |-> 422, conflict |-> 409, sql |-> 500][error]

Status(kind, error) ==
  CASE kind = "inbound" -> InboundStatus(error)
    [] kind = "list" -> ListStatus(error)
    [] kind = "key" -> KeyStatus(error)

Answered(kind, code) == [NewCall EXCEPT !.pc = "done", !.kind = kind, !.code = code]

\* a call ends; what it stored stays known
Ended(c, code) ==
  [Answered(call[c].kind, code) EXCEPT
     !.payload = IF \E n \in Names : c \in rows[n] THEN call[c].payload ELSE None, !.lost = call[c].lost]

\* authenticates, checks the scope and loads the model by its name
Received(kind, token, key, n, p, raw) ==
  LET caller == Caller(token, key)
      found == {m \in LiveModels : models[m].name = n /\ models[m].active}
  IN  IF caller = None THEN Answered(kind, 401)
      ELSE IF ~InScope(caller, kind, n) THEN Answered(kind, Status(kind, "scope"))
      ELSE IF found = {} THEN Answered(kind, Status(kind, "model"))
      ELSE LET m == CHOOSE m \in found : TRUE
           IN  [NewCall EXCEPT !.pc = "found", !.kind = kind, !.key = caller.key, !.payload = p,
                               !.raw = raw /\ models[m].type = "B", !.mid = m, !.model = models[m]]

\* a refusal leaves no line; nothing is written but the key's time of last use
Receive(c) ==
  /\ At(c, "new")
  /\ \E kind \in Kinds, token \in BOOLEAN, key \in Keys \cup {None}, n \in Names,
        p \in Payloads, raw \in BOOLEAN :
       /\ token => key = None
       /\ kind = "inbound" => ~raw
       /\ kind = "key" => \A a \in Attrs : p[a] # None
       /\ call' = [call EXCEPT ![c] = Received(kind, token, key, n, p, raw)]
  /\ UNCHANGED <<data, admin, plain, changes>>

(***************************************************************************)
(* The log of transactions.                                                *)
(***************************************************************************)
\* a line's foreign keys: its model and its key are still there
Linked(c) ==
  /\ Live(models[call[c].mid])
  /\ call[c].key # None => Live(keys[call[c].key])

Line(c, status) == [status |-> status, model |-> call[c].mid, key |-> call[c].key]

Logged(c, status) == [logs EXCEPT ![c] = Append(@, Line(c, status))]

\* a call that has written a line it has not committed locks the rows the line refers to
Holds(c, m, k) ==
  /\ At(c, "stored")
  /\ call[c].mid = m \/ (call[c].key = k /\ k # None)

(***************************************************************************)
(* The work of a call, on the model as it was loaded.                      *)
(***************************************************************************)
TableOf(model) == IF model.table = None THEN model.name ELSE model.table

Given(p, model) == {a \in model.attrs : p[a] # None}

Fits(a, value) == value \in Admitted[TypeOf[a]]

PayloadValid(model, p) ==
  /\ model.attrs \cap Required \subseteq Given(p, model)
  /\ \A a \in Given(p, model) : Fits(a, p[a])

HasColumns(model, columns) ==
  /\ tables[TableOf(model)] # None
  /\ columns \subseteq tables[TableOf(model)]

\* the INSERT names the columns of the attributes the payload gives; PostgreSQL may still refuse a value
Insert(c) ==
  LET model == call[c].model
      p == call[c].payload
  IN  IF ~PayloadValid(model, p) THEN {"validation"}
      ELSE IF ~HasColumns(model, Given(p, model)) THEN {"sql"} ELSE {"ok", "sql"}

\* the text of a filter or of a key, as a value of the attribute's type
Coerces(a, value) == TypeOf[a] = "text" \/ Fits(a, value)

\* a listing's filters are the attributes the payload gives; the SELECT names every attribute
Select(model, filters, p) ==
  IF ~(filters \subseteq model.attrs) \/ \E a \in filters : ~Coerces(a, p[a]) THEN {"validation"}
  ELSE IF ~HasColumns(model, model.attrs) THEN {"sql"} ELSE {"ok"}

\* aggregations, mapped reads and matviews may each end in any of these ways
List(c) ==
  LET model == call[c].model
      p == call[c].payload
      functions == {"ok", "validation", "value", "sql"}
  IN  functions \cup
      IF model.type = "B" THEN IF call[c].raw THEN {"value"} ELSE {"ok", "validation", "sql"}
      ELSE Select(model, {a \in Attrs : p[a] # None}, p)

Matching(model, value) ==
  {r \in rows[TableOf(model)] : call[r].payload[model.pk] = value}

ByKey(c) ==
  LET model == call[c].model
      p == call[c].payload
  IN  IF model.type = "B"
      THEN IF call[c].raw THEN {"value"} ELSE {"ok", "lookup", "value", "validation", "conflict", "sql"}
      ELSE IF model.pk = None THEN {"value"}
      ELSE IF model.pk \notin model.attrs THEN {"attribute"}
      ELSE LET read == Select(model, {model.pk}, p)
           IN  IF read = {"ok"} /\ Matching(model, p[model.pk]) = {} THEN {"lookup"} ELSE read

Outcomes(c) ==
  CASE call[c].kind = "inbound" -> Insert(c)
    [] call[c].kind = "list" -> List(c)
    [] call[c].kind = "key" -> ByKey(c)

Refused(c) == call[c].kind = "inbound" /\ call[c].model.type # "A"

Change == changes < MaxChanges /\ changes' = changes + 1

\* the line of a failure is written in a transaction of its own, unless its model or its
\* key has been deleted, or the commit fails; one that is not acknowledged counts as failed
FailureTold(c, error) ==
  \E written, known \in BOOLEAN :
    /\ known => written
    /\ written => Linked(c)
    /\ IF known \/ ~Linked(c) THEN UNCHANGED changes ELSE Change
    /\ logs' = IF written THEN Logged(c, "failed") ELSE logs
    /\ call' = [call EXCEPT ![c] = Ended(c, Status(@.kind, IF known THEN error ELSE "sql"))]

\* a record sent to a Type B model
Refuse(c) ==
  /\ At(c, "found") /\ Refused(c)
  /\ FailureTold(c, "refused")
  /\ UNCHANGED <<models, keys, tables, rows, admin, plain>>

\* the record or the answer, and the line, not committed yet
Work(c) ==
  /\ At(c, "found") /\ ~Refused(c)
  /\ \E o \in Outcomes(c) :
       LET error == IF o = "ok" /\ ~Linked(c) THEN "sql" ELSE o
       IN  call' = [call EXCEPT ![c].pc = IF error = "ok" THEN "stored" ELSE "broken",
                                ![c].error = IF error = "ok" THEN None ELSE error]
  /\ UNCHANGED <<data, admin, plain, changes>>

\* the record and the line are there, whether or not the call gets to know it
Committed(c) ==
  /\ rows' = IF call[c].kind = "inbound"
             THEN [rows EXCEPT ![TableOf(call[c].model)] = @ \cup {c}] ELSE rows
  /\ logs' = Logged(c, "success")

Commit(c) ==
  /\ At(c, "stored")
  /\ Committed(c)
  /\ call' = [call EXCEPT ![c].pc = "committed"]
  /\ UNCHANGED <<models, keys, tables, admin, plain, changes>>

\* a commit that is refused, and one whose acknowledgement does not come
CommitBreaks(c) ==
  /\ At(c, "stored") /\ Change
  /\ \E lost \in BOOLEAN :
       /\ IF lost THEN Committed(c) ELSE UNCHANGED <<rows, logs>>
       /\ call' = [call EXCEPT ![c].pc = "broken", ![c].error = "sql", ![c].lost = lost]
  /\ UNCHANGED <<models, keys, tables, admin, plain>>

Answer(c) ==
  /\ At(c, "committed")
  /\ call' = [call EXCEPT ![c] = Ended(c, 200)]
  /\ UNCHANGED <<data, admin, plain, changes>>

\* after the rollback
Fail(c) ==
  /\ At(c, "broken")
  /\ FailureTold(c, call[c].error)
  /\ UNCHANGED <<models, keys, tables, rows, admin, plain>>

(***************************************************************************)
(* Administrators.                                                         *)
(***************************************************************************)
IdleAdmin == [pc |-> "idle", mid |-> None, key |-> None, seen |-> None, unlinked |-> {}]

Taken(n, others) == \E m \in others : models[m].name = n

NewModel(n, d) ==
  [name |-> n, type |-> d.type, attrs |-> d.attrs, pk |-> d.pk,
   table |-> IF d.type = "A" THEN n ELSE None, active |-> TRUE]

\* a table of the name is kept from a deleted model, or made with the attributes' columns
CreateModel(m, n, d) ==
  /\ Change /\ models[m] = None
  /\ ~Taken(n, LiveModels)
  /\ models' = [models EXCEPT ![m] = NewModel(n, d)]
  /\ tables' = IF d.type = "A" /\ tables[n] = None THEN [tables EXCEPT ![n] = d.attrs] ELSE tables
  /\ plain' = IF d.type = "A" /\ tables[n] = None THEN plain \cup {m} ELSE plain
  /\ UNCHANGED <<keys, rows, logs, call, admin>>

Deactivate(m) ==
  /\ Change /\ m \in LiveModels
  /\ models' = [models EXCEPT ![m].active = FALSE]
  /\ UNCHANGED <<keys, tables, rows, logs, call, admin, plain>>

EditBegins(a, m) ==
  /\ Change /\ admin[a].pc = "idle" /\ m \in LiveModels
  /\ admin' = [admin EXCEPT ![a] = [IdleAdmin EXCEPT !.pc = "editing", !.mid = m, !.seen = models[m]]]
  /\ UNCHANGED <<data, call, plain>>

\* mutant: columns are added before the new attributes are set
SyncedBefore(new, seen) ==
  IF new.type = "A" /\ tables[new.name] # None
  THEN [tables EXCEPT ![new.name] = @ \cup seen.attrs] ELSE tables

\* columns are added to the table of the model's name, none is ever dropped
Synced(new, seen) ==
  IF new.type = "A" /\ tables[new.name] # None
  THEN [tables EXCEPT ![new.name] = @ \cup new.attrs] ELSE tables

Edited(seen, n, d, active) ==
  [seen EXCEPT !.name = n, !.type = d.type, !.attrs = d.attrs, !.pk = d.pk, !.active = active]

\* only what the request found different is written
Overlaid(new, seen, row) == [f \in DOMAIN new |-> IF new[f] # seen[f] THEN new[f] ELSE row[f]]

Overwrite(m, seen, new) ==
  /\ new.name # seen.name => \A c \in Calls : ~Holds(c, m, None)
  /\ models' = [models EXCEPT ![m] = Overlaid(new, seen, models[m])]
  /\ tables' = Synced(new, seen)
  /\ plain' = IF new.name = new.table /\ new.type = "A" THEN plain ELSE plain \ {m}

\* a name that is taken and a model that is gone make the whole request fail
EditSaves(a) ==
  LET m == admin[a].mid
      seen == admin[a].seen
  IN  /\ admin[a].pc = "editing"
      /\ \E n \in Names, d \in Definitions, active \in BOOLEAN :
           IF models[m] = Gone \/ (n # seen.name /\ Taken(n, LiveModels \ {m}))
           THEN UNCHANGED <<models, tables, plain>>
           ELSE Overwrite(m, seen, Edited(seen, n, d, active))
      /\ admin' = [admin EXCEPT ![a] = IdleAdmin]
      /\ UNCHANGED <<keys, rows, logs, call, changes>>

CreateKey(k, scope) ==
  /\ Change /\ keys[k] = None
  /\ keys' = [keys EXCEPT ![k] = [active |-> TRUE, scope |-> scope]]
  /\ UNCHANGED <<models, tables, rows, logs, call, admin, plain>>

\* a key is edited, switched off or on, or past its expiry
UpdateKey(k, active, scope) ==
  /\ Change /\ Live(keys[k])
  /\ keys' = [keys EXCEPT ![k] = [active |-> active, scope |-> scope]]
  /\ keys' # keys
  /\ UNCHANGED <<models, tables, rows, logs, call, admin, plain>>

Refers(line, m, k) == (m # None /\ line.model = m) \/ (k # None /\ line.key = k)

\* the lines that refer to a model or to a key
Referring(m, k) == UNION {{c} \X {i \in DOMAIN logs[c] : Refers(logs[c][i], m, k)} : c \in Calls}

\* a model (or a key) is deleted: first the lines that refer to it lose the reference ...
Unlink(a, m, k) ==
  /\ Change /\ admin[a].pc = "idle"
  /\ \/ m \in LiveModels /\ k = None
     \/ m = None /\ k \in Keys /\ Live(keys[k])
  /\ admin' = [admin EXCEPT ![a] = [IdleAdmin EXCEPT !.pc = "deleting", !.mid = m, !.key = k,
                                      !.unlinked = Referring(m, k)]]
  /\ UNCHANGED <<data, call, plain>>

Without(line, m, k) ==
  [line EXCEPT !.model = IF @ = m THEN None ELSE @, !.key = IF @ = k THEN None ELSE @]

\* mutant: the lines go with what they refer to
DeleteRowCascades(a) ==
  LET m == admin[a].mid
      k == admin[a].key
  IN  /\ admin[a].pc = "deleting"
      /\ \A c \in Calls : ~Holds(c, m, k)
      /\ models' = IF m = None THEN models ELSE [models EXCEPT ![m] = Gone]
      /\ keys' = IF k = None THEN keys ELSE [keys EXCEPT ![k] = Gone]
      /\ logs' = [c \in Calls |-> IF \E i \in DOMAIN logs[c] : Refers(logs[c][i], m, k) THEN <<>> ELSE logs[c]]
      /\ admin' = [admin EXCEPT ![a] = IdleAdmin]
      /\ UNCHANGED <<tables, rows, call, plain, changes>>

\* ... then its row goes, once no call holds it; a line committed since makes the whole request fail
DeleteRow(a) ==
  LET m == admin[a].mid
      k == admin[a].key
  IN  /\ admin[a].pc = "deleting"
      /\ \A c \in Calls : ~Holds(c, m, k)
      /\ IF ~(Referring(m, k) \subseteq admin[a].unlinked)
         THEN UNCHANGED <<models, keys, logs>>
         ELSE /\ models' = IF m = None THEN models ELSE [models EXCEPT ![m] = Gone]
              /\ keys' = IF k = None THEN keys ELSE [keys EXCEPT ![k] = Gone]
              /\ logs' = [c \in Calls |-> [i \in DOMAIN logs[c] |-> Without(logs[c][i], m, k)]]
      /\ admin' = [admin EXCEPT ![a] = IdleAdmin]
      /\ UNCHANGED <<tables, rows, call, plain, changes>>

\* the backend ends: what was not committed is undone and nobody is answered
Crash ==
  /\ Change
  /\ call' = [c \in Calls |-> IF call[c].pc \in {"found", "stored", "committed", "broken"}
                              THEN Ended(c, None) ELSE call[c]]
  /\ admin' = [a \in Admins |-> IdleAdmin]
  /\ UNCHANGED <<data, plain>>

Init ==
  \E m \in Models :
    /\ models = [x \in Models |-> IF x = m THEN NewModel(First.name, First.definition) ELSE None]
    /\ tables = [x \in Names |-> IF x = First.name THEN First.definition.attrs ELSE None]
    /\ plain = {m}
    /\ keys = [k \in Keys |-> None]
    /\ rows = [x \in Names |-> IF x = First.name THEN Earlier ELSE {}]
    /\ logs = [c \in Calls |->
         IF c \in Earlier THEN <<[status |-> "success", model |-> m, key |-> None]>> ELSE <<>>]
    /\ call = [c \in Calls |->
         IF c \in Earlier THEN [Answered("inbound", 200) EXCEPT !.payload = First.payload] ELSE NewCall]
    /\ admin = [a \in Admins |-> IdleAdmin]
    /\ changes = 0

Administer ==
  \/ \E m \in Models, n \in Names, d \in Definitions : CreateModel(m, n, d)
  \/ \E m \in Models : Deactivate(m)
  \/ \E a \in Admins, m \in Models : EditBegins(a, m)
  \/ \E a \in Admins : EditSaves(a) \/ DeleteRow(a)
  \/ \E k \in Keys, scope \in Scopes : CreateKey(k, scope) \/ UpdateKey(k, TRUE, scope)
  \/ \E k \in Keys, scope \in Scopes : UpdateKey(k, FALSE, scope)
  \/ \E a \in Admins, m \in Models \cup {None}, k \in Keys \cup {None} : Unlink(a, m, k)

Serve ==
  \E c \in Calls :
    Receive(c) \/ Refuse(c) \/ Work(c) \/ Commit(c) \/ CommitBreaks(c) \/ Answer(c) \/ Fail(c)

GatewayNext == Serve \/ Administer \/ Crash

(***************************************************************************)
(* Properties.                                                             *)
(***************************************************************************)
Succeeded(c) == \E i \in DOMAIN logs[c] : logs[c][i].status = "success"

\* The log tells what became of every call.  A record is in some table exactly
\* when its call has the line of a success.  A caller told of success has that line
\* and no other; one told of a failure has no success, unless the acknowledgement of
\* the commit was lost, which alone gives a call two lines; a refused caller has no
\* line.  Lines outlive the models and keys they name, and never name one that is gone.
RowsAreLogged ==
  \A c \in Calls :
    /\ (\E n \in Names : c \in rows[n]) <=> (call[c].kind = "inbound" /\ Succeeded(c))
    /\ call[c].code = 200 => Len(logs[c]) = 1 /\ Succeeded(c)
    /\ Succeeded(c) /\ ~call[c].lost => call[c].code \in {200, None}
    /\ IF call[c].lost THEN Len(logs[c]) <= 2 /\ Succeeded(c) ELSE Len(logs[c]) <= 1
    /\ call[c].code \in {401, 403} => logs[c] = <<>>
    /\ \A i \in DOMAIN logs[c] : LET line == logs[c][i] IN
         /\ line.model # None => Live(models[line.model])
         /\ line.key # None => Live(keys[line.key])

\* The generated table of a model holds every attribute the model declares, for
\* a model that made its table and was never renamed nor Type B: no record that
\* fits the model is lost for want of a column, whoever edits it at once.
AttributesHaveColumns ==
  \A m \in plain \cap LiveModels : HasColumns(models[m], models[m].attrs)

\* What a comment of create_data_model says: a table that exists already is an
\* orphan, so two models never write to one table.
NoSharedTable ==
  \A m, o \in LiveModels :
    m # o /\ models[m].type = "A" /\ models[o].type = "A" => TableOf(models[m]) # TableOf(models[o])

\* What the docstrings of both deletes say: no log line makes a delete fail.
DeletesSucceed ==
  [][\A a \in Admins : DeleteRow(a) =>
       /\ admin[a].mid # None => models'[admin[a].mid] = Gone
       /\ admin[a].key # None => keys'[admin[a].key] = Gone]_gatewayVars
=============================================================================
