---------------------------- MODULE TypeBMapping ----------------------------
(***************************************************************************)
(* Type B data models: a mapping of attributes to columns of several       *)
(* source tables and the joins between them.                               *)
(*                                                                         *)
(* A mapping is saved once and planned again, over the data of the moment, *)
(* by every read: the planner validates the joins, orders them and decides *)
(* whether each join key is unique, and the SELECT runs afterwards, in     *)
(* another statement.  The builder can also be written and read as SQL of  *)
(* a small subset, which never runs: it is parsed to the same mapping.     *)
(*                                                                         *)
(* A table is a record of its schema and name.  Its rows are records of    *)
(* every column; Null is 0 and the smallest value, as in DESC NULLS LAST.  *)
(* Row identity is the field "id", which is a column of some tables only.  *)
(***************************************************************************)
EXTENDS Integers, SequencesExt

CONSTANTS
  Tables,       \* tables of the source database
  ColType,      \* for each table, the platform type of each of its columns
  AllowedSchemas,
  Sortable,     \* platform types a recency column may have
  Default,      \* the recency column of a mapping that names none
  Payloads,     \* mappings that are submitted to create a model
  Updates,      \* partial mappings that are submitted to edit it
  Statements,   \* SELECT statements pasted into the editor
  Templates,    \* templates of models: a primary key, attributes, whether it has a config
  Overrides,    \* what a request for a model of a template lays over it; None is the template's
  PageSize,     \* rows of a preview
  Data,         \* contents of the tables when a history begins
  Inserts,      \* rows other programs may insert: <<table, row>>
  MaxInserts,   \* bound on their number in one history
  None

Null == 0

ASSUME MappingAssumption ==
  /\ DOMAIN ColType = Tables
  /\ MaxInserts \in Nat /\ PageSize \in Nat
  /\ None \notin Payloads /\ Default # None

\* a mapping has these fields and a list of joins
ListOfJoins(rels) == rels \in Seq(ToSet(rels))

IsMapping(p) ==
  /\ p = [primary |-> p.primary, attrs |-> p.attrs, rels |-> p.rels,
          entry |-> p.entry, latest |-> p.latest, recency |-> p.recency]
  /\ ListOfJoins(p.rels) /\ p.latest \in BOOLEAN

ASSUME RequestAssumption ==
  /\ \A p \in Payloads : IsMapping(p)
  /\ \A u \in Updates : (u.rels # None => ListOfJoins(u.rels)) /\ u.latest \in BOOLEAN \cup {None}
  /\ \A s \in Statements : ListOfJoins(s.joins)
  /\ \A o \in Overrides : ListOfJoins(o.rels) /\ o.latest \in BOOLEAN

VARIABLES
  data,       \* rows of each table
  inserted,   \* how many rows other programs have inserted
  builder,    \* the mapping on the screen: what was submitted or parsed last
  stored,     \* the data model's row, or None
  promised,   \* history: what validation said of the mapping that was saved
  plan,       \* the validation a read holds between its probes and its SELECT
  answer,     \* what the last read returned
  touched     \* history: what a row has been inserted since ("model", "read")

vars == <<data, inserted, builder, stored, promised, plan, answer, touched>>

Columns(t) == DOMAIN ColType[t]
Rights(rels) == {rels[i].right : i \in DOMAIN rels}
AttrTables(p) == {a.table : a \in p.attrs}

(***************************************************************************)
(* The schema of a payload.  At most one attribute is flagged as primary   *)
(* key and it is the one the payload names, if it names one.               *)
(***************************************************************************)
Flagged(p) == {a.name : a \in {b \in p.attrs : b.pk}}

PrimaryName(p) == IF Flagged(p) # {} THEN CHOOSE n \in Flagged(p) : TRUE ELSE p.primary

WellFormed(p) ==
  LET names == {a.name : a \in p.attrs}
  IN  /\ p.attrs # {}
      /\ \A a, b \in p.attrs : a.name = b.name => a = b
      /\ names \cap {"id", "raw_payload", "created_at", "updated_at"} = {}
      /\ p.primary \in names \cup {None}
      /\ Cardinality(Flagged(p)) <= 1
      /\ Flagged(p) # {} => p.primary \in Flagged(p) \cup {None}

PrimaryOf(p) == CHOOSE a \in p.attrs : a.name = PrimaryName(p)

(***************************************************************************)
(* The join planner.                                                       *)
(***************************************************************************)
\* the tables a join's left name can mean: it carries no schema
Lefts(e, known) == {t \in known : t.name = e.left}

LeftOf(e, known) == CHOOSE t \in Lefts(e, known) : TRUE

Known(p) == AttrTables(p) \cup {PrimaryOf(p).table} \cup Rights(p.rels)

Unique(d, t, c) == \A r, s \in d[t] : r[c] = s[c] /\ r[c] # Null => r = s

\* a join may leave its type out or give none, which is "absent" and "null" here;
\* the planner takes both for a left join
JoinType(e) == IF e.type \in {"absent", "null"} THEN "left" ELSE e.type

\* mutant: nobody asks whether the right column is unique
JoinsUnprobed(p, latest, d) ==
  \A i \in DOMAIN p.rels :
    LET e == p.rels[i]
        l == LeftOf(e, Known(p))
    IN  /\ JoinType(e) \in {"left", "inner"}
        /\ e.right.schema \in AllowedSchemas
        /\ Cardinality(Lefts(e, Known(p))) = 1
        /\ e.lc \in Columns(l) /\ e.rc \in Columns(e.right)
        /\ ColType[l][e.lc] = ColType[e.right][e.rc]

\* every check of the joins one by one, before they are put in order
JoinsValid(p, latest, d) ==
  \A i \in DOMAIN p.rels :
    LET e == p.rels[i]
        l == LeftOf(e, Known(p))
    IN  /\ JoinType(e) \in {"left", "inner"}
        /\ e.right.schema \in AllowedSchemas
        /\ Cardinality(Lefts(e, Known(p))) = 1
        /\ e.lc \in Columns(l) /\ e.rc \in Columns(e.right)
        /\ ColType[l][e.lc] = ColType[e.right][e.rc]
        /\ latest \/ e.fanout \/ Unique(d, e.right, e.rc)

\* a join with its tables resolved; the permission to fan out is no part of it
Resolved(e, known) ==
  [type |-> JoinType(e), left |-> LeftOf(e, known), lc |-> e.lc, right |-> e.right, rc |-> e.rc, fanout |-> e.fanout]

Same(j, k) == <<j.type, j.left, j.lc, j.right, j.rc>> = <<k.type, k.left, k.lc, k.right, k.rc>>

Joins(p) == [i \in DOMAIN p.rels |-> Resolved(p.rels[i], Known(p))]

\* a join whose left table is not there yet waits; one whose right table is there
\* already conflicts with the joins there are, unless it repeats one
Meet(s, j) ==
  IF j.left \notin s.added THEN [s EXCEPT !.still = Append(@, j)]
  ELSE IF j.right \in s.added THEN [s EXCEPT !.conflict = @ \/ \A k \in ToSet(s.joins) : ~Same(j, k)]
  ELSE [s EXCEPT !.added = @ \cup {j.right}, !.joins = Append(@, j)]

\* the joins that wait are met once more, in the order of the list
Pass(s, turn) == FoldLeft(Meet, [s EXCEPT !.still = <<>>], s.still)

Unordered(base, joins) == [added |-> {base}, joins |-> <<>>, still |-> joins, conflict |-> FALSE]

\* mutant: the list is walked through once
OrderOnce(base, joins) == Pass(Unordered(base, joins), None)

\* each pass that makes progress removes one of those left, so there are no more
\* passes than joins
Order(base, joins) == FoldLeft(Pass, Unordered(base, joins), joins)

InOrder(p) == Order(PrimaryOf(p).table, Joins(p))

\* the joins have an order for the FROM clause, and it holds every mapped table
Planned(p, latest, d) ==
  LET o == InOrder(p)
  IN  JoinsValid(p, latest, d) /\ ~o.conflict /\ o.still = <<>> /\ AttrTables(p) \subseteq o.added

(***************************************************************************)
(* The validation of a mapping, over the data of the moment.               *)
(***************************************************************************)
\* mutant: the entry among the relationships counts for a payload as well
LatestAnyhow(p, fallback) == p.latest \/ p.entry # None

\* the fallback reads the entry that was saved among the relationships
Latest(p, fallback) == p.latest \/ (fallback /\ p.entry # None)

Recency(p, fallback) ==
  IF p.recency # None THEN p.recency
  ELSE IF fallback /\ p.entry # None THEN p.entry
  ELSE Default

AttrsValid(p) ==
  \A a \in p.attrs :
    /\ a.table.schema \in AllowedSchemas
    /\ a.col \in Columns(a.table)
    /\ a.type = ColType[a.table][a.col]

\* the newest row of a key is one row; otherwise the base has to be keyed already
KeyValid(p, latest, d) == latest \/ Unique(d, PrimaryOf(p).table, PrimaryOf(p).col)

\* what each table is reduced to one row per: the primary key, or the join's key
DedupKeys(p, joins) ==
  LET base == PrimaryOf(p).table
  IN  [t \in {base} \cup Rights(joins) |->
        IF t = base THEN PrimaryOf(p).col
        ELSE joins[CHOOSE i \in DOMAIN joins : joins[i].right = t].rc]

\* the newest row wins; ties go to the larger id where the table has one
Dedup(p, joins, recency) ==
  [t \in DOMAIN DedupKeys(p, joins) |->
    [key |-> DedupKeys(p, joins)[t],
     recency |-> recency,
     tiebreak |-> "id" \in Columns(t) \ {DedupKeys(p, joins)[t], recency}]]

RecencyValid(p, joins, recency) ==
  \A t \in DOMAIN DedupKeys(p, joins) : recency \in Columns(t) /\ ColType[t][recency] \in Sortable

Validate(p, fallback, d) ==
  LET latest == Latest(p, fallback)
      recency == Recency(p, fallback)
      pk == PrimaryOf(p)
      joins == InOrder(p).joins
  IN  IF /\ WellFormed(p) /\ PrimaryName(p) # None
         /\ AttrsValid(p)
         /\ Planned(p, latest, d)
         /\ KeyValid(p, latest, d)
         /\ latest => RecencyValid(p, joins, recency)
      THEN [base |-> pk.table, pk |-> pk.col, joins |-> joins, attrs |-> p.attrs, latest |-> latest,
            dedup |-> IF latest THEN Dedup(p, joins, recency) ELSE <<>>]
      ELSE None

(***************************************************************************)
(* The SELECT.  A row of the result gives each table of the FROM clause    *)
(* one of its rows; a table that was not matched gives the row of Nulls.   *)
(***************************************************************************)
Older(r, s, m) == r[m.recency] < s[m.recency] \/ (r[m.recency] = s[m.recency] /\ m.tiebreak /\ r.id < s.id)

\* DISTINCT ON keeps, for each key, a row that no other row of the key is newer
\* than; when several are equally new PostgreSQL may keep any of them
Reduced(rows, m) ==
  {kept \in SUBSET {r \in rows : \A s \in rows : s[m.key] = r[m.key] => ~Older(r, s, m)} :
    \A r \in rows : \E q \in kept : {s \in kept : s[m.key] = r[m.key]} = {q}}

\* what the FROM clause may read of its tables
Relations(v, d) ==
  IF v.latest THEN {f \in [DOMAIN v.dedup -> UNION {SUBSET d[t] : t \in DOMAIN v.dedup}] :
                     \A t \in DOMAIN v.dedup : f[t] \in Reduced(d[t], v.dedup[t])}
  ELSE {d}

NullRow == [c \in UNION {Columns(t) : t \in Tables} |-> Null]

With(f, t, r) == [u \in DOMAIN f \cup {t} |-> IF u = t THEN r ELSE f[u]]

\* one more join: a step has the join and the rows of its table
JoinOn(F, step) ==
  LET j == step.join
      matches(f) == {r \in step.rows : r[j.rc] # Null /\ r[j.rc] = f[j.left][j.lc]}
      extend(f) == IF matches(f) = {} /\ j.type = "left" THEN {With(f, j.right, NullRow)}
                   ELSE {With(f, j.right, r) : r \in matches(f)}
  IN  UNION {extend(f) : f \in F}

Rows(v, rel) ==
  FoldLeft(JoinOn, {[t \in {v.base} |-> r] : r \in rel[v.base]},
           [i \in DOMAIN v.joins |-> [join |-> v.joins[i], rows |-> rel[v.joins[i].right]]])

(***************************************************************************)
(* The SQL of the subset: a mapping as text and back.                      *)
(***************************************************************************)
\* the first mapped table that no join brings in
DerivedBase(p) == CHOOSE t \in AttrTables(p) : t \notin Rights(p.rels)

\* mutant: the joins as they are listed
ChainAsListed(base, rels) == rels

\* a join follows when its left table is there
Follow(s, e) ==
  IF e.left \in s.present
  THEN [s EXCEPT !.present = @ \cup {e.right.name}, !.chain = Append(@, e)]
  ELSE [s EXCEPT !.still = Append(@, e)]

FollowAll(s, turn) == FoldLeft(Follow, [s EXCEPT !.still = <<>>], s.still)

\* joins in an order in which each follows its left table, as far as there is one
Chain(base, rels) ==
  LET end == FoldLeft(FollowAll, [present |-> {base.name}, chain |-> <<>>, still |-> rels], rels)
  IN  end.chain \o end.still

\* the text does not take a join of no type for a left one
AsJoin(e) ==
  [side |-> IF e.type = "left" THEN "LEFT" ELSE "INNER", table |-> e.right, alias |-> e.right.name,
   on |-> {<<e.left, e.lc>>, <<e.right.name, e.rc>>}]

\* the text of a mapping; there is none when a join leaves its type out
Generate(p) ==
  LET chain == Chain(DerivedBase(p), p.rels)
  IN  IF \E i \in DOMAIN p.rels : p.rels[i].type = "absent" THEN {}
      ELSE {[from |-> DerivedBase(p), alias |-> DerivedBase(p).name,
             joins |-> [i \in DOMAIN chain |-> AsJoin(chain[i])],
             items |-> {<<a.table.name, a.col, a.name>> : a \in p.attrs}]}

\* the aliases there are before the i-th join, and what they stand for
Aliases(s, i) == {s.alias} \cup {s.joins[h].alias : h \in 1..(i - 1)}

Named(s, a) ==
  IF a = s.alias THEN s.from ELSE s.joins[CHOOSE i \in DOMAIN s.joins : s.joins[i].alias = a].table

Own(j) == {c \in j.on : c[1] = j.alias}

\* a statement is outside of the subset when a join is, a name comes twice, or
\* a condition does not link the joined table to one joined before it
Accepted(s, i) ==
  LET j == s.joins[i]
  IN  /\ j.side \in {"LEFT", "INNER"}
      /\ j.table.schema \in AllowedSchemas
      /\ j.alias \notin Aliases(s, i)
      /\ j.table.name \notin {Named(s, a).name : a \in Aliases(s, i)}
      /\ {c[1] : c \in j.on} \subseteq Aliases(s, i) \cup {j.alias}
      /\ Cardinality(Own(j)) = 1 /\ Cardinality(j.on) = 2

AsRelationship(s, j) ==
  LET mine == CHOOSE c \in Own(j) : TRUE
      other == CHOOSE c \in j.on \ Own(j) : TRUE
  IN  [type |-> IF j.side = "LEFT" THEN "left" ELSE "inner",
       left |-> Named(s, other[1]).name, lc |-> other[2],
       right |-> j.table, rc |-> mine[2], fanout |-> FALSE]

\* the mapping that is read from a statement, if it is in the subset
Parse(s) ==
  LET attrs == {<<Named(s, c[1]), c[2], c[3]>> : c \in s.items}
  IN  IF /\ s.from.schema \in AllowedSchemas
         /\ \A i \in DOMAIN s.joins : Accepted(s, i)
         /\ \A c \in s.items : c[1] \in Aliases(s, Len(s.joins) + 1)
         /\ s.items # {}
         /\ \A a \in attrs : a[2] \in Columns(a[1])
      THEN {[from |-> s.from, rels |-> [i \in DOMAIN s.joins |-> AsRelationship(s, s.joins[i])],
             attrs |-> {[name |-> a[3], table |-> a[1], col |-> a[2], type |-> ColType[a[1]][a[2]]] : a \in attrs}]}
      ELSE {}

(***************************************************************************)
(* Saving a model.                                                         *)
(***************************************************************************)
\* the row that is stored: the dedup setting moves among the relationships
Saved(p) ==
  [primary |-> PrimaryName(p), attrs |-> p.attrs, rels |-> p.rels,
   entry |-> IF p.latest THEN Recency(p, FALSE) ELSE None, latest |-> FALSE, recency |-> None]

\* a partial update over the stored row; what is not sent keeps its value
Merged(u) ==
  [primary |-> stored.primary,
   attrs |-> stored.attrs,
   rels |-> IF u.rels = None THEN stored.rels ELSE u.rels,
   entry |-> IF u.rels = None THEN stored.entry ELSE u.entry,
   latest |-> IF u.latest = None THEN stored.entry # None ELSE u.latest,
   recency |-> IF u.recency = None THEN stored.entry ELSE u.recency]

\* a request validates what it was sent, and stores it unless that fails
Submit(p) ==
  LET v == Validate(p, FALSE, data)
  IN  /\ builder' = p
      /\ stored' = IF v # None THEN Saved(p) ELSE stored
      /\ promised' = IF v # None THEN v ELSE promised
      /\ touched' = IF v # None THEN touched \ {"model"} ELSE touched
      /\ UNCHANGED <<data, inserted, plan, answer>>

\* bound: what is on the screen is submitted as it is, once there is something
Create ==
  /\ stored = None
  /\ \E p \in IF builder = None THEN Payloads ELSE {builder} : Submit(p)

\* the template's attributes, as columns of the table asked for, and what the
\* request lays over them; a config takes the place of every relationship
FromParts(t, o) ==
  LET attrs == {[a EXCEPT !.table = IF o.table = None THEN @ ELSE o.table] : a \in t.attrs}
  IN  [primary |-> t.primary, attrs |-> IF o.attrs = None THEN attrs ELSE o.attrs,
       rels |-> IF t.config \/ o.config THEN <<>> ELSE o.rels,
       entry |-> None, latest |-> o.latest, recency |-> None]

FromTemplate ==
  /\ stored = None /\ builder = None
  /\ \E t \in Templates, o \in Overrides : Submit(FromParts(t, o))

Edit ==
  /\ stored # None
  /\ \E u \in Updates : Submit(Merged(u))

\* SQL in the editor becomes the mapping on the screen
Paste ==
  /\ stored = None /\ builder = None
  /\ \E s \in Statements : \E p \in Parse(s) :
       builder' = [primary |-> s.pk, attrs |-> {[name |-> a.name, table |-> a.table, col |-> a.col, type |-> a.type, pk |-> FALSE] : a \in p.attrs},
                   rels |-> p.rels, entry |-> None, latest |-> FALSE, recency |-> None]
  /\ UNCHANGED <<data, inserted, stored, promised, plan, answer, touched>>

(***************************************************************************)
(* Reading a model.  Other programs insert between any two steps.          *)
(***************************************************************************)
Insert ==
  /\ inserted < MaxInserts
  /\ \E i \in Inserts :
       /\ \A r \in data[i[1]] : r.id # i[2].id
       /\ data' = [data EXCEPT ![i[1]] = @ \cup {i[2]}]
  /\ inserted' = inserted + 1
  /\ touched' = {"model", "read"}
  /\ UNCHANGED <<builder, stored, promised, plan, answer>>

\* the stored row as a mapping: the dedup setting is read from its relationships
SavedPayload ==
  [primary |-> stored.primary, attrs |-> stored.attrs, rels |-> stored.rels, entry |-> stored.entry,
   latest |-> FALSE, recency |-> None]

\* a read or a preview of the saved model plans it anew
Probe ==
  /\ plan = None /\ stored # None
  /\ plan' = Validate(SavedPayload, TRUE, data)
  /\ answer' = IF plan' = None THEN [kind |-> "invalid"] ELSE None
  /\ touched' = touched \ {"read"}
  /\ UNCHANGED <<data, inserted, builder, stored, promised>>

Answer(kind, rows) ==
  [kind |-> kind, rows |-> rows, of |-> plan, fresh |-> "read" \notin touched,
   keys |-> {r[plan.pk] : r \in data[plan.base]}]

List ==
  /\ plan # None
  /\ \E rel \in Relations(plan, data) : answer' = Answer("list", Rows(plan, rel))
  /\ plan' = None
  /\ UNCHANGED <<data, inserted, builder, stored, promised, touched>>

\* a page of the rows, in no order
Preview ==
  /\ plan # None
  /\ \E rel \in Relations(plan, data) : \E page \in SUBSET Rows(plan, rel) :
       /\ Cardinality(page) <= PageSize
       /\ answer' = Answer("preview", page)
  /\ plan' = None
  /\ UNCHANGED <<data, inserted, builder, stored, promised, touched>>

\* the lookup asks for two rows and reports a conflict when it gets them
Lookup ==
  /\ plan # None
  /\ \E rel \in Relations(plan, data), key \in {r[plan.pk] : r \in data[plan.base]} \ {Null} :
       LET found == {f \in Rows(plan, rel) : f[plan.base][plan.pk] = key}
       IN  answer' = Answer(IF Cardinality(found) > 1 THEN "conflict"
                            ELSE IF found = {} THEN "missing" ELSE "found", found)
  /\ plan' = None
  /\ UNCHANGED <<data, inserted, builder, stored, promised, touched>>

Init ==
  /\ data \in Data
  /\ inserted = 0
  /\ builder = None /\ stored = None /\ promised = None
  /\ plan = None /\ answer = None
  /\ touched = {}

Next == Create \/ FromTemplate \/ Edit \/ Paste \/ Insert \/ Probe \/ List \/ Preview \/ Lookup

Spec == Init /\ [][Next]_vars

-----------------------------------------------------------------------------
(***************************************************************************)
(* Properties.                                                             *)
(***************************************************************************)
\* what joins reach from the base: in every set that has the base and is closed
Reachable(p) ==
  LET closed(S) == \A i \in DOMAIN p.rels : LeftOf(p.rels[i], Known(p)) \in S => p.rels[i].right \in S
  IN  {t \in Known(p) : \A S \in SUBSET Known(p) : PrimaryOf(p).table \in S /\ closed(S) => t \in S}

\* the joins as a graph: a tree over the base, apart from repetitions
IsTree(p) ==
  LET joins == ToSet(Joins(p))
  IN  /\ \A j \in joins : j.left \in Reachable(p)
      /\ \A j, k \in joins : j.right = k.right => Same(j, k)
      /\ PrimaryOf(p).table \notin Rights(p.rels)
      /\ AttrTables(p) \subseteq Reachable(p)

\* a FROM clause PostgreSQL takes: each join follows its left table, none comes twice
WellOrdered(base, joins) ==
  \A i \in DOMAIN joins :
    LET before == {base} \cup {joins[h].right : h \in 1..(i - 1)}
    IN  joins[i].left \in before /\ joins[i].right \notin before

\* The planner accepts joins, in whatever order they are listed, exactly when
\* they form a tree over the base that holds every mapped table, and what it
\* emits is a FROM clause with each of these joins once.
PlanIsTree ==
  (builder # None /\ WellFormed(builder) /\ PrimaryName(builder) # None
     /\ JoinsValid(builder, builder.latest, data)) =>
    LET joins == InOrder(builder).joins
        planned == Planned(builder, builder.latest, data)
    IN  /\ planned <=> IsTree(builder)
        /\ planned => /\ WellOrdered(PrimaryOf(builder).table, joins)
                      /\ Rights(joins) = Rights(builder.rels)

\* A read answers with one row per key of the base, unless fan-out was asked
\* for or a row came between its probes and its SELECT; a join that keeps
\* unmatched rows loses no key, and a lookup meets no conflict.
OneRowPerKey ==
  (answer # None /\ answer.kind # "invalid" /\ answer.fresh
     /\ (answer.of.latest \/ \A j \in ToSet(answer.of.joins) : ~j.fanout)) =>
    LET key(f) == f[answer.of.base][answer.of.pk]
    IN  /\ \A f, g \in answer.rows : key(f) = key(g) /\ key(f) # Null => f = g
        /\ answer.kind # "conflict"
        /\ (answer.kind = "list" /\ \A j \in ToSet(answer.of.joins) : j.type = "left") =>
             {key(f) : f \in answer.rows} = answer.keys

\* While the tables stay as they were at the save, a read plans the stored model
\* to what the save validated: the same joins, with or without "latest only".
SavedStaysReadable ==
  (stored # None /\ "model" \notin touched) => Validate(SavedPayload, TRUE, data) = promised

\* tables have different names and are joined once each, as the subset asks
InSubset(p) ==
  /\ \A t, u \in Known(p) : t.name = u.name => t = u
  /\ \A i, h \in DOMAIN p.rels : p.rels[i].right = p.rels[h].right => i = h

NamesTypes(p) == \A i \in DOMAIN p.rels : p.rels[i].type \in {"left", "inner"}

\* p has a text, it is in the subset, and it means the attributes, base and plan v has
ReadsBackAs(p, v) ==
  \E text \in Generate(p) : \E back \in Parse(text) :
    /\ back.from = v.base
    /\ {<<a.name, a.table, a.col, a.type>> : a \in back.attrs}
         = {<<a.name, a.table, a.col, a.type>> : a \in p.attrs}
    /\ LET joins == InOrder([p EXCEPT !.rels = back.rels]).joins
       IN  Len(joins) = Len(v.joins) /\ \A i \in DOMAIN joins : Same(joins[i], v.joins[i])

\* A mapping that is accepted, whose tables have different names and are joined
\* once each by joins that name their type, survives the way through SQL: its text
\* is in the subset and means the same attributes, the same base and the same plan;
\* the permission to fan out is not part of the text.
RoundTrips ==
  LET v == Validate(builder, FALSE, data)
  IN  (builder # None /\ v # None /\ InSubset(builder) /\ NamesTypes(builder)) => ReadsBackAs(builder, v)

\* The generator calls itself the inverse of the parser, so that the two surfaces
\* round-trip: whatever mapping the validation accepts.  It does not for a join that
\* names no type, which the planner takes for a left join.
RoundTripsAnyType ==
  LET v == Validate(builder, FALSE, data)
  IN  (builder # None /\ v # None /\ InSubset(builder)) => ReadsBackAs(builder, v)
=============================================================================
