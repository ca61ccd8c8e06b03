--------------------------- MODULE MCTypeBMapping ---------------------------
(* Five tables: a base, two to look up, one that has the name of another, one of a schema not allowed *)
EXTENDS TypeBMapping

A == [schema |-> "public", name |-> "a"]
B == [schema |-> "public", name |-> "b"]
C == [schema |-> "public", name |-> "c"]
B2 == [schema |-> "mdp_data", name |-> "b"]
X == [schema |-> "pg_catalog", name |-> "x"]

\* only a and c have an id; b's rows are newer by ts alone, b2 has no ts
MCColType ==
  (A :> [k |-> "integer", r |-> "integer", ts |-> "datetime", id |-> "text"]) @@
  (B :> [k |-> "integer", r |-> "integer", ts |-> "datetime"]) @@
  (C :> [k |-> "integer", r |-> "text", ts |-> "datetime", id |-> "text"]) @@
  (B2 :> [k |-> "integer", r |-> "integer"]) @@
  (X :> [k |-> "integer"])

Edge(left, lc, right, rc) == [type |-> "left", left |-> left, lc |-> lc, right |-> right, rc |-> rc, fanout |-> FALSE]

ab == Edge("a", "r", B, "k")
abInner == [ab EXCEPT !.type = "inner"]
ac == Edge("a", "k", C, "k")
bc == Edge("b", "r", C, "k")
ab2 == Edge("a", "r", B2, "k")
ba == Edge("b", "k", A, "k")
acNull == [ac EXCEPT !.type = "null"]
acAbsent == [ac EXCEPT !.type = "absent"]
acWide == [Edge("a", "k", C, "k") EXCEPT !.fanout = TRUE]
badType == Edge("a", "k", C, "r")
noSchema == Edge("a", "k", X, "k")

Edges == {ab, abInner, ac, bc, ab2, ba, acWide, acNull, acAbsent, badType, noSchema}

Lists ==
  {<<>>} \cup {<<e>> : e \in Edges}
    \cup {<<e, f>> : e, f \in {ab, ac, bc, ab2, ba, acWide}}
    \cup {<<ab, abInner>>, <<bc, abInner>>, <<ab, ab, bc>>, <<ac, acNull>>, <<ab, acAbsent>>}
    \cup {<<e, f, g>> : e \in {bc}, f, g \in {ab, ac}}

Attr(n, t, c, pk) == [name |-> n, table |-> t, col |-> c, type |-> "integer", pk |-> pk]

Attributes ==
  {{Attr("key", A, "k", TRUE)},
   {Attr("key", A, "k", TRUE), Attr("of_c", C, "k", FALSE)}}

OfBoth == {Attr("key", A, "k", TRUE), Attr("of_b", B, "r", FALSE), Attr("of_b2", B2, "k", FALSE)}

Mapping(attrs, rels, latest, entry) ==
  [primary |-> None, attrs |-> attrs, rels |-> rels, entry |-> entry, latest |-> latest, recency |-> None]

\* schema cases: no key, two keys, a key that is not the flagged one, a system column
Odd ==
  {Mapping({Attr("key", A, "k", FALSE)}, <<>>, FALSE, None),
   Mapping({Attr("key", A, "k", TRUE), Attr("two", A, "r", TRUE)}, <<>>, FALSE, None),
   Mapping({Attr("id", A, "k", TRUE)}, <<>>, FALSE, None),
   [Mapping({Attr("key", A, "k", TRUE), Attr("two", A, "r", FALSE)}, <<>>, FALSE, None) EXCEPT !.primary = "two"],
   [Mapping({Attr("key", A, "k", FALSE)}, <<>>, FALSE, None) EXCEPT !.primary = "key"],
   [Mapping({Attr("key", A, "k", TRUE)}, <<ab>>, TRUE, None) EXCEPT !.recency = "r"]}

MCPayloads ==
  {Mapping(a, l, FALSE, None) : a \in Attributes, l \in Lists}
    \cup {Mapping(OfBoth, l, FALSE, None) : l \in {<<ab>>, <<ab2>>, <<ab, ab2>>, <<ab2, ab>>}}
    \cup {Mapping(a, l, latest, "ts") : a \in Attributes, l \in {<<>>, <<ab>>, <<ac>>, <<bc, ab>>, <<ab2>>}, latest \in BOOLEAN}
    \cup Odd

Update(latest, rels, entry) == [latest |-> latest, rels |-> rels, entry |-> entry, recency |-> None]

MCUpdates ==
  {Update(TRUE, None, None), Update(FALSE, None, None), Update(None, <<ac, ab>>, "ts")}

Item(q, c, n) == <<q, c, n>>

Joined(side, table, alias, left, lc, rc) ==
  [side |-> side, table |-> table, alias |-> alias, on |-> {<<left, lc>>, <<alias, rc>>}]

Select(joins) ==
  [from |-> A, alias |-> "p", joins |-> joins, items |-> {Item("p", "k", "key"), Item("p", "r", "other")}, pk |-> "key"]

\* aliases, an inner join, an outer join of the wrong side, one name twice, a self-join
MCStatements ==
  {Select(<<>>),
   Select(<<Joined("LEFT", B, "q", "p", "r", "k"), Joined("INNER", C, "c", "q", "r", "k")>>),
   Select(<<Joined("RIGHT", B, "q", "p", "r", "k")>>),
   Select(<<Joined("LEFT", B, "q", "p", "r", "k"), Joined("LEFT", B2, "s", "p", "r", "k")>>),
   Select(<<Joined("LEFT", B, "q", "q", "r", "k")>>)}

MCTemplates ==
  {[primary |-> "key", attrs |-> {Attr("key", A, "k", TRUE)}, config |-> config] : config \in BOOLEAN}

\* an override by joins that a config swallows, another table, and other attributes
MCOverrides ==
  {[table |-> t, attrs |-> a, rels |-> r, latest |-> l, config |-> FALSE] :
     t \in {None, B}, a \in {None, {Attr("key", A, "k", TRUE), Attr("of_c", C, "k", FALSE)}},
     r \in {<<>>, <<ac>>}, l \in BOOLEAN}

Row(id, k, r, ts) == [id |-> id, k |-> k, r |-> r, ts |-> ts]

MCData ==
  {(A :> {Row(1, 1, 1, 1), Row(2, 2, 0, 1)}) @@ (B :> {Row(1, 1, 1, 1), Row(2, 2, 0, 1)})
     @@ (C :> {Row(1, 1, 1, 1)}) @@ (B2 :> {Row(1, 1, 1, 0)}) @@ (X :> {}),
   (A :> {Row(1, 1, 1, 1), Row(2, 1, 2, 0), Row(3, 0, 1, 1)}) @@ (B :> {Row(1, 1, 1, 1), Row(2, 1, 1, 1)})
     @@ (C :> {Row(1, 1, 1, 1), Row(2, 1, 1, 2)}) @@ (B2 :> {Row(1, 1, 1, 0)}) @@ (X :> {})}

MCTables == {A, B, C, B2, X}

MCInserts == {<<A, Row(4, 1, 1, 2)>>, <<C, Row(4, 1, 0, 1)>>}
=============================================================================
