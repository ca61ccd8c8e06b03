------------------------- MODULE TypeBMappingProofs -------------------------
(***************************************************************************)
(* What holds of TypeBMapping for every set of tables, mappings, templates *)
(* and rows, and every order of requests and inserts.                      *)
(***************************************************************************)
EXTENDS TypeBMapping, FiniteSetTheorems, TLAPS

(***************************************************************************)
(* A saved mapping is read as what was submitted.                          *)
(***************************************************************************)
LEMMA SavedIs == ASSUME NEW p, IsMapping(p) PROVE IsMapping(Saved(p))
  BY DEF Saved, IsMapping

\* The fields of the stored row that a read looks at are those of the payload.
LEMMA SavedMeans ==
  ASSUME NEW p, IsMapping(p), NEW q, q = Saved(p)
  PROVE  /\ PrimaryName(q) = PrimaryName(p) /\ PrimaryOf(q) = PrimaryOf(p) /\ Known(q) = Known(p)
         /\ Joins(q) = Joins(p) /\ AttrTables(q) = AttrTables(p)
         /\ Latest(q, TRUE) = Latest(p, FALSE)
         /\ p.latest => Recency(q, TRUE) = Recency(p, FALSE)
         /\ WellFormed(p) => WellFormed(q)
<1>1. /\ q.attrs = p.attrs /\ q.rels = p.rels /\ q.primary = PrimaryName(p) /\ q.latest = FALSE
      /\ q.recency = None /\ q.entry = IF p.latest THEN Recency(p, FALSE) ELSE None
  BY DEF Saved
<1>2. Flagged(q) = Flagged(p) /\ AttrTables(q) = AttrTables(p)
  BY <1>1 DEF Flagged, AttrTables
<1>3. PrimaryName(q) = PrimaryName(p)
  BY <1>1, <1>2 DEF PrimaryName
<1>4. PrimaryOf(q) = PrimaryOf(p)
  BY <1>1, <1>3 DEF PrimaryOf
<1>5. Known(q) = Known(p)
  BY <1>1, <1>2, <1>4 DEF Known
<1>6. Joins(q) = Joins(p)
  BY <1>1, <1>5 DEF Joins
<1>7. Recency(p, FALSE) # None /\ p.latest \in BOOLEAN
  BY MappingAssumption DEF Recency, IsMapping
<1>8. Latest(q, TRUE) = Latest(p, FALSE)
  BY <1>1, <1>7 DEF Latest
<1>9. p.latest => Recency(q, TRUE) = Recency(p, FALSE)
  BY <1>1, <1>7 DEF Recency
<1>10. WellFormed(p) => WellFormed(q)
  <2> SUFFICES ASSUME WellFormed(p) PROVE WellFormed(q)
    OBVIOUS
  <2> DEFINE names == {a.name : a \in p.attrs}
  <2>1. Flagged(p) \subseteq names
    BY DEF Flagged
  <2>2. Flagged(p) # {} => PrimaryName(p) \in Flagged(p)
    BY DEF PrimaryName
  <2>3. PrimaryName(p) \in names \cup {None}
    BY <2>1, <2>2 DEF PrimaryName, WellFormed
  <2> QED
    BY <1>1, <1>2, <2>2, <2>3 DEF WellFormed
<1> QED
  BY <1>2, <1>3, <1>4, <1>5, <1>6, <1>8, <1>9, <1>10

LEMMA SavedValidates ==
  ASSUME NEW p, IsMapping(p), NEW d, Validate(p, FALSE, d) # None
  PROVE  Validate(Saved(p), TRUE, d) = Validate(p, FALSE, d)
<1> DEFINE q == Saved(p)
           latest == Latest(p, FALSE)
<1>0. q.attrs = p.attrs /\ q.rels = p.rels
  BY DEF Saved
<1> HIDE DEF q
<1>1. /\ PrimaryName(q) = PrimaryName(p) /\ PrimaryOf(q) = PrimaryOf(p) /\ Known(q) = Known(p)
      /\ Joins(q) = Joins(p) /\ AttrTables(q) = AttrTables(p)
      /\ Latest(q, TRUE) = latest
      /\ p.latest => Recency(q, TRUE) = Recency(p, FALSE)
      /\ WellFormed(p) => WellFormed(q)
  BY SavedMeans DEF q
<1>2. latest = p.latest
  BY DEF Latest, IsMapping
<1>3. InOrder(q) = InOrder(p)
  BY <1>1 DEF InOrder
<1>4. AttrsValid(q) <=> AttrsValid(p)
  BY <1>0 DEF AttrsValid
<1>5. JoinsValid(q, latest, d) <=> JoinsValid(p, latest, d)
  BY <1>0, <1>1 DEF JoinsValid
<1>6. Planned(q, latest, d) <=> Planned(p, latest, d)
  BY <1>1, <1>3, <1>5 DEF Planned
<1>7. KeyValid(q, latest, d) <=> KeyValid(p, latest, d)
  BY <1>1 DEF KeyValid
<1>8. \A joins : DedupKeys(q, joins) = DedupKeys(p, joins)
  BY <1>1 DEF DedupKeys
<1>9. \A joins, recency : /\ RecencyValid(q, joins, recency) <=> RecencyValid(p, joins, recency)
                          /\ Dedup(q, joins, recency) = Dedup(p, joins, recency)
  BY <1>8 DEF RecencyValid, Dedup
<1>10. WellFormed(p)
  BY DEF Validate
<1> HIDE DEF latest
<1>11. CASE latest
  BY <1>0, <1>1, <1>2, <1>3, <1>4, <1>6, <1>7, <1>9, <1>10, <1>11 DEF Validate, q, latest
<1>12. CASE ~latest
  BY <1>0, <1>1, <1>2, <1>3, <1>4, <1>6, <1>7, <1>9, <1>10, <1>12 DEF Validate, q, latest
<1> QED
  BY <1>11, <1>12

\* The model's row is what some request sent, stored; history knows what was said of it.
ModelInv ==
  /\ builder # None => IsMapping(builder)
  /\ stored # None =>
       \E p : /\ IsMapping(p) /\ stored = Saved(p)
              /\ "model" \notin touched => Validate(p, FALSE, data) # None /\ promised = Validate(p, FALSE, data)

LEMMA SubmitKeeps ==
  ASSUME ModelInv, NEW p, IsMapping(p), Submit(p)
  PROVE  ModelInv'
<1>1. builder' = p /\ data' = data
  BY DEF Submit
<1>2. CASE Validate(p, FALSE, data) # None
  <2>1. stored' = Saved(p) /\ promised' = Validate(p, FALSE, data)
    BY <1>2 DEF Submit
  <2> QED
    BY <1>1, <1>2, <2>1 DEF ModelInv
<1>3. CASE Validate(p, FALSE, data) = None
  <2>1. UNCHANGED <<stored, promised, touched>>
    BY <1>3 DEF Submit
  <2> QED
    BY <1>1, <2>1 DEF ModelInv
<1> QED
  BY <1>2, <1>3

LEMMA EmptyList == ListOfJoins(<<>>)
  BY DEF ListOfJoins, ToSet

LEMMA MergedIsMapping ==
  ASSUME ModelInv, stored # None, NEW u \in Updates
  PROVE  IsMapping(Merged(u))
<1>1. PICK p : IsMapping(p) /\ stored = Saved(p)
  BY DEF ModelInv
<1>2. IsMapping(stored)
  BY <1>1, SavedIs
<1> QED
  BY <1>2, RequestAssumption DEF Merged, IsMapping

LEMMA PartsAreMapping ==
  ASSUME NEW t \in Templates, NEW o \in Overrides
  PROVE  IsMapping(FromParts(t, o))
  BY RequestAssumption, EmptyList DEF FromParts, IsMapping

LEMMA ParsedIsList ==
  ASSUME NEW s \in Statements, NEW b \in Parse(s)
  PROVE  ListOfJoins(b.rels)
<1>1. PICK n \in Nat : DOMAIN s.joins = 1..n
  BY RequestAssumption DEF ListOfJoins
<1>2. b.rels = [i \in DOMAIN s.joins |-> b.rels[i]]
  BY DEF Parse
<1> DEFINE rels == b.rels
<1>3. rels = [i \in 1..n |-> rels[i]] /\ DOMAIN rels = 1..n
  BY <1>1, <1>2
<1> HIDE DEF rels
<1>4. \A i \in 1..n : rels[i] \in ToSet(rels)
  BY <1>3 DEF ToSet
<1> QED
  BY <1>3, <1>4 DEF ListOfJoins, rels

LEMMA ModelStays == ASSUME ModelInv, [Next]_vars PROVE ModelInv'
<1>1. CASE Create
  <2>1. PICK p : p \in (IF builder = None THEN Payloads ELSE {builder}) /\ Submit(p)
    BY <1>1 DEF Create
  <2>2. IsMapping(p)
    BY <2>1, RequestAssumption DEF ModelInv
  <2> QED
    BY <2>1, <2>2, SubmitKeeps
<1>2. CASE FromTemplate
  BY <1>2, PartsAreMapping, SubmitKeeps DEF FromTemplate
<1>3. CASE Edit
  BY <1>3, MergedIsMapping, SubmitKeeps DEF Edit
<1>4. CASE Paste
  <2>1. PICK s \in Statements : \E b \in Parse(s) : \E attrs :
          builder' = [primary |-> s.pk, attrs |-> attrs, rels |-> b.rels,
                      entry |-> None, latest |-> FALSE, recency |-> None]
    BY <1>4 DEF Paste
  <2>2. IsMapping(builder')
    BY <2>1, ParsedIsList DEF IsMapping
  <2>3. UNCHANGED <<stored, promised, touched, data>>
    BY <1>4 DEF Paste
  <2> QED
    BY <2>2, <2>3 DEF ModelInv
<1>5. CASE Insert
  BY <1>5 DEF Insert, ModelInv
<1>6. CASE Probe
  BY <1>6 DEF Probe, ModelInv
<1>7. CASE List \/ Preview \/ Lookup
  BY <1>7 DEF List, Preview, Lookup, ModelInv
<1>8. CASE UNCHANGED vars
  BY <1>8 DEF vars, ModelInv
<1> QED
  BY <1>1, <1>2, <1>3, <1>4, <1>5, <1>6, <1>7, <1>8 DEF Next

LEMMA ModelBegins == Init => ModelInv
  BY DEF Init, ModelInv

THEOREM ModelAlways == Spec => []ModelInv
  BY ModelBegins, ModelStays, PTL DEF Spec

\* Whatever edits, pastes and templates a model went through, the setting "latest only" that
\* was moved among its relationships comes back out of them: a read plans what was promised.
THEOREM SavedStaysReadableHolds == Spec => []SavedStaysReadable
<1>1. ModelInv => SavedStaysReadable
  <2> SUFFICES ASSUME ModelInv, stored # None, "model" \notin touched
               PROVE  Validate(SavedPayload, TRUE, data) = promised
    BY DEF SavedStaysReadable
  <2>1. PICK p : /\ IsMapping(p) /\ stored = Saved(p)
                 /\ Validate(p, FALSE, data) # None /\ promised = Validate(p, FALSE, data)
    BY DEF ModelInv
  <2>2. SavedPayload = Saved(p)
    BY <2>1 DEF SavedPayload, Saved
  <2> QED
    BY <2>1, <2>2, SavedValidates
<1> QED
  BY <1>1, ModelAlways, PTL

(***************************************************************************)
(* The order of the joins.                                                 *)
(***************************************************************************)
LEMMA AppendIs ==
  ASSUME NEW S, NEW q \in Seq(S), NEW e \in S
  PROVE  /\ Append(q, e) \in Seq(S) /\ Len(Append(q, e)) = Len(q) + 1
         /\ ToSet(Append(q, e)) = ToSet(q) \cup {e}
         /\ \A i \in 1..Len(q) : Append(q, e)[i] = q[i]
         /\ Append(q, e)[Len(q) + 1] = e
<1>1. /\ Append(q, e) \in Seq(S) /\ Len(Append(q, e)) = Len(q) + 1 /\ Len(q) \in Nat
      /\ \A i \in 1..Len(q) : Append(q, e)[i] = q[i]
      /\ Append(q, e)[Len(q) + 1] = e
      /\ DOMAIN q = 1..Len(q) /\ DOMAIN Append(q, e) = 1..(Len(q) + 1)
  OBVIOUS
<1> DEFINE new == Append(q, e)
           n == Len(q)
<1> HIDE DEF new, n
<1>2. 1..(n + 1) = 1..n \cup {n + 1}
  BY <1>1 DEF n
<1>3. {new[i] : i \in 1..(n + 1)} = {q[i] : i \in 1..n} \cup {e}
  BY <1>1, <1>2 DEF new, n
<1> QED
  BY <1>1, <1>3 DEF new, n, ToSet

LEMMA RightsIs == ASSUME NEW q PROVE Rights(q) = {j.right : j \in ToSet(q)}
  BY DEF Rights, ToSet

LEMMA EmptySet == DOMAIN <<>> = {} /\ ToSet(<<>>) = {}
  BY DEF ToSet

\* tables and lists the planner works with, for the joins J of a mapping over base
PlanState(base, J) ==
  [added : SUBSET ({base} \cup {j.right : j \in J}), joins : Seq(J), still : Seq(J), conflict : BOOLEAN]

LEMMA MeetIs ==
  ASSUME NEW base, NEW J, NEW s \in PlanState(base, J), NEW j \in J, NEW n, n = Meet(s, j)
  PROVE  /\ n \in PlanState(base, J)
         /\ j.left \notin s.added =>
              n.added = s.added /\ n.joins = s.joins /\ n.conflict = s.conflict /\ n.still = Append(s.still, j)
         /\ j.left \in s.added /\ j.right \in s.added =>
              /\ n.added = s.added /\ n.joins = s.joins /\ n.still = s.still
              /\ n.conflict <=> s.conflict \/ \A k \in ToSet(s.joins) : ~Same(j, k)
         /\ j.left \in s.added /\ j.right \notin s.added =>
              /\ n.added = s.added \cup {j.right} /\ n.joins = Append(s.joins, j)
              /\ n.still = s.still /\ n.conflict = s.conflict
<1>1. Append(s.still, j) \in Seq(J) /\ Append(s.joins, j) \in Seq(J)
  BY DEF PlanState
<1>2. s.added \cup {j.right} \in SUBSET ({base} \cup {k.right : k \in J})
  BY DEF PlanState
<1>3. (s.conflict \/ \A k \in ToSet(s.joins) : ~Same(j, k)) \in BOOLEAN
  OBVIOUS
<1>4. CASE j.left \notin s.added
  BY <1>1, <1>4 DEF Meet, PlanState
<1>5. CASE j.left \in s.added /\ j.right \in s.added
  BY <1>3, <1>5 DEF Meet, PlanState
<1>6. CASE j.left \in s.added /\ j.right \notin s.added
  BY <1>1, <1>2, <1>6 DEF Meet, PlanState
<1> QED
  BY <1>4, <1>5, <1>6

Closed(J, S) == \A j \in J : j.left \in S => j.right \in S

\* two joins bring in one table in two ways, or one brings in the base
Clash(base, J) == \E j \in J : j.right = base \/ \E k \in J : j.right = k.right /\ ~Same(j, k)

\* what is true of the joins in order, at every point
Laid(base, J, s) ==
  /\ s \in PlanState(base, J)
  /\ s.added = {base} \cup Rights(s.joins) /\ WellOrdered(base, s.joins)
  /\ s.conflict => Clash(base, J)
  /\ \A S : base \in S /\ Closed(J, S) => s.added \subseteq S

\* a join is in order, or repeats one that is
Done(s, j) == j.right \in s.added /\ (~s.conflict => \E k \in ToSet(s.joins) : Same(j, k))

Grows(s, n) ==
  s.added \subseteq n.added /\ ToSet(s.joins) \subseteq ToSet(n.joins) /\ (s.conflict => n.conflict)

LEMMA DoneStays == ASSUME NEW s, NEW n, Grows(s, n), NEW j, Done(s, j) PROVE Done(n, j)
  BY DEF Grows, Done

LEMMA WellOrderedAppend ==
  ASSUME NEW base, NEW J, NEW q \in Seq(J), NEW j \in J, WellOrdered(base, q),
         j.left \in {base} \cup Rights(q), j.right \notin {base} \cup Rights(q)
  PROVE  WellOrdered(base, Append(q, j))
<1> DEFINE n == Len(q)
           new == Append(q, j)
<1>1. /\ n \in Nat /\ DOMAIN q = 1..n /\ DOMAIN new = 1..(n + 1)
      /\ \A i \in 1..n : new[i] = q[i]
      /\ new[n + 1] = j
  BY AppendIs
<1> HIDE DEF n, new
<1>2. ASSUME NEW i \in 1..n
      PROVE {base} \cup {new[h].right : h \in 1..(i - 1)} = {base} \cup {q[h].right : h \in 1..(i - 1)}
  BY <1>1
<1>3. {base} \cup {new[h].right : h \in 1..((n + 1) - 1)} = {base} \cup Rights(q)
  BY <1>1 DEF Rights
<1>4. ASSUME NEW i \in 1..(n + 1)
      PROVE  LET before == {base} \cup {new[h].right : h \in 1..(i - 1)}
             IN  new[i].left \in before /\ new[i].right \notin before
  <2>1. CASE i = n + 1
    BY <1>1, <1>3, <2>1
  <2>2. CASE i # n + 1
    <3>1. i \in 1..n
      BY <1>1, <2>2
    <3> QED
      BY <1>1, <1>2, <3>1 DEF WellOrdered
  <2> QED
    BY <2>1, <2>2
<1> QED
  BY <1>1, <1>4 DEF WellOrdered, new

LEMMA MeetLays ==
  ASSUME NEW base, NEW J, NEW s, Laid(base, J, s), NEW j \in J
  PROVE  Laid(base, J, Meet(s, j)) /\ Grows(s, Meet(s, j))
<1> SUFFICES ASSUME NEW n, n = Meet(s, j)
             PROVE  Laid(base, J, n) /\ Grows(s, n)
  OBVIOUS
<1>1. /\ n \in PlanState(base, J)
      /\ j.left \notin s.added =>
           n.added = s.added /\ n.joins = s.joins /\ n.conflict = s.conflict /\ n.still = Append(s.still, j)
      /\ j.left \in s.added /\ j.right \in s.added =>
           /\ n.added = s.added /\ n.joins = s.joins /\ n.still = s.still
           /\ n.conflict <=> s.conflict \/ \A k \in ToSet(s.joins) : ~Same(j, k)
      /\ j.left \in s.added /\ j.right \notin s.added =>
           /\ n.added = s.added \cup {j.right} /\ n.joins = Append(s.joins, j)
           /\ n.still = s.still /\ n.conflict = s.conflict
  BY MeetIs DEF Laid
<1>2. s.joins \in Seq(J) /\ s.added = {base} \cup {k.right : k \in ToSet(s.joins)} /\ ToSet(s.joins) \subseteq J
  BY RightsIs DEF Laid, PlanState, ToSet
<1>3. CASE j.left \notin s.added
  BY <1>1, <1>3 DEF Laid, Grows
<1>4. CASE j.left \in s.added /\ j.right \in s.added
  <2>1. (\A k \in ToSet(s.joins) : ~Same(j, k)) => Clash(base, J)
    BY <1>2, <1>4 DEF Clash
  <2> QED
    BY <1>1, <1>4, <2>1 DEF Laid, Grows
<1>5. CASE j.left \in s.added /\ j.right \notin s.added
  <2> DEFINE q == s.joins
  <2>0. /\ q \in Seq(J) /\ WellOrdered(base, q) /\ n.joins = Append(q, j)
        /\ j.left \in {base} \cup Rights(q) /\ j.right \notin {base} \cup Rights(q)
    BY <1>1, <1>2, <1>5 DEF Laid
  <2> HIDE DEF q
  <2>1. WellOrdered(base, n.joins)
    BY <2>0, WellOrderedAppend
  <2>2. ToSet(n.joins) = ToSet(s.joins) \cup {j}
    BY <2>0, AppendIs DEF q
  <2>3. n.added = {base} \cup Rights(n.joins)
    BY <1>1, <1>2, <1>5, <2>2, RightsIs
  <2>4. \A S : base \in S /\ Closed(J, S) => n.added \subseteq S
    BY <1>1, <1>5 DEF Laid, Closed
  <2> QED
    BY <1>1, <1>5, <2>1, <2>2, <2>3, <2>4 DEF Laid, Grows
<1> QED
  BY <1>3, <1>4, <1>5

\* one pass, from start over the joins q: what is true after i of them
MeetHolds(c, i, s) ==
  /\ Laid(c.base, c.J, s) /\ Grows(c.start, s)
  /\ \A h \in 1..i : c.q[h] \in ToSet(s.still) \/ Done(s, c.q[h])
  /\ ToSet(s.still) \subseteq {c.q[h] : h \in 1..i} /\ Len(s.still) <= i
  /\ \/ Len(s.still) < i
     \/ s.added = c.start.added /\ \A h \in 1..i : c.q[h].left \notin s.added
  /\ (\A h \in DOMAIN c.q : c.q[h].left \notin c.start.added) => s.added = c.start.added

Meeting == INSTANCE LeftFold WITH Op <- Meet, Holds <- MeetHolds

LEMMA MeetHoldsOn ==
  ASSUME NEW c, NEW i \in Nat, i \in DOMAIN c.q, c.q \in Seq(c.J), NEW s, MeetHolds(c, i - 1, s)
  PROVE  MeetHolds(c, i, Meet(s, c.q[i]))
<1> DEFINE base == c.base
           J == c.J
           q == c.q
           start == c.start
<1> SUFFICES ASSUME NEW j, j = q[i], NEW n, n = Meet(s, j)
             PROVE  MeetHolds(c, i, n)
  OBVIOUS
<1>0. /\ q \in Seq(J) /\ i \in DOMAIN q /\ j \in J /\ i - 1 \in Nat
      /\ \A h \in 1..i : h = i \/ h \in 1..(i - 1)
  OBVIOUS
<1>1. /\ Laid(base, J, s) /\ Grows(start, s)
      /\ \A h \in 1..(i - 1) : q[h] \in ToSet(s.still) \/ Done(s, q[h])
      /\ ToSet(s.still) \subseteq {q[h] : h \in 1..(i - 1)} /\ Len(s.still) <= i - 1
      /\ \/ Len(s.still) < i - 1
         \/ s.added = start.added /\ \A h \in 1..(i - 1) : q[h].left \notin s.added
      /\ (\A h \in DOMAIN q : q[h].left \notin start.added) => s.added = start.added
  BY DEF MeetHolds
<1>2. s \in PlanState(base, J)
  BY <1>1 DEF Laid
<1> HIDE DEF base, J, q, start
<1>3. /\ n \in PlanState(base, J)
      /\ j.left \notin s.added =>
           n.added = s.added /\ n.joins = s.joins /\ n.conflict = s.conflict /\ n.still = Append(s.still, j)
      /\ j.left \in s.added /\ j.right \in s.added =>
           /\ n.added = s.added /\ n.joins = s.joins /\ n.still = s.still
           /\ n.conflict <=> s.conflict \/ \A k \in ToSet(s.joins) : ~Same(j, k)
      /\ j.left \in s.added /\ j.right \notin s.added =>
           /\ n.added = s.added \cup {j.right} /\ n.joins = Append(s.joins, j)
           /\ n.still = s.still /\ n.conflict = s.conflict
  <2>1. s \in PlanState(base, J) /\ j \in J /\ n = Meet(s, j)
    BY <1>0, <1>2
  <2> QED
    BY ONLY <2>1, MeetIs
<1>4. Laid(base, J, n) /\ Grows(s, n)
  BY <1>0, <1>1, MeetLays
<1>5. Grows(start, n)
  BY <1>1, <1>4 DEF Grows
<1>6. s.still \in Seq(J) /\ s.joins \in Seq(J) /\ Len(s.still) \in Nat
  BY <1>2 DEF PlanState
<1>7. j.left \notin s.added => ToSet(n.still) = ToSet(s.still) \cup {j} /\ Len(n.still) = Len(s.still) + 1
  <2> DEFINE still == s.still
  <2> HIDE DEF still
  <2>1. still \in Seq(J) => ToSet(Append(still, j)) = ToSet(still) \cup {j} /\ Len(Append(still, j)) = Len(still) + 1
    BY <1>0, AppendIs
  <2> QED
    BY <1>3, <1>6, <2>1 DEF still
<1>8. j.left \in s.added => n.still = s.still /\ Done(n, j)
  <2>1. CASE j.left \in s.added /\ j.right \in s.added
    BY <1>3, <2>1 DEF Done
  <2>2. CASE j.left \in s.added /\ j.right \notin s.added
    <3>1. j \in ToSet(n.joins) /\ j.right \in n.added
      <4> DEFINE joins == s.joins
      <4> HIDE DEF joins
      <4>1. joins \in Seq(J) => j \in ToSet(Append(joins, j))
        BY <1>0, AppendIs
      <4> QED
        BY <1>3, <1>6, <2>2, <4>1 DEF joins
    <3> QED
      BY <1>3, <2>2, <3>1 DEF Done, Same
  <2> QED
    BY <2>1, <2>2
<1>9. \A h \in 1..i : q[h] \in ToSet(n.still) \/ Done(n, q[h])
  <2> SUFFICES ASSUME NEW h \in 1..i PROVE q[h] \in ToSet(n.still) \/ Done(n, q[h])
    OBVIOUS
  <2>1. CASE h = i
    BY <1>7, <1>8, <2>1 DEF q
  <2>2. CASE h \in 1..(i - 1)
    BY <1>1, <1>4, <1>7, <1>8, <2>2, DoneStays
  <2> QED
    BY <1>0, <2>1, <2>2
<1>10. ToSet(n.still) \subseteq {q[h] : h \in 1..i} /\ Len(n.still) <= i
  <2>1. {q[h] : h \in 1..(i - 1)} \cup {j} = {q[h] : h \in 1..i}
    BY <1>0 DEF q
  <2> QED
    BY <1>0, <1>1, <1>6, <1>7, <1>8, <2>1
<1>11. \/ Len(n.still) < i
       \/ n.added = start.added /\ \A h \in 1..i : q[h].left \notin n.added
  <2>1. CASE j.left \in s.added
    BY <1>0, <1>1, <1>6, <1>8, <2>1
  <2>2. CASE j.left \notin s.added
    BY <1>0, <1>1, <1>3, <1>6, <1>7, <2>2 DEF q
  <2> QED
    BY <2>1, <2>2
<1>12. (\A h \in DOMAIN q : q[h].left \notin start.added) => n.added = start.added
  BY <1>0, <1>1, <1>3 DEF q
<1> QED
  BY <1>4, <1>5, <1>9, <1>10, <1>11, <1>12 DEF MeetHolds, base, J, q, start

Stuck(s) == \A j \in ToSet(s.still) : j.left \notin s.added

\* between two passes: each join waits, is in order or repeats one that is
Ordering(base, J, s) == Laid(base, J, s) /\ \A j \in J : j \in ToSet(s.still) \/ Done(s, j)

LEMMA FoldOfMeet == ASSUME NEW b, NEW q PROVE FoldLeft(Meet, b, q) = Meeting!Folded(b, q)
  BY DEF Meeting!Folded, FoldLeft, Meeting!FoldLeft, MapThenFoldSet, Meeting!MapThenFoldSet, Max, Meeting!Max

LEMMA PassIs ==
  ASSUME NEW base, NEW J, NEW s, Ordering(base, J, s), NEW turn, NEW n, n = Pass(s, turn)
  PROVE  /\ Ordering(base, J, n)
         /\ Stuck(s) => Stuck(n)
         /\ Len(n.still) < Len(s.still) \/ Stuck(n)
<1> DEFINE q == s.still
           start == [s EXCEPT !.still = <<>>]
           c == [base |-> base, J |-> J, q |-> q, start |-> start]
<1>1. s \in PlanState(base, J) /\ q \in Seq(J) /\ DOMAIN q = 1..Len(q) /\ Len(q) \in Nat
  BY DEF Ordering, Laid, PlanState
<1>2. /\ start.added = s.added /\ start.joins = s.joins /\ start.conflict = s.conflict /\ start.still = <<>>
      /\ start \in PlanState(base, J)
  <2>1. <<>> \in Seq(J)
    OBVIOUS
  <2>2. s \in PlanState(base, J)
    BY <1>1
  <2> HIDE DEF q
  <2> QED
    BY <2>1, <2>2 DEF PlanState
<1>3. n = FoldLeft(Meet, start, q)
  BY DEF Pass
<1>4. c.base = base /\ c.J = J /\ c.q = q /\ c.start = start
  OBVIOUS
<1> HIDE DEF q, start, c
<1>5. MeetHolds(c, 0, start)
  <2>1. Laid(base, J, start) /\ Grows(start, start)
    BY <1>2 DEF Ordering, Laid, Grows
  <2>2. ToSet(start.still) = {} /\ Len(start.still) = 0
    BY <1>2, EmptySet
  <2>3. 1..0 = {}
    OBVIOUS
  <2> QED
    BY <1>4, <2>1, <2>2, <2>3 DEF MeetHolds
<1>6. \A i \in 1..Len(q) : \A t : MeetHolds(c, i - 1, t) => MeetHolds(c, i, Meet(t, q[i]))
  BY <1>1, <1>4, MeetHoldsOn
<1>7. MeetHolds(c, Len(q), n)
  <2>1. MeetHolds(c, Len(q), Meeting!Folded(start, q))
    BY <1>1, <1>5, <1>6, Meeting!FoldInduction
  <2> QED
    BY <1>3, <2>1, FoldOfMeet
<1>8. /\ Laid(base, J, n) /\ Grows(start, n)
      /\ \A h \in 1..Len(q) : q[h] \in ToSet(n.still) \/ Done(n, q[h])
      /\ ToSet(n.still) \subseteq {q[h] : h \in 1..Len(q)} /\ Len(n.still) <= Len(q)
      /\ \/ Len(n.still) < Len(q)
         \/ n.added = s.added /\ \A h \in 1..Len(q) : q[h].left \notin n.added
      /\ (\A h \in 1..Len(q) : q[h].left \notin s.added) => n.added = s.added
  BY <1>1, <1>2, <1>4, <1>7 DEF MeetHolds
<1>9. Ordering(base, J, n)
  <2> SUFFICES ASSUME NEW j \in J PROVE j \in ToSet(n.still) \/ Done(n, j)
    BY <1>8 DEF Ordering
  <2>1. CASE j \in ToSet(s.still)
    BY <1>1, <1>8, <2>1 DEF ToSet, q
  <2>2. CASE Done(s, j)
    <3>1. Done(start, j)
      BY <1>2, <2>2 DEF Done
    <3> QED
      BY <1>8, <3>1, DoneStays
  <2> QED
    BY <2>1, <2>2 DEF Ordering
<1>10. Stuck(s) => Stuck(n)
  BY <1>1, <1>8 DEF Stuck, ToSet, q
<1>11. Len(n.still) < Len(s.still) \/ Stuck(n)
  <2>1. CASE \A h \in 1..Len(q) : q[h].left \notin n.added
    BY <1>8, <2>1 DEF Stuck
  <2>2. CASE Len(n.still) < Len(q)
    BY <2>2 DEF q
  <2> QED
    BY <1>8, <2>1, <2>2
<1> QED
  BY <1>9, <1>10, <1>11

\* after i passes over n joins
PassHolds(c, i, s) == Ordering(c.base, c.J, s) /\ (Len(s.still) <= c.n - i \/ Stuck(s))

Passing == INSTANCE LeftFold WITH Op <- Pass, Holds <- PassHolds

LEMMA FoldOfPass == ASSUME NEW b, NEW q PROVE FoldLeft(Pass, b, q) = Passing!Folded(b, q)
  BY DEF Passing!Folded, FoldLeft, Passing!FoldLeft, MapThenFoldSet, Passing!MapThenFoldSet, Max, Passing!Max

LEMMA PassHoldsOn ==
  ASSUME NEW c, c.n \in Nat, NEW i \in Nat, NEW s, PassHolds(c, i - 1, s), NEW turn
  PROVE  PassHolds(c, i, Pass(s, turn))
<1> SUFFICES ASSUME NEW n, n = Pass(s, turn) PROVE PassHolds(c, i, n)
  OBVIOUS
<1>1. Ordering(c.base, c.J, s) /\ (Len(s.still) <= c.n - (i - 1) \/ Stuck(s))
  BY DEF PassHolds
<1>2. /\ Ordering(c.base, c.J, n)
      /\ Stuck(s) => Stuck(n)
      /\ Len(n.still) < Len(s.still) \/ Stuck(n)
  BY <1>1, PassIs
<1>3. Len(s.still) \in Nat /\ Len(n.still) \in Nat
  BY <1>1, <1>2 DEF Ordering, Laid, PlanState
<1> QED
  BY <1>1, <1>2, <1>3 DEF PassHolds

\* What the planner has in the end: nothing that waits could still be added.
LEMMA OrderIs ==
  ASSUME NEW base, NEW joins, ListOfJoins(joins), NEW o, o = Order(base, joins)
  PROVE  Ordering(base, ToSet(joins), o) /\ Stuck(o)
<1> DEFINE J == ToSet(joins)
           n == Len(joins)
           start == Unordered(base, joins)
           c == [base |-> base, J |-> J, n |-> n]
<1>1. joins \in Seq(J) /\ n \in Nat /\ DOMAIN joins = 1..n
  BY DEF ListOfJoins
<1>2. c.base = base /\ c.J = J /\ c.n = n
  OBVIOUS
<1>3. /\ start.added = {base} /\ start.joins = <<>> /\ start.still = joins /\ start.conflict = FALSE
      /\ start \in PlanState(base, J)
  BY <1>1 DEF Unordered, PlanState
<1>4. o = FoldLeft(Pass, start, joins)
  BY DEF Order
<1> HIDE DEF J, n, start, c
<1>5. PassHolds(c, 0, start)
  <2>1. Rights(start.joins) = {} /\ DOMAIN start.joins = {}
    BY <1>3, EmptySet, RightsIs
  <2>2. Laid(base, J, start)
    BY <1>3, <2>1 DEF Laid, WellOrdered
  <2>3. \A j \in J : j \in ToSet(start.still)
    BY <1>3 DEF J
  <2> QED
    BY <1>1, <1>2, <1>3, <2>2, <2>3 DEF PassHolds, Ordering, n
<1>6. PassHolds(c, n, o)
  <2>1. \A i \in 1..n : \A s : PassHolds(c, i - 1, s) => PassHolds(c, i, Pass(s, joins[i]))
    BY <1>1, <1>2, PassHoldsOn
  <2>2. PassHolds(c, n, Passing!Folded(start, joins))
    BY <1>1, <1>5, <2>1, Passing!FoldInduction
  <2> QED
    BY <1>4, <2>2, FoldOfPass
<1>7. Ordering(base, J, o) /\ (Len(o.still) <= 0 \/ Stuck(o))
  BY <1>1, <1>2, <1>6 DEF PassHolds
<1>8. Len(o.still) <= 0 => Stuck(o)
  <2>1. o.still \in Seq(J)
    BY <1>7 DEF Ordering, Laid, PlanState
  <2> QED
    BY <2>1 DEF Stuck, ToSet
<1> QED
  BY <1>7, <1>8 DEF J

LEMMA OrderedApart ==
  ASSUME NEW base, NEW J, NEW q \in Seq(J), WellOrdered(base, q), NEW j \in ToSet(q), NEW k \in ToSet(q)
  PROVE  /\ j.left \in {base} \cup Rights(q) /\ j.right # base
         /\ j.right = k.right => j = k
<1>1. PICK g \in 1..Len(q) : j = q[g]
  BY DEF ToSet
<1>2. PICK h \in 1..Len(q) : k = q[h]
  BY DEF ToSet
<1>3. Len(q) \in Nat /\ DOMAIN q = 1..Len(q)
  OBVIOUS
<1> DEFINE before(i) == {base} \cup {q[f].right : f \in 1..(i - 1)}
<1>4. \A i \in 1..Len(q) : q[i].left \in before(i) /\ q[i].right \notin before(i)
  BY <1>3 DEF WellOrdered
<1>5. \A i \in 1..Len(q) : before(i) \subseteq {base} \cup Rights(q)
  BY <1>3 DEF Rights
<1>6. j.left \in {base} \cup Rights(q) /\ j.right # base
  BY <1>1, <1>4, <1>5
<1>7. ASSUME j.right = k.right PROVE j = k
  <2>1. CASE g = h
    BY <1>1, <1>2, <2>1
  <2>2. CASE g < h
    <3>1. g \in 1..(h - 1)
      BY <2>2
    <3>2. j.right \in before(h)
      BY <1>1, <3>1
    <3> QED
      BY <1>2, <1>4, <1>7, <3>2
  <2>3. CASE h < g
    <3>1. h \in 1..(g - 1)
      BY <2>3
    <3>2. k.right \in before(g)
      BY <1>2, <3>1
    <3> QED
      BY <1>1, <1>4, <1>7, <3>2
  <2> QED
    BY <2>1, <2>2, <2>3
<1> QED
  BY <1>6, <1>7

LEMMA JoinsAre ==
  ASSUME NEW p, ListOfJoins(p.rels)
  PROVE  /\ ListOfJoins(Joins(p))
         /\ Rights(p.rels) = {j.right : j \in ToSet(Joins(p))}
         /\ \A S : (\A i \in DOMAIN p.rels : LeftOf(p.rels[i], Known(p)) \in S => p.rels[i].right \in S)
                      <=> Closed(ToSet(Joins(p)), S)
<1> DEFINE n == Len(p.rels)
           joins == Joins(p)
<1>1. n \in Nat /\ DOMAIN p.rels = 1..n
  BY DEF ListOfJoins
<1>2. joins = [i \in 1..n |-> Resolved(p.rels[i], Known(p))]
  BY <1>1 DEF Joins
<1> HIDE DEF n, joins
<1>3. DOMAIN joins = 1..n /\ \A i \in 1..n : joins[i] \in ToSet(joins)
  BY <1>2 DEF ToSet
<1>4. ListOfJoins(joins)
  BY <1>1, <1>2, <1>3 DEF ListOfJoins
<1>5. \A i \in 1..n : joins[i].right = p.rels[i].right /\ joins[i].left = LeftOf(p.rels[i], Known(p))
  BY <1>2 DEF Resolved
<1>6. Rights(p.rels) = {j.right : j \in ToSet(joins)}
  <2>1. Rights(p.rels) = {p.rels[i].right : i \in 1..n} /\ ToSet(joins) = {joins[i] : i \in 1..n}
    BY <1>1, <1>3 DEF Rights, ToSet
  <2>2. \A t \in {p.rels[i].right : i \in 1..n} : t \in {j.right : j \in ToSet(joins)}
    BY <1>3, <1>5
  <2>3. \A j \in ToSet(joins) : j.right \in {p.rels[i].right : i \in 1..n}
    BY <2>1, <1>5
  <2> QED
    BY <2>1, <2>2, <2>3
<1>7. \A S : (\A i \in DOMAIN p.rels : LeftOf(p.rels[i], Known(p)) \in S => p.rels[i].right \in S)
                <=> Closed(ToSet(joins), S)
  BY <1>1, <1>3, <1>5 DEF Closed, ToSet
<1> QED
  BY <1>4, <1>6, <1>7 DEF joins

\* What is in order in the end is what the joins reach.
LEMMA OrderReaches ==
  ASSUME NEW p, ListOfJoins(p.rels), NEW o, o = InOrder(p)
  PROVE  o.added = Reachable(p)
<1> DEFINE J == ToSet(Joins(p))
           base == PrimaryOf(p).table
<1>1. Ordering(base, J, o) /\ Stuck(o)
  BY JoinsAre, OrderIs DEF InOrder
<1>2. base \in Known(p) /\ \A j \in J : j.right \in Known(p)
  BY JoinsAre DEF Known
<1>3. \A S : (\A i \in DOMAIN p.rels : LeftOf(p.rels[i], Known(p)) \in S => p.rels[i].right \in S) <=> Closed(J, S)
  BY JoinsAre
<1>4. Reachable(p) = {t \in Known(p) : \A S \in SUBSET Known(p) : base \in S /\ Closed(J, S) => t \in S}
  BY <1>3 DEF Reachable
<1> HIDE DEF J, base
<1>5. o.added \in SUBSET Known(p) /\ base \in o.added
  BY <1>1, <1>2 DEF Ordering, Laid, PlanState
<1>6. Closed(J, o.added)
  BY <1>1 DEF Closed, Ordering, Done, Stuck
<1>7. \A S : base \in S /\ Closed(J, S) => o.added \subseteq S
  BY <1>1 DEF Ordering, Laid
<1> QED
  BY <1>4, <1>5, <1>6, <1>7

LEMMA PlannedIsTree ==
  ASSUME NEW p, ListOfJoins(p.rels), NEW latest, NEW d, JoinsValid(p, latest, d), NEW o, o = InOrder(p)
  PROVE  /\ Planned(p, latest, d) <=> IsTree(p)
         /\ Planned(p, latest, d) => /\ WellOrdered(PrimaryOf(p).table, o.joins)
                                     /\ Rights(o.joins) = Rights(p.rels)
<1> DEFINE J == ToSet(Joins(p))
           base == PrimaryOf(p).table
           fits == ~o.conflict /\ o.still = <<>> /\ AttrTables(p) \subseteq o.added
<1>1. Ordering(base, J, o) /\ Stuck(o)
  BY JoinsAre, OrderIs DEF InOrder
<1>2. Planned(p, latest, d) <=> fits
  BY DEF Planned
<1>3. o.added = Reachable(p)
  BY OrderReaches
<1>4. IsTree(p) <=> /\ \A j \in J : j.left \in o.added
                    /\ \A j, k \in J : j.right = k.right => Same(j, k)
                    /\ \A j \in J : j.right # base
                    /\ AttrTables(p) \subseteq o.added
  BY <1>3, JoinsAre DEF IsTree
<1>5. Rights(p.rels) = {j.right : j \in J}
  BY JoinsAre
<1> HIDE DEF J, base
<1>6. /\ o.joins \in Seq(J) /\ o.still \in Seq(J) /\ WellOrdered(base, o.joins)
      /\ o.added = {base} \cup Rights(o.joins) /\ Rights(o.joins) = {j.right : j \in ToSet(o.joins)}
      /\ ToSet(o.joins) \subseteq J /\ ToSet(o.still) \subseteq J
  BY <1>1, RightsIs DEF Ordering, Laid, PlanState, ToSet
<1>7. ASSUME fits PROVE /\ IsTree(p) /\ Rights(o.joins) = Rights(p.rels)
  <2>1. \A j \in J : \E k \in ToSet(o.joins) : Same(j, k)
    BY <1>1, <1>7, EmptySet DEF Ordering, Done
  <2>2. \A j, k \in ToSet(o.joins) : /\ j.left \in o.added /\ j.right # base
                                     /\ j.right = k.right => j = k
    <3> DEFINE q == o.joins
    <3> HIDE DEF q
    <3>1. q \in Seq(J) /\ WellOrdered(base, q) =>
            \A j, k \in ToSet(q) : /\ j.left \in {base} \cup Rights(q) /\ j.right # base
                                   /\ j.right = k.right => j = k
      BY OrderedApart
    <3> QED
      BY <1>6, <3>1 DEF q
  <2>3. \A j \in J : j.left \in o.added /\ j.right # base
    BY <2>1, <2>2 DEF Same
  <2>4. ASSUME NEW j \in J, NEW k \in J, j.right = k.right PROVE Same(j, k)
    <3>1. PICK jj \in ToSet(o.joins) : Same(j, jj)
      BY <2>1
    <3>2. PICK kk \in ToSet(o.joins) : Same(k, kk)
      BY <2>1
    <3>3. jj = kk
      BY <2>2, <2>4, <3>1, <3>2 DEF Same
    <3> QED
      BY <3>1, <3>2, <3>3 DEF Same
  <2>5. Rights(o.joins) = Rights(p.rels)
    BY <1>5, <1>6, <2>1 DEF Same
  <2> QED
    BY <1>4, <1>7, <2>3, <2>4, <2>5
<1>8. ASSUME IsTree(p) PROVE fits
  <2>1. ~Clash(base, J)
    BY <1>4, <1>8 DEF Clash
  <2>2. ~o.conflict
    BY <1>1, <2>1 DEF Ordering, Laid
  <2>3. ToSet(o.still) = {}
    BY <1>1, <1>4, <1>6, <1>8 DEF Stuck
  <2>4. o.still = <<>>
    <3> DEFINE q == o.still
    <3> HIDE DEF q
    <3>1. ASSUME q \in Seq(J), q # <<>> PROVE q[1] \in ToSet(q)
      <4>1. 1 \in DOMAIN q
        BY <3>1
      <4> QED
        BY <4>1 DEF ToSet
    <3> QED
      BY <1>6, <2>3, <3>1 DEF q
  <2> QED
    BY <1>4, <1>8, <2>2, <2>4
<1> HIDE DEF fits
<1> QED
  BY <1>2, <1>6, <1>7, <1>8 DEF base

\* Joins in any order, listed twice or into each other, over tables of any names: the
\* planner accepts exactly the trees over the base, and emits each join after its left table.
THEOREM PlanIsTreeHolds == Spec => []PlanIsTree
<1>1. ModelInv => PlanIsTree
  <2> SUFFICES ASSUME ModelInv, builder # None, JoinsValid(builder, builder.latest, data)
               PROVE  LET joins == InOrder(builder).joins
                          planned == Planned(builder, builder.latest, data)
                      IN  /\ planned <=> IsTree(builder)
                          /\ planned => /\ WellOrdered(PrimaryOf(builder).table, joins)
                                        /\ Rights(joins) = Rights(builder.rels)
    BY DEF PlanIsTree
  <2>1. ListOfJoins(builder.rels)
    BY DEF ModelInv, IsMapping
  <2> QED
    BY <2>1, PlannedIsTree
<1> QED
  BY <1>1, ModelAlways, PTL

(***************************************************************************)
(* One row per key.                                                        *)
(***************************************************************************)
\* each join of the FROM clause finds at most one row, as the base has one row per key
Keyed(v, rel) ==
  /\ Unique(rel, v.base, v.pk)
  /\ \A j \in ToSet(v.joins) : j.right # v.base /\ Unique(rel, j.right, j.rc)

\* What one more join does to the rows there are.
LEMMA JoinOnIs ==
  ASSUME NEW F, NEW step, NEW n \in JoinOn(F, step)
  PROVE  \E f \in F :
           \/ /\ step.join.type = "left" /\ n = With(f, step.join.right, NullRow)
              /\ {r \in step.rows : r[step.join.rc] # Null /\ r[step.join.rc] = f[step.join.left][step.join.lc]} = {}
           \/ \E r \in step.rows :
                /\ r[step.join.rc] # Null /\ r[step.join.rc] = f[step.join.left][step.join.lc]
                /\ n = With(f, step.join.right, r)
  BY DEF JoinOn

LEMMA JoinOnKeeps ==
  ASSUME NEW F, NEW step, step.join.type = "left", NEW f \in F
  PROVE  \E r : With(f, step.join.right, r) \in JoinOn(F, step)
<1> DEFINE j == step.join
           matches == {r \in step.rows : r[j.rc] # Null /\ r[j.rc] = f[j.left][j.lc]}
           extend == IF matches = {} /\ j.type = "left" THEN {With(f, j.right, NullRow)}
                     ELSE {With(f, j.right, r) : r \in matches}
<1>1. extend \subseteq JoinOn(F, step)
  BY DEF JoinOn
<1>2. CASE matches = {}
  BY <1>1, <1>2
<1>3. CASE matches # {}
  <2>1. PICK r : r \in matches
    BY <1>3
  <2>2. With(f, j.right, r) \in extend
    BY <1>3, <2>1
  <2> QED
    BY <1>1, <2>2
<1> QED
  BY <1>2, <1>3

LEMMA WithIs ==
  ASSUME NEW f, NEW t, NEW r, NEW b \in DOMAIN f, b # t
  PROVE  b \in DOMAIN With(f, t, r) /\ With(f, t, r)[b] = f[b]
  BY DEF With

\* the rows after the first i joins: each row of the base is extended in one way at most
JoinHolds(c, i, F) ==
  /\ \A f \in F : c.base \in DOMAIN f /\ f[c.base] \in c.rows
  /\ \A f, g \in F : f[c.base] = g[c.base] => f = g
  /\ c.lossless => \A r \in c.rows : \E f \in F : f[c.base] = r

Joining == INSTANCE LeftFold WITH Op <- JoinOn, Holds <- JoinHolds

LEMMA FoldOfJoinOn == ASSUME NEW b, NEW q PROVE FoldLeft(JoinOn, b, q) = Joining!Folded(b, q)
  BY DEF Joining!Folded, FoldLeft, Joining!FoldLeft, MapThenFoldSet, Joining!MapThenFoldSet, Max, Joining!Max

LEMMA JoinHoldsOn ==
  ASSUME NEW c, NEW i, NEW F, JoinHolds(c, i - 1, F), NEW step,
         step.join.right # c.base, c.lossless => step.join.type = "left",
         \A r, s \in step.rows : r[step.join.rc] = s[step.join.rc] /\ r[step.join.rc] # Null => r = s
  PROVE  JoinHolds(c, i, JoinOn(F, step))
<1> DEFINE j == step.join
           found(f, r) == r \in step.rows /\ r[j.rc] # Null /\ r[j.rc] = f[j.left][j.lc]
           new == JoinOn(F, step)
<1>1. \A n \in new : \E f \in F :
        \/ n = With(f, j.right, NullRow) /\ ~\E r : found(f, r)
        \/ \E r : found(f, r) /\ n = With(f, j.right, r)
  <2> SUFFICES ASSUME NEW n \in new
               PROVE  \E f \in F :
                        \/ n = With(f, j.right, NullRow) /\ ~\E r : found(f, r)
                        \/ \E r : found(f, r) /\ n = With(f, j.right, r)
    OBVIOUS
  <2> HIDE DEF found, new
  <2>1. PICK f \in F :
           \/ /\ n = With(f, j.right, NullRow)
              /\ {r \in step.rows : r[j.rc] # Null /\ r[j.rc] = f[j.left][j.lc]} = {}
           \/ \E r \in step.rows :
                /\ r[j.rc] # Null /\ r[j.rc] = f[j.left][j.lc]
                /\ n = With(f, j.right, r)
    BY JoinOnIs DEF new
  <2> QED
    BY <2>1 DEF found
<1>2. \A f \in F : \A r : c.base \in DOMAIN With(f, j.right, r) /\ With(f, j.right, r)[c.base] = f[c.base]
  BY WithIs DEF JoinHolds
<1>3. \A f \in F : \A r, s : found(f, r) /\ found(f, s) => r = s
  OBVIOUS
<1>4. c.lossless => \A f \in F : \E r : With(f, j.right, r) \in new
  BY JoinOnKeeps
<1> HIDE DEF found, new, j
<1>5. \A n \in new : c.base \in DOMAIN n /\ n[c.base] \in c.rows
  BY <1>1, <1>2 DEF JoinHolds
<1>6. ASSUME NEW n \in new, NEW m \in new, n[c.base] = m[c.base] PROVE n = m
  <2>1. PICK f \in F :
        \/ n = With(f, j.right, NullRow) /\ ~\E r : found(f, r)
        \/ \E r : found(f, r) /\ n = With(f, j.right, r)
    BY <1>1
  <2>2. PICK g \in F :
        \/ m = With(g, j.right, NullRow) /\ ~\E r : found(g, r)
        \/ \E r : found(g, r) /\ m = With(g, j.right, r)
    BY <1>1
  <2>3. n[c.base] = f[c.base] /\ m[c.base] = g[c.base]
    <3>1. \A r : With(f, j.right, r)[c.base] = f[c.base] /\ With(g, j.right, r)[c.base] = g[c.base]
      BY <1>2
    <3>2. n[c.base] = f[c.base]
      BY <2>1, <3>1
    <3>3. m[c.base] = g[c.base]
      BY <2>2, <3>1
    <3> QED
      BY <3>2, <3>3
  <2>4. f = g
    <3>1. \A x, y \in F : x[c.base] = y[c.base] => x = y
      BY DEF JoinHolds
    <3>2. f[c.base] = g[c.base]
      BY <1>6, <2>3
    <3> HIDE DEF JoinHolds
    <3> QED
      BY ONLY <3>1, <3>2
  <2>5. CASE \E r : found(f, r)
    <3>1. PICK r : found(f, r) /\ n = With(f, j.right, r)
      BY <2>1, <2>5
    <3>2. PICK t : found(f, t) /\ m = With(f, j.right, t)
      BY <2>2, <2>4, <2>5
    <3>3. r = t
      BY <1>3, <3>1, <3>2
    <3> QED
      BY <3>1, <3>2, <3>3
  <2>6. CASE ~\E r : found(f, r)
    <3>1. n = With(f, j.right, NullRow)
      BY <2>1, <2>6
    <3>2. m = With(f, j.right, NullRow)
      BY <2>2, <2>4, <2>6
    <3> QED
      BY <3>1, <3>2
  <2> QED
    BY <2>5, <2>6
<1>7. c.lossless => \A r \in c.rows : \E n \in new : n[c.base] = r
  BY <1>2, <1>4 DEF JoinHolds
<1> QED
  BY <1>5, <1>6, <1>7 DEF JoinHolds, new

LEMMA RowsApart ==
  ASSUME NEW v, NEW rel, NEW J, v.joins \in Seq(J), Keyed(v, rel)
  PROVE  /\ \A f, g \in Rows(v, rel) : f[v.base][v.pk] = g[v.base][v.pk] /\ f[v.base][v.pk] # Null => f = g
         /\ (\A j \in ToSet(v.joins) : j.type = "left") =>
              {f[v.base][v.pk] : f \in Rows(v, rel)} = {r[v.pk] : r \in rel[v.base]}
<1> DEFINE n == Len(v.joins)
           steps == [i \in DOMAIN v.joins |-> [join |-> v.joins[i], rows |-> rel[v.joins[i].right]]]
           first == {[t \in {v.base} |-> r] : r \in rel[v.base]}
           c == [base |-> v.base, rows |-> rel[v.base], lossless |-> \A j \in ToSet(v.joins) : j.type = "left"]
<1>1. n \in Nat /\ DOMAIN v.joins = 1..n /\ DOMAIN steps = 1..n
  OBVIOUS
<1>2. \A i \in 1..n : v.joins[i] \in ToSet(v.joins)
  BY <1>1 DEF ToSet
<1>3. c.base = v.base /\ c.rows = rel[v.base] /\ (c.lossless <=> \A j \in ToSet(v.joins) : j.type = "left")
  OBVIOUS
<1>4. \A i \in 1..n : steps[i].join = v.joins[i] /\ steps[i].rows = rel[v.joins[i].right]
  BY <1>1
<1>5. Rows(v, rel) = Joining!Folded(first, steps)
  BY FoldOfJoinOn DEF Rows
<1>6. JoinHolds(c, 0, first)
  <2> DEFINE base == v.base
             one(r) == [t \in {base} |-> r]
  <2> HIDE DEF base
  <2>1. \A r : DOMAIN one(r) = {base} /\ one(r)[base] = r
    OBVIOUS
  <2>2. first = {one(r) : r \in rel[base]}
    BY DEF base
  <2> HIDE DEF first, c, one
  <2>3. \A f \in first : base \in DOMAIN f /\ f[base] \in rel[base] /\ f = one(f[base])
    BY <2>1, <2>2
  <2>4. \A f, g \in first : f[base] = g[base] => f = g
    BY <2>3
  <2>5. \A r \in rel[base] : \E f \in first : f[base] = r
    BY <2>1, <2>2
  <2> QED
    BY <1>3, <2>3, <2>4, <2>5 DEF JoinHolds, base
<1> HIDE DEF n, steps, first, c
<1>7. ASSUME NEW i \in 1..n, NEW F, JoinHolds(c, i - 1, F) PROVE JoinHolds(c, i, JoinOn(F, steps[i]))
  <2>1. /\ steps[i].join.right # c.base
        /\ c.lossless => steps[i].join.type = "left"
    BY <1>2, <1>3, <1>4 DEF Keyed
  <2>2. \A r, s \in steps[i].rows : r[steps[i].join.rc] = s[steps[i].join.rc] /\ r[steps[i].join.rc] # Null => r = s
    BY <1>2, <1>4 DEF Keyed, Unique
  <2> QED
    BY <1>7, <2>1, <2>2, JoinHoldsOn
<1>8. JoinHolds(c, n, Joining!Folded(first, steps))
  BY <1>1, <1>6, <1>7, Joining!FoldInduction
<1>9. JoinHolds(c, n, Rows(v, rel))
  BY <1>5, <1>8
<1> QED
  BY <1>3, <1>9 DEF JoinHolds, Keyed, Unique

\* DISTINCT ON leaves one row of each key, and no key without a row.
LEMMA ReducedIs ==
  ASSUME NEW rows, NEW m, NEW kept \in Reduced(rows, m)
  PROVE  /\ kept \subseteq rows
         /\ \A r, s \in kept : r[m.key] = s[m.key] => r = s
         /\ \A r \in rows : \E q \in kept : q[m.key] = r[m.key]
<1> DEFINE newest == {r \in rows : \A s \in rows : s[m.key] = r[m.key] => ~Older(r, s, m)}
<1>0. kept \in {k \in SUBSET newest : \A r \in rows : \E q \in k : {s \in k : s[m.key] = r[m.key]} = {q}}
  BY DEF Reduced
<1>1. newest \subseteq rows
  OBVIOUS
<1> HIDE DEF newest
<1>2. kept \subseteq rows /\ \A r \in rows : \E q \in kept : {s \in kept : s[m.key] = r[m.key]} = {q}
  BY <1>0, <1>1
<1>3. ASSUME NEW r \in kept, NEW s \in kept, r[m.key] = s[m.key] PROVE r = s
  <2>1. PICK q \in kept : {x \in kept : x[m.key] = r[m.key]} = {q}
    BY <1>2
  <2>2. r \in {x \in kept : x[m.key] = r[m.key]} /\ s \in {x \in kept : x[m.key] = r[m.key]}
    BY <1>3
  <2> QED
    BY <2>1, <2>2
<1>4. ASSUME NEW r \in rows PROVE \E q \in kept : q[m.key] = r[m.key]
  <2>1. PICK q \in kept : {x \in kept : x[m.key] = r[m.key]} = {q}
    BY <1>2
  <2>2. q \in {x \in kept : x[m.key] = r[m.key]}
    BY <2>1
  <2> QED
    BY <2>2
<1> QED
  BY <1>2, <1>3, <1>4

KeySet(v, d) == {r[v.pk] : r \in d[v.base]}

LEMMA ValidIs ==
  ASSUME NEW p, NEW d, NEW v, v = Validate(p, TRUE, d), v # None
  PROVE  /\ ~Latest(p, TRUE) =>
              /\ Unique(d, PrimaryOf(p).table, PrimaryOf(p).col)
              /\ \A i \in DOMAIN p.rels : p.rels[i].fanout \/ Unique(d, p.rels[i].right, p.rels[i].rc)
         /\ v.base = PrimaryOf(p).table /\ v.pk = PrimaryOf(p).col /\ v.joins = InOrder(p).joins
         /\ v.latest <=> Latest(p, TRUE)
         /\ Latest(p, TRUE) => v.dedup = Dedup(p, InOrder(p).joins, Recency(p, TRUE))
  BY DEF Validate, Planned, JoinsValid, KeyValid

\* A mapping that validates over the data a read selects from finds one row at each join.
LEMMA ValidIsKeyed ==
  ASSUME NEW p, IsMapping(p), NEW d, NEW v, v = Validate(p, TRUE, d), v # None,
         NEW rel \in Relations(v, d), v.latest \/ \A j \in ToSet(v.joins) : ~j.fanout
  PROVE  /\ v.joins \in Seq(ToSet(Joins(p))) /\ Keyed(v, rel)
         /\ KeySet(v, rel) = KeySet(v, d)
<1> DEFINE latest == Latest(p, TRUE)
           recency == Recency(p, TRUE)
           o == InOrder(p)
           base == PrimaryOf(p).table
           pk == PrimaryOf(p).col
           J == ToSet(Joins(p))
           q == o.joins
           dedup == Dedup(p, q, recency)
<1>1. ~latest => /\ Unique(d, base, pk)
                 /\ \A i \in DOMAIN p.rels : p.rels[i].fanout \/ Unique(d, p.rels[i].right, p.rels[i].rc)
  BY ValidIs
<1>2. v.base = base /\ v.pk = pk /\ v.joins = q
  BY ValidIs
<1>9. v.latest <=> latest
  BY ValidIs
<1>4. q \in Seq(J) /\ ToSet(q) \subseteq J /\ WellOrdered(base, q)
  <2>1. Ordering(base, J, o)
    BY JoinsAre, OrderIs DEF InOrder, IsMapping
  <2> HIDE DEF o, J, base
  <2> QED
    BY <2>1 DEF Ordering, Laid, PlanState, ToSet
<1>5. \A j \in ToSet(q) : /\ j.right # base
                          /\ \A k \in ToSet(q) : j.right = k.right => j = k
  <2>1. ASSUME NEW J1, NEW q1 \in Seq(J1), WellOrdered(base, q1), NEW j \in ToSet(q1), NEW k \in ToSet(q1)
        PROVE  j.right # base /\ (j.right = k.right => j = k)
    BY <2>1, OrderedApart
  <2> HIDE DEF q, J, base
  <2> QED
    BY <1>4, <2>1
<1>6. CASE ~latest
  <2>1. rel = d
    BY <1>6, <1>9 DEF Relations
  <2>2. Unique(rel, base, pk)
    BY <1>1, <1>6, <2>1
  <2>3. ASSUME NEW j \in ToSet(q) PROVE Unique(rel, j.right, j.rc)
    <3>1. j \in J /\ ~j.fanout
      BY <1>2, <1>4, <1>6, <1>9, <2>3
    <3>2. PICK i \in DOMAIN p.rels : j = Resolved(p.rels[i], Known(p))
      BY <3>1 DEF Joins, ToSet
    <3>3. j.right = p.rels[i].right /\ j.rc = p.rels[i].rc /\ j.fanout = p.rels[i].fanout
      BY <3>2 DEF Resolved
    <3>4. Unique(d, p.rels[i].right, p.rels[i].rc)
      BY <1>1, <1>6, <3>1, <3>3
    <3> QED
      BY <2>1, <3>3, <3>4
  <2> HIDE DEF q, J, base, pk, latest
  <2>4. Keyed(v, rel)
    BY <1>2, <1>5, <2>2, <2>3 DEF Keyed
  <2> QED
    BY <1>2, <1>4, <2>1, <2>4 DEF J
<1>7. CASE latest
  <2>1. v.dedup = dedup
    BY <1>7, ValidIs
  <2>2. /\ DOMAIN DedupKeys(p, q) = {base} \cup Rights(q)
        /\ DedupKeys(p, q)[base] = pk
        /\ \A t \in Rights(q) : t # base => DedupKeys(p, q)[t] = q[CHOOSE i \in DOMAIN q : q[i].right = t].rc
    BY DEF DedupKeys
  <2>3. /\ DOMAIN dedup = {base} \cup Rights(q)
        /\ \A t \in {base} \cup Rights(q) : dedup[t].key = DedupKeys(p, q)[t]
    <3> HIDE DEF base, pk, q
    <3> QED
      BY <2>2 DEF Dedup
  <2>4. \A t \in DOMAIN dedup : rel[t] \in Reduced(d[t], dedup[t])
    BY <1>7, <1>9, <2>1 DEF Relations
  <2> HIDE DEF dedup, q, base, pk, J, latest
  <2>5. \A t \in DOMAIN dedup :
           /\ Unique(rel, t, dedup[t].key)
           /\ rel[t] \subseteq d[t]
           /\ \A r \in d[t] : \E s \in rel[t] : s[dedup[t].key] = r[dedup[t].key]
    BY <2>4, ReducedIs DEF Unique
  <2>6. dedup[base].key = pk /\ base \in DOMAIN dedup
    BY <2>2, <2>3
  <2>7. ASSUME NEW j \in ToSet(q) PROVE j.right \in DOMAIN dedup /\ dedup[j.right].key = j.rc
    <3>1. PICK h \in DOMAIN q : j = q[h]
      BY DEF ToSet
    <3> DEFINE i == CHOOSE i \in DOMAIN q : q[i].right = j.right
    <3>2. i \in DOMAIN q /\ q[i].right = j.right
      BY <3>1
    <3>3. q[i] \in ToSet(q) /\ j.right \in Rights(q)
      BY <3>1, <3>2 DEF ToSet, Rights
    <3>4. q[i] = j /\ j.right # base
      BY <1>5, <3>2, <3>3
    <3>5. dedup[j.right].key = q[i].rc
      BY <2>2, <2>3, <3>3, <3>4
    <3> QED
      BY <2>3, <3>3, <3>4, <3>5
  <2>8. \A j \in ToSet(q) : Unique(rel, j.right, j.rc)
    BY <2>5, <2>7
  <2>9. Unique(rel, base, pk)
    BY <2>5, <2>6
  <2>10. {r[pk] : r \in rel[base]} = {r[pk] : r \in d[base]}
    BY <2>5, <2>6
  <2>11. Keyed(v, rel)
    BY <1>2, <1>5, <2>8, <2>9 DEF Keyed
  <2>12. KeySet(v, rel) = KeySet(v, d)
    <3>1. KeySet(v, rel) = {r[pk] : r \in rel[base]} /\ KeySet(v, d) = {r[pk] : r \in d[base]}
      BY <1>2 DEF KeySet
    <3> QED
      BY <2>10, <3>1
  <2> QED
    BY <1>2, <1>4, <2>11, <2>12 DEF J
<1> QED
  BY <1>6, <1>7

\* While no row came in between, the plan a read holds is what its probes said of the data.
ReadInv ==
  /\ ModelInv
  /\ plan # None /\ "read" \notin touched => \E p : IsMapping(p) /\ plan = Validate(p, TRUE, data)
  /\ OneRowPerKey

LEMMA PlanSelects ==
  ASSUME ReadInv, plan # None, "read" \notin touched, NEW rel \in Relations(plan, data),
         plan.latest \/ \A j \in ToSet(plan.joins) : ~j.fanout
  PROVE  LET key(f) == f[plan.base][plan.pk]
         IN  /\ \A f, g \in Rows(plan, rel) : key(f) = key(g) /\ key(f) # Null => f = g
             /\ (\A j \in ToSet(plan.joins) : j.type = "left") =>
                  {key(f) : f \in Rows(plan, rel)} = {r[plan.pk] : r \in data[plan.base]}
<1>1. PICK p : IsMapping(p) /\ plan = Validate(p, TRUE, data)
  BY DEF ReadInv
<1>2. \A v, d : (/\ v = Validate(p, TRUE, d) /\ v # None /\ rel \in Relations(v, d)
                 /\ v.latest \/ \A j \in ToSet(v.joins) : ~j.fanout)
        => /\ v.joins \in Seq(ToSet(Joins(p))) /\ Keyed(v, rel)
           /\ KeySet(v, rel) = KeySet(v, d)
  BY <1>1, ValidIsKeyed
<1>3. /\ plan.joins \in Seq(ToSet(Joins(p))) /\ Keyed(plan, rel)
      /\ KeySet(plan, rel) = KeySet(plan, data)
  BY <1>1, <1>2
<1> QED
  BY <1>3, RowsApart DEF KeySet

LEMMA AnswerIs ==
  ASSUME NEW kind, NEW rows, NEW a, a = Answer(kind, rows)
  PROVE  /\ a.kind = kind /\ a.rows = rows /\ a.of = plan /\ (a.fresh <=> "read" \notin touched)
         /\ a.keys = {r[plan.pk] : r \in data[plan.base]}
  BY DEF Answer

\* what a lookup finds, and what it says of it
Found(rel, k) == {f \in Rows(plan, rel) : f[plan.base][plan.pk] = k}

Verdict(found) == IF Cardinality(found) > 1 THEN "conflict" ELSE IF found = {} THEN "missing" ELSE "found"

LEMMA LookupIs ==
  ASSUME Lookup
  PROVE  \E rel \in Relations(plan, data), k \in {r[plan.pk] : r \in data[plan.base]} \ {Null} :
           answer' = Answer(Verdict(Found(rel, k)), Found(rel, k))
  BY DEF Lookup, Found, Verdict

LEMMA VerdictIs ==
  ASSUME NEW found, \A f, g \in found : f = g
  PROVE  Verdict(found) # "conflict" /\ Verdict(found) # "list"
<1>1. CASE found = {}
  <2>1. Cardinality(found) = 0
    BY <1>1, FS_EmptySet
  <2> QED
    BY <2>1 DEF Verdict
<1>2. CASE found # {}
  <2>1. PICK f : found = {f}
    BY <1>2
  <2>2. Cardinality(found) = 1
    BY <2>1, FS_Singleton
  <2> QED
    BY <2>2 DEF Verdict
<1> QED
  BY <1>1, <1>2

LEMMA ReadsApart ==
  ASSUME ReadInv, List \/ Preview \/ Lookup
  PROVE  OneRowPerKey'
<1> SUFFICES ASSUME answer'.fresh, answer'.of.latest \/ \A j \in ToSet(answer'.of.joins) : ~j.fanout
             PROVE  LET key(f) == f[answer'.of.base][answer'.of.pk]
                    IN  /\ \A f, g \in answer'.rows : key(f) = key(g) /\ key(f) # Null => f = g
                        /\ answer'.kind # "conflict"
                        /\ (answer'.kind = "list" /\ \A j \in ToSet(answer'.of.joins) : j.type = "left") =>
                             {key(f) : f \in answer'.rows} = answer'.keys
  BY DEF OneRowPerKey
<1> DEFINE key(f) == f[plan.base][plan.pk]
<1>0. plan # None
  BY DEF List, Preview, Lookup
<1>1. CASE List
  <2>1. PICK rel \in Relations(plan, data) : answer' = Answer("list", Rows(plan, rel))
    BY <1>1 DEF List
  <2>2. /\ answer'.kind = "list" /\ answer'.rows = Rows(plan, rel) /\ answer'.of = plan
        /\ (answer'.fresh <=> "read" \notin touched)
        /\ answer'.keys = {r[plan.pk] : r \in data[plan.base]}
    BY <2>1, AnswerIs
  <2> QED
    BY <1>0, <2>2, PlanSelects
<1>2. CASE Preview
  <2>0. PICK rel \in Relations(plan, data) : \E page \in SUBSET Rows(plan, rel) : answer' = Answer("preview", page)
    BY <1>2 DEF Preview
  <2>1. PICK page \in SUBSET Rows(plan, rel) : answer' = Answer("preview", page)
    BY <2>0
  <2>2. /\ answer'.kind = "preview" /\ answer'.rows = page /\ answer'.of = plan
        /\ (answer'.fresh <=> "read" \notin touched)
    BY <2>1, AnswerIs
  <2> QED
    BY <1>0, <2>2, PlanSelects
<1>3. CASE Lookup
  <2>1. PICK rel \in Relations(plan, data), k \in {r[plan.pk] : r \in data[plan.base]} \ {Null} :
          answer' = Answer(Verdict(Found(rel, k)), Found(rel, k))
    BY <1>3, LookupIs
  <2> DEFINE found == Found(rel, k)
  <2>2. found \subseteq Rows(plan, rel) /\ \A f \in found : key(f) = k
    BY DEF Found
  <2> HIDE DEF found
  <2>3. /\ answer'.kind = Verdict(found) /\ answer'.rows = found /\ answer'.of = plan
        /\ (answer'.fresh <=> "read" \notin touched)
    BY <2>1, AnswerIs DEF found
  <2>4. \A f, g \in Rows(plan, rel) : key(f) = key(g) /\ key(f) # Null => f = g
    BY <1>0, <2>3, PlanSelects
  <2>5. \A f, g \in found : f = g
    BY <2>2, <2>4
  <2>6. Verdict(found) # "conflict" /\ Verdict(found) # "list"
    BY <2>5, VerdictIs
  <2> QED
    BY <2>2, <2>3, <2>4, <2>6
<1> QED
  BY <1>1, <1>2, <1>3

LEMMA ReadStays == ASSUME ReadInv, [Next]_vars PROVE ReadInv'
<1>0. ModelInv'
  BY ModelStays DEF ReadInv
<1>1. ASSUME NEW p, Submit(p) PROVE ReadInv'
  <2>1. UNCHANGED <<data, plan, answer>> /\ ("read" \notin touched' => "read" \notin touched)
    BY <1>1 DEF Submit
  <2> QED
    BY <1>0, <2>1 DEF ReadInv, OneRowPerKey
<1>2. CASE Create \/ FromTemplate \/ Edit
  BY <1>1, <1>2 DEF Create, FromTemplate, Edit
<1>3. CASE Paste
  <2>1. UNCHANGED <<data, plan, answer, touched>>
    BY <1>3 DEF Paste
  <2> QED
    BY <1>0, <2>1 DEF ReadInv, OneRowPerKey
<1>4. CASE Insert
  <2>1. "read" \in touched' /\ answer' = answer
    BY <1>4 DEF Insert
  <2> QED
    BY <1>0, <2>1 DEF ReadInv, OneRowPerKey
<1>5. CASE Probe
  <2>1. IsMapping(SavedPayload)
    <3>1. PICK p : IsMapping(p) /\ stored = Saved(p)
      BY <1>5 DEF ReadInv, ModelInv, Probe
    <3> QED
      BY <3>1 DEF SavedPayload, Saved, IsMapping
  <2>2. plan' = Validate(SavedPayload, TRUE, data) /\ data' = data
    BY <1>5 DEF Probe
  <2>3. OneRowPerKey'
    BY <1>5 DEF Probe, OneRowPerKey
  <2> QED
    BY <1>0, <2>1, <2>2, <2>3 DEF ReadInv
<1>6. CASE List \/ Preview \/ Lookup
  <2>1. plan' = None
    BY <1>6 DEF List, Preview, Lookup
  <2> QED
    BY <1>0, <1>6, <2>1, ReadsApart DEF ReadInv
<1>7. CASE UNCHANGED vars
  BY <1>0, <1>7 DEF vars, ReadInv, OneRowPerKey
<1> QED
  BY <1>2, <1>3, <1>4, <1>5, <1>6, <1>7 DEF Next

\* Whatever was mapped, joined and inserted: a list, a page and a lookup see one row per key.
THEOREM OneRowPerKeyHolds == Spec => []OneRowPerKey
<1>1. Init => ReadInv
  BY ModelBegins DEF Init, ReadInv, OneRowPerKey
<1>2. ReadInv => OneRowPerKey
  BY DEF ReadInv
<1> QED
  BY <1>1, <1>2, ReadStays, PTL DEF Spec

(***************************************************************************)
(* The way through SQL.  The generator orders the joins by the names of    *)
(* their tables, the planner by the tables: where the names tell the       *)
(* tables apart and none is joined twice, the two go in step.              *)
(***************************************************************************)
Res(q, K) == [i \in DOMAIN q |-> Resolved(q[i], K)]

\* the names tell the known tables K apart, and the relationships E are over them
NamesTell(K, E) ==
  /\ \A t, u \in K : t.name = u.name => t = u
  /\ \A e \in E : e.right \in K /\ \E t \in K : t.name = e.left

LEMMA LeftIs ==
  ASSUME NEW K, NEW E, NamesTell(K, E), NEW e \in E
  PROVE  LeftOf(e, K) \in K /\ LeftOf(e, K).name = e.left
<1>1. \E t : t \in Lefts(e, K)
  BY DEF NamesTell, Lefts
<1>2. LeftOf(e, K) \in Lefts(e, K)
  BY <1>1 DEF LeftOf
<1> QED
  BY <1>2 DEF Lefts

LEMMA ResIs ==
  ASSUME NEW K, NEW E, NEW q \in Seq(E)
  PROVE  /\ Res(q, K) \in Seq({Resolved(e, K) : e \in E}) /\ DOMAIN Res(q, K) = DOMAIN q /\ Len(Res(q, K)) = Len(q)
         /\ \A i \in DOMAIN q : Res(q, K)[i] = Resolved(q[i], K)
<1> DEFINE n == Len(q)
           r == Res(q, K)
<1>1. n \in Nat /\ DOMAIN q = 1..n /\ \A i \in 1..n : q[i] \in E
  OBVIOUS
<1>2. r = [i \in 1..n |-> Resolved(q[i], K)]
  BY <1>1 DEF Res
<1> HIDE DEF n, r
<1>3. r \in Seq({Resolved(e, K) : e \in E}) /\ DOMAIN r = 1..n /\ Len(r) = n
  BY <1>1, <1>2
<1> QED
  BY <1>1, <1>2, <1>3 DEF n, r

LEMMA ResAppend ==
  ASSUME NEW K, NEW E, NEW q \in Seq(E), NEW e \in E
  PROVE  Res(Append(q, e), K) = Append(Res(q, K), Resolved(e, K))
<1> DEFINE n == Len(q)
           a == Append(q, e)
           r == Res(q, K)
           b == Append(r, Resolved(e, K))
           s == Res(a, K)
           J == {Resolved(f, K) : f \in E}
<1>1. /\ a \in Seq(E) /\ Len(a) = n + 1 /\ n \in Nat /\ DOMAIN q = 1..n /\ DOMAIN a = 1..(n + 1)
      /\ (\A i \in 1..n : a[i] = q[i]) /\ a[n + 1] = e
  BY AppendIs
<1>2. r \in Seq(J) /\ Len(r) = n /\ DOMAIN r = DOMAIN q /\ \A i \in DOMAIN q : r[i] = Resolved(q[i], K)
  BY ResIs
<1>3. s \in Seq(J) /\ Len(s) = Len(a) /\ \A i \in DOMAIN a : s[i] = Resolved(a[i], K)
  <2>1. a \in Seq(E)
    BY <1>1
  <2> HIDE DEF a
  <2> QED
    BY <2>1, ResIs
<1>4. Resolved(e, K) \in J
  OBVIOUS
<1> HIDE DEF n, a, r, s, J
<1>5. b \in Seq(J) /\ Len(b) = n + 1 /\ (\A i \in 1..n : b[i] = r[i]) /\ b[n + 1] = Resolved(e, K)
  <2>1. Len(r) = n /\ r \in Seq(J)
    BY <1>2
  <2> QED
    BY <2>1, <1>4, AppendIs
<1> HIDE DEF b
<1>6. \A i \in 1..(n + 1) : s[i] = b[i]
  <2>1. \A i \in 1..(n + 1) : i = n + 1 \/ i \in 1..n
    BY <1>1
  <2> QED
    BY <1>1, <1>2, <1>3, <1>5, <2>1
<1>7. s = b
  BY <1>1, <1>3, <1>5, <1>6
<1> QED
  BY <1>7 DEF s, b, r, a

FollowState(K, E) == [present : SUBSET {x.name : x \in K}, chain : Seq(E), still : Seq(E)]

\* the planner and the generator are at the same point
InStep(base, K, E, s, t) ==
  /\ s \in PlanState(base, {Resolved(e, K) : e \in E}) /\ t \in FollowState(K, E)
  /\ s.added \subseteq K /\ t.present = {x.name : x \in s.added}
  /\ s.joins = Res(t.chain, K) /\ s.still = Res(t.still, K)

LEMMA FollowIs ==
  ASSUME NEW K, NEW E, NEW t \in FollowState(K, E), NEW e \in E, e.right \in K, NEW n, n = Follow(t, e)
  PROVE  /\ n \in FollowState(K, E)
         /\ e.left \in t.present =>
              n.present = t.present \cup {e.right.name} /\ n.chain = Append(t.chain, e) /\ n.still = t.still
         /\ e.left \notin t.present =>
              n.present = t.present /\ n.chain = t.chain /\ n.still = Append(t.still, e)
<1>1. Append(t.chain, e) \in Seq(E) /\ Append(t.still, e) \in Seq(E)
  BY DEF FollowState
<1>2. t.present \cup {e.right.name} \in SUBSET {x.name : x \in K}
  BY DEF FollowState
<1>3. CASE e.left \in t.present
  BY <1>1, <1>2, <1>3 DEF Follow, FollowState
<1>4. CASE e.left \notin t.present
  BY <1>1, <1>4 DEF Follow, FollowState
<1> QED
  BY <1>3, <1>4

\* a relationship waits, or is in order: what the step of both does with it
Handled(s, t, e, s2, t2) ==
  \/ s2.added = s.added /\ t2.still = Append(t.still, e)
  \/ s2.added = s.added \cup {e.right} /\ t2.still = t.still

LEMMA StepInStep ==
  ASSUME NEW base, NEW K, NEW E, NamesTell(K, E), NEW s, NEW t, InStep(base, K, E, s, t),
         NEW e \in E, e.right \notin s.added,
         NEW s2, s2 = Meet(s, Resolved(e, K)), NEW t2, t2 = Follow(t, e)
  PROVE  InStep(base, K, E, s2, t2) /\ Handled(s, t, e, s2, t2)
<1> DEFINE J == {Resolved(f, K) : f \in E}
           j == Resolved(e, K)
<1>10. s2 = Meet(s, j) /\ t2 = Follow(t, e)
  OBVIOUS
<1>1. j \in J /\ j.left = LeftOf(e, K) /\ j.right = e.right
  BY DEF Resolved
<1>2. /\ s \in PlanState(base, J) /\ t \in FollowState(K, E)
      /\ s.added \subseteq K /\ t.present = {x.name : x \in s.added}
      /\ s.joins = Res(t.chain, K) /\ s.still = Res(t.still, K)
      /\ t.chain \in Seq(E) /\ t.still \in Seq(E)
  BY DEF InStep, FollowState
<1>3. e.right \in K
  BY DEF NamesTell
<1>4. j.left \in s.added <=> e.left \in t.present
  BY <1>1, <1>2, LeftIs DEF NamesTell
<1> HIDE DEF J, j
<1>5. /\ s2 \in PlanState(base, J)
      /\ j.left \notin s.added => s2.added = s.added /\ s2.joins = s.joins /\ s2.still = Append(s.still, j)
      /\ j.left \in s.added => /\ s2.added = s.added \cup {j.right} /\ s2.joins = Append(s.joins, j)
                               /\ s2.still = s.still
  BY <1>1, <1>2, <1>10, MeetIs
<1>6. /\ t2 \in FollowState(K, E)
      /\ e.left \in t.present =>
           t2.present = t.present \cup {e.right.name} /\ t2.chain = Append(t.chain, e) /\ t2.still = t.still
      /\ e.left \notin t.present =>
           t2.present = t.present /\ t2.chain = t.chain /\ t2.still = Append(t.still, e)
  <2>1. t \in FollowState(K, E) /\ e \in E /\ e.right \in K /\ t2 = Follow(t, e)
    BY <1>2, <1>3, <1>10
  <2> QED
    BY ONLY <2>1, FollowIs
<1>7. /\ Append(s.joins, j) = Res(Append(t.chain, e), K)
      /\ Append(s.still, j) = Res(Append(t.still, e), K)
  BY <1>2, ResAppend DEF j
<1>8. CASE e.left \in t.present
  <2>1. s2.added = s.added \cup {e.right} /\ s2.added \subseteq K
    BY <1>1, <1>2, <1>3, <1>4, <1>5, <1>8
  <2>2. t2.present = {x.name : x \in s2.added}
    BY <1>2, <1>6, <1>8, <2>1
  <2>3. s2.joins = Res(t2.chain, K) /\ s2.still = Res(t2.still, K)
    BY <1>2, <1>4, <1>5, <1>6, <1>7, <1>8
  <2> QED
    BY <1>5, <1>6, <1>8, <2>1, <2>2, <2>3 DEF InStep, Handled, J
<1>9. CASE e.left \notin t.present
  <2>1. s2.joins = Res(t2.chain, K) /\ s2.still = Res(t2.still, K)
    BY <1>2, <1>4, <1>5, <1>6, <1>7, <1>9
  <2> QED
    BY <1>2, <1>4, <1>5, <1>6, <1>9, <2>1 DEF InStep, Handled, J
<1> QED
  BY <1>8, <1>9

\* no two of the relationships q join one table, and none joins a table of those in order
Once(q, added) ==
  /\ \A i, h \in DOMAIN q : q[i].right = q[h].right => i = h
  /\ \A i \in DOMAIN q : q[i].right \notin added

LEMMA OnceAppend ==
  ASSUME NEW E, NEW q \in Seq(E), NEW e \in E, NEW added, Once(q, added), e.right \notin added,
         \A h \in DOMAIN q : q[h].right # e.right
  PROVE  Once(Append(q, e), added)
<1> DEFINE a == Append(q, e)
           n == Len(q)
<1>1. /\ n \in Nat /\ DOMAIN q = 1..n /\ DOMAIN a = 1..(n + 1)
      /\ (\A i \in 1..n : a[i] = q[i]) /\ a[n + 1] = e
  BY AppendIs
<1> HIDE DEF n, a
<1>2. \A i \in 1..(n + 1) : i = n + 1 \/ i \in 1..n
  BY <1>1
<1>3. \A i \in DOMAIN a : a[i].right \notin added
  BY <1>1, <1>2 DEF Once
<1>4. \A i, h \in DOMAIN a : a[i].right = a[h].right => i = h
  BY <1>1, <1>2 DEF Once
<1> QED
  BY <1>3, <1>4 DEF Once, a

\* one pass of both over the relationships q, at the i-th: c has the planner's states
FollowHolds(c, i, t) ==
  LET added == c.s[i].added
  IN  /\ InStep(c.base, c.K, c.E, c.s[i], t)
      /\ Once(t.still, added)
      /\ \A k \in (i + 1)..Len(c.q) : c.q[k].right \notin added /\ \A h \in DOMAIN t.still : t.still[h].right # c.q[k].right

Following == INSTANCE LeftFold WITH Op <- Follow, Holds <- FollowHolds

LEMMA FoldOfFollow == ASSUME NEW b, NEW q PROVE FoldLeft(Follow, b, q) = Following!Folded(b, q)
  BY DEF Following!Folded, FoldLeft, Following!FoldLeft, MapThenFoldSet, Following!MapThenFoldSet, Max, Following!Max

LEMMA FollowHoldsOn ==
  ASSUME NEW c, NamesTell(c.K, c.E), c.q \in Seq(c.E), Once(c.q, {}), NEW i \in 1..Len(c.q),
         c.s[i] = Meet(c.s[i - 1], Resolved(c.q[i], c.K)), NEW t, FollowHolds(c, i - 1, t)
  PROVE  FollowHolds(c, i, Follow(t, c.q[i]))
<1> DEFINE q == c.q
           e == q[i]
           added == c.s[i - 1].added
           t2 == Follow(t, e)
           added2 == c.s[i].added
<1>1. /\ InStep(c.base, c.K, c.E, c.s[i - 1], t) /\ Once(t.still, added)
      /\ \A k \in i..Len(q) : q[k].right \notin added /\ \A h \in DOMAIN t.still : t.still[h].right # q[k].right
  <2>1. (i - 1) + 1 = i
    OBVIOUS
  <2> QED
    BY <2>1 DEF FollowHolds
<1>2. e \in c.E /\ i \in i..Len(q) /\ i \in DOMAIN q /\ t.still \in Seq(c.E)
  BY <1>1 DEF InStep, FollowState
<1>3. e.right \notin added /\ \A h \in DOMAIN t.still : t.still[h].right # e.right
  BY <1>1, <1>2
<1>4. \A k \in (i + 1)..Len(q) : k \in i..Len(q) /\ k # i /\ q[k].right # e.right
  <2>1. \A k \in (i + 1)..Len(q) : k \in i..Len(q) /\ k # i /\ k \in DOMAIN q
    BY <1>2
  <2> QED
    BY <1>2, <2>1 DEF Once
<1>8. c.s[i] = Meet(c.s[i - 1], Resolved(e, c.K)) /\ NamesTell(c.K, c.E)
  OBVIOUS
<1> HIDE DEF q, e
<1>5. /\ InStep(c.base, c.K, c.E, c.s[i], t2)
      /\ \/ added2 = added /\ t2.still = Append(t.still, e)
         \/ added2 = added \cup {e.right} /\ t2.still = t.still
  <2> DEFINE s == c.s[i - 1]
             s2 == c.s[i]
  <2>1. /\ NamesTell(c.K, c.E) /\ InStep(c.base, c.K, c.E, s, t) /\ e \in c.E /\ e.right \notin s.added
        /\ s2 = Meet(s, Resolved(e, c.K)) /\ t2 = Follow(t, e)
    BY <1>1, <1>2, <1>3, <1>8
  <2> HIDE DEF s, s2, t2
  <2>2. InStep(c.base, c.K, c.E, s2, t2) /\ Handled(s, t, e, s2, t2)
    BY ONLY <2>1, StepInStep
  <2> QED
    BY <2>2 DEF Handled, s, s2
<1> HIDE DEF added, t2, added2
<1>6. CASE added2 = added /\ t2.still = Append(t.still, e)
  <2>1. Once(t2.still, added2)
    BY <1>1, <1>2, <1>3, <1>6, OnceAppend
  <2>2. \A h \in DOMAIN t2.still : t2.still[h] = e \/ \E g \in DOMAIN t.still : t2.still[h] = t.still[g]
    <3> DEFINE r == t.still
               a == Append(r, e)
               n == Len(r)
    <3>1. r \in Seq(c.E)
      BY <1>2
    <3> HIDE DEF r
    <3>2. /\ n \in Nat /\ DOMAIN r = 1..n /\ DOMAIN a = 1..(n + 1)
          /\ (\A g \in 1..n : a[g] = r[g]) /\ a[n + 1] = e
      BY <1>2, <3>1, AppendIs
    <3> HIDE DEF a, n
    <3>3. \A h \in DOMAIN a : a[h] = e \/ \E g \in DOMAIN r : a[h] = r[g]
      BY <3>2
    <3> QED
      BY <1>6, <3>3 DEF a, r
  <2>3. \A k \in (i + 1)..Len(q) : /\ q[k].right \notin added2
                                   /\ \A h \in DOMAIN t2.still : t2.still[h].right # q[k].right
    BY <1>1, <1>4, <1>6, <2>2
  <2> QED
    BY <1>5, <2>1, <2>3 DEF FollowHolds, added2, t2, q, e
<1>7. CASE added2 = added \cup {e.right} /\ t2.still = t.still
  <2>1. Once(t2.still, added2)
    BY <1>1, <1>3, <1>7 DEF Once
  <2>2. \A k \in (i + 1)..Len(q) : /\ q[k].right \notin added2
                                   /\ \A h \in DOMAIN t2.still : t2.still[h].right # q[k].right
    BY <1>1, <1>4, <1>7
  <2> QED
    BY <1>5, <2>1, <2>2 DEF FollowHolds, added2, t2, q, e
<1> QED
  BY <1>5, <1>6, <1>7

\* A pass of the planner over what waits and one of the generator end in step.
LEMMA PassInStep ==
  ASSUME NEW base, NEW K, NEW E, NamesTell(K, E), NEW s, NEW t, InStep(base, K, E, s, t), Once(t.still, s.added),
         NEW turn, NEW turn2
  PROVE  InStep(base, K, E, Pass(s, turn), FollowAll(t, turn2)) /\ Once(FollowAll(t, turn2).still, Pass(s, turn).added)
<1> DEFINE q == t.still
           r == s.still
           n == Len(q)
           s0 == [s EXCEPT !.still = <<>>]
           t0 == [t EXCEPT !.still = <<>>]
           J == {Resolved(e, K) : e \in E}
<1>1. /\ q \in Seq(E) /\ n \in Nat /\ DOMAIN q = 1..n /\ r = Res(q, K)
      /\ DOMAIN r = 1..n /\ \A i \in 1..n : r[i] = Resolved(q[i], K)
  <2>1. q \in Seq(E) /\ r = Res(q, K)
    BY DEF InStep, FollowState
  <2> HIDE DEF q, r
  <2>2. n \in Nat /\ DOMAIN q = 1..n
    BY <2>1
  <2>3. DOMAIN Res(q, K) = DOMAIN q /\ \A i \in DOMAIN q : Res(q, K)[i] = Resolved(q[i], K)
    BY <2>1, ResIs
  <2> QED
    BY <2>1, <2>2, <2>3
<1>2. /\ s0.added = s.added /\ s0.joins = s.joins /\ s0.still = <<>> /\ s0 \in PlanState(base, J)
      /\ t0.present = t.present /\ t0.chain = t.chain /\ t0.still = <<>> /\ t0 \in FollowState(K, E)
  <2>1. <<>> \in Seq(J) /\ <<>> \in Seq(E)
    OBVIOUS
  <2>2. s \in PlanState(base, J) /\ t \in FollowState(K, E)
    BY DEF InStep
  <2> HIDE DEF J
  <2> QED
    BY <2>1, <2>2 DEF PlanState, FollowState
<1>0. PICK hs : Meeting!Run(hs, s0, r, n)
  <2>1. DOMAIN r = 1..n /\ n \in Nat
    BY <1>1
  <2> HIDE DEF r, n, s0
  <2> QED
    BY <2>1, Meeting!FoldSteps
<1>3. /\ hs[0] = s0
      /\ \A i \in 1..n : hs[i] = Meet(hs[i - 1], r[i])
      /\ Meeting!Folded(s0, r) = hs[n]
  <2> HIDE DEF r, n, s0
  <2> QED
    BY <1>0 DEF Meeting!Run
<1> DEFINE c == [base |-> base, K |-> K, E |-> E, q |-> q, s |-> hs]
<1>4. c.base = base /\ c.K = K /\ c.E = E /\ c.q = q /\ c.s = hs
  OBVIOUS
<1>5. Pass(s, turn) = hs[n]
  BY <1>3, FoldOfMeet DEF Pass
<1>6. FollowAll(t, turn2) = Following!Folded(t0, q)
  BY FoldOfFollow DEF FollowAll
<1>7. Once(q, s.added) /\ Once(q, {})
  BY DEF Once
<1>8. InStep(base, K, E, s, t)
  OBVIOUS
<1>9. \A k \in 1..n : q[k].right \notin s.added
  BY <1>1, <1>7 DEF Once
<1> HIDE DEF q, r, n, s0, t0, c, J
<1>10. FollowHolds(c, 0, t0)
  <2>1. Res(<<>>, K) = <<>>
    BY DEF Res
  <2>2. InStep(base, K, E, s0, t0)
    BY <1>2, <1>8, <2>1 DEF InStep, J
  <2>3. Once(t0.still, s0.added) /\ DOMAIN t0.still = {}
    BY <1>2, EmptySet DEF Once
  <2>4. 0 + 1 = 1 /\ Len(q) = n
    BY DEF n
  <2> QED
    BY <1>2, <1>3, <1>4, <1>9, <2>2, <2>3, <2>4 DEF FollowHolds
<1>11. ASSUME NEW i \in 1..n, NEW x, FollowHolds(c, i - 1, x) PROVE FollowHolds(c, i, Follow(x, q[i]))
  <2>1. /\ NamesTell(c.K, c.E) /\ c.q \in Seq(c.E) /\ Once(c.q, {}) /\ i \in 1..Len(c.q)
        /\ c.s[i] = Meet(c.s[i - 1], Resolved(c.q[i], c.K))
    BY <1>1, <1>3, <1>4, <1>7 DEF n
  <2>2. FollowHolds(c, i, Follow(x, c.q[i]))
    BY <1>11, <2>1, FollowHoldsOn
  <2> QED
    BY <1>4, <2>2
<1>12. FollowHolds(c, n, Following!Folded(t0, q))
  BY <1>1, <1>10, <1>11, Following!FoldInduction
<1> QED
  BY <1>4, <1>5, <1>6, <1>12 DEF FollowHolds

\* after i passes of both: c has the planner's states
FollowAllHolds(c, i, t) == InStep(c.base, c.K, c.E, c.s[i], t) /\ Once(t.still, c.s[i].added)

FollowingAll == INSTANCE LeftFold WITH Op <- FollowAll, Holds <- FollowAllHolds

LEMMA FoldOfFollowAll == ASSUME NEW b, NEW q PROVE FoldLeft(FollowAll, b, q) = FollowingAll!Folded(b, q)
  BY DEF FollowingAll!Folded, FoldLeft, FollowingAll!FoldLeft, MapThenFoldSet, FollowingAll!MapThenFoldSet, Max, FollowingAll!Max

\* The joins the generator writes are those the planner puts in order, as names.
LEMMA ChainIs ==
  ASSUME NEW base, NEW K, base \in K, NEW rels, ListOfJoins(rels), NamesTell(K, ToSet(rels)), Once(rels, {base}),
         NEW o, o = Order(base, Res(rels, K)), o.still = <<>>
  PROVE  Chain(base, rels) \in Seq(ToSet(rels)) /\ Res(Chain(base, rels), K) = o.joins
<1> DEFINE E == ToSet(rels)
           n == Len(rels)
           J == {Resolved(e, K) : e \in E}
           r == Res(rels, K)
           s0 == Unordered(base, r)
           t0 == [present |-> {base.name}, chain |-> <<>>, still |-> rels]
           end == FoldLeft(FollowAll, t0, rels)
<1>1. rels \in Seq(E) /\ n \in Nat /\ DOMAIN rels = 1..n /\ r \in Seq(J) /\ DOMAIN r = 1..n
  <2>1. rels \in Seq(E)
    BY DEF ListOfJoins
  <2> HIDE DEF E
  <2> QED
    BY <2>1, ResIs
<1>2. /\ s0.added = {base} /\ s0.joins = <<>> /\ s0.still = r /\ s0 \in PlanState(base, J)
      /\ t0.present = {base.name} /\ t0.chain = <<>> /\ t0.still = rels /\ t0 \in FollowState(K, E)
  <2>1. <<>> \in Seq(J) /\ <<>> \in Seq(E)
    OBVIOUS
  <2> HIDE DEF J, E, r
  <2> QED
    BY <1>1, <2>1 DEF Unordered, PlanState, FollowState
<1>0. PICK hs : Passing!Run(hs, s0, r, n)
  <2>1. DOMAIN r = 1..n /\ n \in Nat
    BY <1>1
  <2> HIDE DEF r, n, s0
  <2> QED
    BY <2>1, Passing!FoldSteps
<1>3. /\ hs[0] = s0
      /\ \A i \in 1..n : hs[i] = Pass(hs[i - 1], r[i])
      /\ Passing!Folded(s0, r) = hs[n]
  <2> HIDE DEF r, n, s0
  <2> QED
    BY <1>0 DEF Passing!Run
<1> DEFINE c == [base |-> base, K |-> K, E |-> E, s |-> hs]
<1>4. c.base = base /\ c.K = K /\ c.E = E /\ c.s = hs
  OBVIOUS
<1>5. o = hs[n]
  BY <1>3, FoldOfPass DEF Order
<1>6. end = FollowingAll!Folded(t0, rels)
  BY FoldOfFollowAll
<1>7. NamesTell(K, E) /\ Once(rels, {base}) /\ base \in K
  OBVIOUS
<1>8. Chain(base, rels) = end.chain \o end.still
  BY DEF Chain
<1> HIDE DEF r, n, s0, t0, c, J, E, end
<1>9. FollowAllHolds(c, 0, t0)
  <2>1. Res(<<>>, K) = <<>>
    BY DEF Res
  <2>2. InStep(base, K, E, s0, t0)
    <3>1. s0.joins = Res(t0.chain, K) /\ s0.still = Res(t0.still, K)
      BY <1>2, <2>1 DEF r
    <3>2. s0.added \subseteq K /\ t0.present = {x.name : x \in s0.added}
      BY <1>2, <1>7
    <3> QED
      BY <1>2, <3>1, <3>2 DEF InStep, J
  <2> QED
    BY <1>2, <1>3, <1>4, <1>7, <2>2 DEF FollowAllHolds
<1>10. ASSUME NEW i \in 1..n, NEW x, FollowAllHolds(c, i - 1, x) PROVE FollowAllHolds(c, i, FollowAll(x, rels[i]))
  <2>1. InStep(base, K, E, hs[i - 1], x) /\ Once(x.still, hs[i - 1].added)
    BY <1>4, <1>10 DEF FollowAllHolds
  <2>2. hs[i] = Pass(hs[i - 1], r[i])
    BY <1>3
  <2>3. InStep(base, K, E, hs[i], FollowAll(x, rels[i])) /\ Once(FollowAll(x, rels[i]).still, hs[i].added)
    BY <1>7, <2>1, <2>2, PassInStep
  <2> QED
    BY <1>4, <2>3 DEF FollowAllHolds
<1>11. FollowAllHolds(c, n, FollowingAll!Folded(t0, rels))
  BY <1>1, <1>9, <1>10, FollowingAll!FoldInduction
<1>12. InStep(base, K, E, o, end)
  BY <1>4, <1>5, <1>6, <1>11 DEF FollowAllHolds
<1>13. end.chain \in Seq(E) /\ end.still \in Seq(E) /\ o.joins = Res(end.chain, K) /\ o.still = Res(end.still, K)
  BY <1>12 DEF InStep, FollowState
<1>14. end.still = <<>>
  <2> DEFINE q == end.still
  <2>1. q \in Seq(E) /\ Res(q, K) = <<>>
    BY <1>13
  <2> HIDE DEF q
  <2>2. DOMAIN q = {}
    <3>1. DOMAIN Res(q, K) = DOMAIN q
      BY DEF Res
    <3> QED
      BY <2>1, <3>1, EmptySet
  <2>3. q = <<>>
    BY <2>1, <2>2
  <2> QED
    BY <2>3 DEF q
<1>15. Chain(base, rels) = end.chain
  <2> DEFINE q == end.chain
  <2>1. q \in Seq(E)
    BY <1>13
  <2> HIDE DEF q
  <2>2. q \o <<>> = q
    BY <2>1
  <2> QED
    BY <1>8, <1>14, <2>2 DEF q
<1> QED
  BY <1>13, <1>15 DEF E

\* joins that are in order already, after i of them
KeepHolds(c, i, s) ==
  /\ s \in PlanState(c.base, c.J) /\ s.still = <<>>
  /\ s.added = {c.base} \cup {c.q[h].right : h \in 1..i}
  /\ Len(s.joins) = i /\ \A h \in 1..i : s.joins[h] = c.q[h]

Keeping == INSTANCE LeftFold WITH Op <- Meet, Holds <- KeepHolds

LEMMA FoldKeeping == ASSUME NEW b, NEW q PROVE FoldLeft(Meet, b, q) = Keeping!Folded(b, q)
  BY DEF Keeping!Folded, FoldLeft, Keeping!FoldLeft, MapThenFoldSet, Keeping!MapThenFoldSet, Max, Keeping!Max

LEMMA KeepHoldsOn ==
  ASSUME NEW c, c.q \in Seq(c.J), WellOrdered(c.base, c.q), NEW i \in 1..Len(c.q), NEW s, KeepHolds(c, i - 1, s)
  PROVE  KeepHolds(c, i, Meet(s, c.q[i]))
<1> DEFINE base == c.base
           J == c.J
           q == c.q
           j == q[i]
           r == s.joins
<1> SUFFICES ASSUME NEW n, n = Meet(s, j) PROVE KeepHolds(c, i, n)
  OBVIOUS
<1>1. /\ s \in PlanState(base, J) /\ s.still = <<>> /\ s.added = {base} \cup {q[h].right : h \in 1..(i - 1)}
      /\ Len(r) = i - 1 /\ \A h \in 1..(i - 1) : r[h] = q[h]
  BY DEF KeepHolds
<1>2. j \in J /\ i \in DOMAIN q /\ i - 1 \in Nat /\ i = (i - 1) + 1 /\ r \in Seq(J)
  BY <1>1 DEF PlanState
<1>3. j.left \in s.added /\ j.right \notin s.added
  BY <1>1, <1>2 DEF WellOrdered
<1>4. n = Meet(s, j)
  OBVIOUS
<1> HIDE DEF base, J, q, j, r
<1>5. /\ n \in PlanState(base, J)
      /\ n.added = s.added \cup {j.right} /\ n.joins = Append(s.joins, j) /\ n.still = s.still
  <2>1. s \in PlanState(base, J) /\ j \in J /\ n = Meet(s, j)
    BY <1>1, <1>2, <1>4
  <2>2. /\ n \in PlanState(base, J)
        /\ j.left \in s.added /\ j.right \notin s.added =>
             /\ n.added = s.added \cup {j.right} /\ n.joins = Append(s.joins, j)
             /\ n.still = s.still /\ n.conflict = s.conflict
    BY ONLY <2>1, MeetIs
  <2> QED
    BY <1>3, <2>2
<1>6. Len(Append(r, j)) = i /\ (\A h \in 1..(i - 1) : Append(r, j)[h] = r[h]) /\ Append(r, j)[i] = j
  <2>1. Len(r) = i - 1 /\ Len(r) + 1 = i
    BY <1>1, <1>2
  <2> QED
    BY <1>2, <2>1, AppendIs
<1>7. \A h \in 1..i : h \in 1..(i - 1) \/ h = i
  BY <1>2
<1>8. n.added = {base} \cup {q[h].right : h \in 1..i}
  <2>1. j.right \in {q[h].right : h \in 1..i} /\ 1..(i - 1) \subseteq 1..i
    BY <1>2 DEF j
  <2>2. {q[h].right : h \in 1..i} = {q[h].right : h \in 1..(i - 1)} \cup {j.right}
    BY <1>7, <2>1 DEF j
  <2> QED
    BY <1>1, <1>5, <2>2
<1>9. n.joins = Append(r, j) /\ \A h \in 1..i : Append(r, j)[h] = q[h]
  BY <1>1, <1>5, <1>6, <1>7 DEF r, j
<1> QED
  BY <1>1, <1>5, <1>6, <1>8, <1>9 DEF KeepHolds, base, J, q

\* one pass puts all of them in order, and the passes that follow have nothing to do
KeepAllHolds(c, i, s) ==
  /\ i = 0 => s = c.start
  /\ i # 0 => s \in PlanState(c.base, c.J) /\ s.joins = c.q /\ s.still = <<>>

KeepingAll == INSTANCE LeftFold WITH Op <- Pass, Holds <- KeepAllHolds

LEMMA FoldKeepingAll == ASSUME NEW b, NEW q PROVE FoldLeft(Pass, b, q) = KeepingAll!Folded(b, q)
  BY DEF KeepingAll!Folded, FoldLeft, KeepingAll!FoldLeft, MapThenFoldSet, KeepingAll!MapThenFoldSet, Max, KeepingAll!Max

LEMMA FirstPass ==
  ASSUME NEW base, NEW J, NEW q \in Seq(J), WellOrdered(base, q), NEW turn,
         NEW s, s = Pass(Unordered(base, q), turn)
  PROVE  s \in PlanState(base, J) /\ s.joins = q /\ s.still = <<>>
<1> DEFINE n == Len(q)
           start == Unordered(base, q)
           s0 == [start EXCEPT !.still = <<>>]
           c == [base |-> base, J |-> J, q |-> q]
<1>1. q \in Seq(J) /\ n \in Nat /\ DOMAIN q = 1..n
  OBVIOUS
<1>2. s0.added = {base} /\ s0.joins = <<>> /\ s0.still = <<>> /\ s0 \in PlanState(base, J) /\ start.still = q
  <2>1. <<>> \in Seq(J)
    OBVIOUS
  <2> QED
    BY <1>1, <2>1 DEF Unordered, PlanState
<1>3. c.base = base /\ c.J = J /\ c.q = q
  OBVIOUS
<1>4. s = FoldLeft(Meet, s0, q)
  BY <1>2 DEF Pass
<1> HIDE DEF n, start, s0, c
<1>5. KeepHolds(c, 0, s0)
  <2>1. 1..0 = {} /\ Len(s0.joins) = 0
    BY <1>2
  <2> QED
    BY <1>2, <1>3, <2>1 DEF KeepHolds
<1>6. ASSUME NEW i \in 1..n, NEW x, KeepHolds(c, i - 1, x) PROVE KeepHolds(c, i, Meet(x, q[i]))
  <2>1. c.q \in Seq(c.J) /\ WellOrdered(c.base, c.q) /\ i \in 1..Len(c.q)
    BY <1>3 DEF n
  <2>2. KeepHolds(c, i, Meet(x, c.q[i]))
    BY <1>6, <2>1, KeepHoldsOn
  <2> QED
    BY <1>3, <2>2
<1>7. KeepHolds(c, n, Keeping!Folded(s0, q))
  BY <1>1, <1>5, <1>6, Keeping!FoldInduction
<1>8. KeepHolds(c, n, s)
  BY <1>4, <1>7, FoldKeeping
<1>9. /\ s \in PlanState(base, J) /\ s.still = <<>> /\ s.joins \in Seq(J)
      /\ Len(s.joins) = n /\ \A h \in 1..n : s.joins[h] = q[h]
  BY <1>3, <1>8 DEF KeepHolds, PlanState
<1>10. s.joins = q
  <2> DEFINE r == s.joins
  <2>1. r \in Seq(J) /\ Len(r) = Len(q) /\ \A h \in 1..Len(q) : r[h] = q[h]
    BY <1>9 DEF n
  <2> HIDE DEF r
  <2>2. r = q
    BY <2>1
  <2> QED
    BY <2>2 DEF r
<1> QED
  BY <1>9, <1>10

LEMMA NoPass ==
  ASSUME NEW base, NEW J, NEW s \in PlanState(base, J), s.still = <<>>, NEW turn
  PROVE  Pass(s, turn) = s
<1>1. [s EXCEPT !.still = <<>>] = s
  BY DEF PlanState
<1>2. Pass(s, turn) = FoldLeft(Meet, s, <<>>)
  BY <1>1 DEF Pass
<1>3. DOMAIN <<>> = 1..0 /\ 0 \in Nat
  OBVIOUS
<1>4. Keeping!Folded(s, <<>>) = s
  BY <1>3, Keeping!FoldSteps DEF Keeping!Run
<1> QED
  BY <1>2, <1>4, FoldKeeping

\* Joins that are in order stay as they are.
LEMMA OrderKeeps ==
  ASSUME NEW base, NEW J, NEW q \in Seq(J), WellOrdered(base, q)
  PROVE  Order(base, q).joins = q
<1> DEFINE n == Len(q)
           start == Unordered(base, q)
           c == [base |-> base, J |-> J, q |-> q, start |-> start]
<1>1. q \in Seq(J) /\ n \in Nat /\ DOMAIN q = 1..n
  OBVIOUS
<1>2. start.joins = <<>>
  BY DEF Unordered
<1>3. c.base = base /\ c.J = J /\ c.q = q /\ c.start = start
  OBVIOUS
<1>4. Order(base, q) = KeepingAll!Folded(start, q)
  BY FoldKeepingAll DEF Order
<1>5. \A s, turn : s = Pass(start, turn) => s \in PlanState(base, J) /\ s.joins = q /\ s.still = <<>>
  BY FirstPass
<1> HIDE DEF n, start, c
<1>6. KeepAllHolds(c, 0, start)
  BY <1>3 DEF KeepAllHolds
<1>7. ASSUME NEW i \in 1..n, NEW x, KeepAllHolds(c, i - 1, x) PROVE KeepAllHolds(c, i, Pass(x, q[i]))
  <2>0. i # 0 /\ (i = 1 => i - 1 = 0) /\ (i # 1 => i - 1 # 0)
    BY <1>1
  <2>1. CASE i = 1
    BY <1>3, <1>5, <1>7, <2>0, <2>1 DEF KeepAllHolds
  <2>2. CASE i # 1
    BY <1>3, <1>7, <2>0, <2>2, NoPass DEF KeepAllHolds
  <2> QED
    BY <2>1, <2>2
<1>8. KeepAllHolds(c, n, Order(base, q))
  BY <1>1, <1>4, <1>6, <1>7, KeepingAll!FoldInduction
<1>9. CASE n = 0
  BY <1>1, <1>2, <1>3, <1>8, <1>9 DEF KeepAllHolds, n
<1>10. CASE n # 0
  BY <1>3, <1>8, <1>10 DEF KeepAllHolds
<1> QED
  BY <1>9, <1>10

\* what a relationship is after the way through SQL
Bare(e) == [type |-> e.type, left |-> e.left, lc |-> e.lc, right |-> e.right, rc |-> e.rc, fanout |-> FALSE]

Before(base, chain, i) == {base} \cup {chain[h].right : h \in 1..(i - 1)}

\* the text s of the joins in chain, which are in order over base
Written(base, chain, s) ==
  /\ s.from = base /\ s.alias = base.name /\ s.joins = [i \in DOMAIN chain |-> AsJoin(chain[i])]

InLine(base, K, E, chain) ==
  /\ base \in K /\ NamesTell(K, E) /\ chain \in Seq(E) /\ WellOrdered(base, Res(chain, K))
  /\ \A e \in E : e.type \in {"left", "inner"} /\ e.right.schema \in AllowedSchemas

LEMMA AsJoinIs ==
  ASSUME NEW e
  PROVE  /\ AsJoin(e).table = e.right /\ AsJoin(e).alias = e.right.name
         /\ AsJoin(e).on = {<<e.left, e.lc>>, <<e.right.name, e.rc>>}
         /\ AsJoin(e).side = IF e.type = "left" THEN "LEFT" ELSE "INNER"
  BY DEF AsJoin

LEMMA WrittenIs ==
  ASSUME NEW base, NEW K, NEW E, NEW chain, InLine(base, K, E, chain), NEW s, Written(base, chain, s)
  PROVE  /\ DOMAIN chain = 1..Len(chain) /\ Len(chain) \in Nat /\ DOMAIN s.joins = 1..Len(chain) /\ Len(s.joins) = Len(chain)
         /\ \A i \in 1..Len(chain) : /\ chain[i] \in E /\ chain[i].right \in K
                                     /\ s.joins[i] = AsJoin(chain[i])
                                     /\ s.joins[i].alias = chain[i].right.name /\ s.joins[i].table = chain[i].right
<1> DEFINE n == Len(chain)
           r == s.joins
<1>1. n \in Nat /\ DOMAIN chain = 1..n /\ \A i \in 1..n : chain[i] \in E
  BY DEF InLine
<1>2. r = [i \in 1..n |-> AsJoin(chain[i])]
  BY <1>1 DEF Written
<1> HIDE DEF n, r
<1>3. DOMAIN r = 1..n /\ Len(r) = n /\ \A i \in 1..n : r[i] = AsJoin(chain[i])
  BY <1>1, <1>2
<1>4. \A i \in 1..n : chain[i].right \in K
  BY <1>1 DEF InLine, NamesTell
<1> QED
  BY <1>1, <1>3, <1>4, AsJoinIs DEF n, r

LEMMA AliasesAre ==
  ASSUME NEW base, NEW K, NEW E, NEW chain, InLine(base, K, E, chain), NEW s, Written(base, chain, s),
         NEW i \in 1..(Len(chain) + 1)
  PROVE  Aliases(s, i) = {x.name : x \in Before(base, chain, i)} /\ Before(base, chain, i) \subseteq K
<1>1. \A h \in 1..(i - 1) : s.joins[h].alias = chain[h].right.name /\ chain[h].right \in K
  <2>1. Len(chain) \in Nat /\ \A h \in 1..(i - 1) : h \in 1..Len(chain)
    BY WrittenIs
  <2> QED
    BY <2>1, WrittenIs
<1>2. s.alias = base.name /\ base \in K
  BY DEF Written, InLine
<1>3. Before(base, chain, i) \subseteq K
  BY <1>1, <1>2 DEF Before
<1>4. \A a \in Aliases(s, i) : \E x \in Before(base, chain, i) : a = x.name
  BY <1>1, <1>2 DEF Aliases, Before
<1>5. \A x \in Before(base, chain, i) : x.name \in Aliases(s, i)
  BY <1>1, <1>2 DEF Aliases, Before
<1> QED
  BY <1>3, <1>4, <1>5

LEMMA NamedIs ==
  ASSUME NEW base, NEW K, NEW E, NEW chain, InLine(base, K, E, chain), NEW s, Written(base, chain, s),
         NEW x \in {base} \cup Rights(chain)
  PROVE  Named(s, x.name) = x
<1>1. base \in K /\ s.from = base /\ s.alias = base.name /\ \A t, u \in K : t.name = u.name => t = u
  BY DEF InLine, NamesTell, Written
<1>2. /\ DOMAIN chain = DOMAIN s.joins
      /\ \A i \in DOMAIN chain : /\ chain[i].right \in K
                                 /\ s.joins[i].alias = chain[i].right.name /\ s.joins[i].table = chain[i].right
  BY WrittenIs
<1>3. x \in K
  BY <1>1, <1>2 DEF Rights
<1>4. CASE x.name = base.name
  BY <1>1, <1>3, <1>4 DEF Named
<1>5. CASE x.name # base.name
  <2>1. \E i \in DOMAIN s.joins : s.joins[i].alias = x.name
    BY <1>2, <1>5 DEF Rights
  <2> DEFINE k == CHOOSE i \in DOMAIN s.joins : s.joins[i].alias = x.name
  <2>2. k \in DOMAIN s.joins /\ s.joins[k].alias = x.name
    BY <2>1
  <2>3. Named(s, x.name) = s.joins[k].table
    BY <1>1, <1>5 DEF Named
  <2> HIDE DEF k
  <2> QED
    BY <1>1, <1>2, <1>3, <2>2, <2>3
<1> QED
  BY <1>4, <1>5

LEMMA PairIs == ASSUME NEW a, NEW b, a # b PROVE Cardinality({a, b}) = 2
<1>1. IsFiniteSet({b}) /\ Cardinality({b}) = 1 /\ a \notin {b}
  BY FS_Singleton
<1>2. {b} \cup {a} = {a, b}
  OBVIOUS
<1>3. Cardinality({b} \cup {a}) = Cardinality({b}) + 1
  BY <1>1, FS_AddElement
<1> QED
  BY <1>1, <1>2, <1>3

LEMMA JoinReads ==
  ASSUME NEW base, NEW K, NEW E, NEW chain, InLine(base, K, E, chain), NEW s, Written(base, chain, s),
         NEW i \in 1..Len(chain)
  PROVE  Accepted(s, i) /\ AsRelationship(s, s.joins[i]) = Bare(chain[i])
<1> DEFINE e == chain[i]
           j == s.joins[i]
           l == LeftOf(e, K)
           before == Before(base, chain, i)
           mine == <<e.right.name, e.rc>>
           other == <<e.left, e.lc>>
<1>1. /\ e \in E /\ e.right \in K /\ j = AsJoin(e) /\ Len(chain) \in Nat /\ i \in 1..(Len(chain) + 1)
      /\ DOMAIN chain = 1..Len(chain)
  BY WrittenIs
<1>2. e.type \in {"left", "inner"} /\ e.right.schema \in AllowedSchemas
  BY <1>1 DEF InLine
<1>3. \A t, u \in K : t.name = u.name => t = u
  BY DEF InLine, NamesTell
<1>4. l \in K /\ l.name = e.left
  BY <1>1, LeftIs DEF InLine
<1>5. l \in before /\ e.right \notin before /\ before \subseteq {base} \cup Rights(chain)
  <2> DEFINE r == Res(chain, K)
  <2>1. DOMAIN r = DOMAIN chain /\ \A h \in DOMAIN chain : r[h].left = LeftOf(chain[h], K) /\ r[h].right = chain[h].right
    BY DEF Res, Resolved
  <2>2. WellOrdered(base, r)
    BY DEF InLine
  <2> HIDE DEF r
  <2>3. \A h \in 1..(i - 1) : h \in DOMAIN chain
    BY <1>1
  <2>4. {base} \cup {r[h].right : h \in 1..(i - 1)} = before
    BY <2>1, <2>3 DEF Before
  <2>5. r[i].left \in before /\ r[i].right \notin before
    BY <1>1, <2>1, <2>2, <2>4 DEF WellOrdered
  <2> QED
    BY <1>1, <2>1, <2>3, <2>5 DEF Before, Rights
<1>6. Aliases(s, i) = {x.name : x \in before} /\ before \subseteq K
  BY <1>1, AliasesAre
<1>7. \A x \in before : Named(s, x.name) = x
  BY <1>5, NamedIs
<1>8. \A x \in before : x.name # e.right.name
  BY <1>1, <1>3, <1>5, <1>6
<1>9. e.left # e.right.name
  BY <1>4, <1>5, <1>8
<1>10. j.table = e.right /\ j.alias = e.right.name /\ j.on = {other, mine} /\ j.side = IF e.type = "left" THEN "LEFT" ELSE "INNER"
  BY <1>1, AsJoinIs
<1>11. mine # other /\ mine[1] = e.right.name /\ mine[2] = e.rc /\ other[1] = e.left /\ other[2] = e.lc
  BY <1>9
<1> HIDE DEF e, j, l, before, mine, other
<1>12. Own(j) = {mine} /\ j.on \ Own(j) = {other}
  <2>1. j.on = {other, mine} /\ mine[1] = j.alias /\ other[1] # j.alias
    BY <1>9, <1>10, <1>11
  <2>2. \A c \in j.on : c[1] = j.alias <=> c = mine
    BY <2>1
  <2>3. Own(j) = {mine}
    BY <2>1, <2>2 DEF Own
  <2> QED
    BY <1>11, <2>1, <2>3
<1>13. Cardinality(Own(j)) = 1 /\ Cardinality(j.on) = 2
  <2>1. Cardinality({mine}) = 1 /\ Cardinality({other, mine}) = 2
    BY <1>11, FS_Singleton, PairIs
  <2> QED
    BY <1>10, <1>12, <2>1
<1>14. e.left \in Aliases(s, i) /\ Named(s, e.left) = l
  BY <1>4, <1>5, <1>6, <1>7
<1>15. Accepted(s, i)
  <2>1. j.side \in {"LEFT", "INNER"} /\ j.table.schema \in AllowedSchemas
    BY <1>2, <1>10
  <2>2. j.alias \notin Aliases(s, i)
    BY <1>6, <1>8, <1>10
  <2>3. j.table.name \notin {Named(s, a).name : a \in Aliases(s, i)}
    BY <1>6, <1>7, <1>8, <1>10
  <2>4. {c[1] : c \in j.on} \subseteq Aliases(s, i) \cup {j.alias}
    BY <1>10, <1>11, <1>14
  <2> QED
    BY <1>13, <2>1, <2>2, <2>3, <2>4 DEF Accepted, j
<1>16. AsRelationship(s, j) = Bare(e)
  <2>1. (CHOOSE c \in Own(j) : TRUE) = mine /\ (CHOOSE c \in j.on \ Own(j) : TRUE) = other
    BY <1>12
  <2>2. AsRelationship(s, j) = [type |-> IF j.side = "LEFT" THEN "left" ELSE "inner",
                                left |-> Named(s, other[1]).name, lc |-> other[2],
                                right |-> j.table, rc |-> mine[2], fanout |-> FALSE]
    BY <2>1 DEF AsRelationship
  <2>3. (IF j.side = "LEFT" THEN "left" ELSE "inner") = e.type
    BY <1>2, <1>10
  <2>4. Named(s, other[1]).name = e.left
    BY <1>4, <1>11, <1>14
  <2> QED
    BY <1>10, <1>11, <2>2, <2>3, <2>4 DEF Bare
<1> QED
  BY <1>15, <1>16 DEF e, j

\* what the attributes mean
Quads(attrs) == {<<a.name, a.table, a.col, a.type>> : a \in attrs}

\* A text of joins in order is in the subset, and parses to what was written.
LEMMA ReadsBack ==
  ASSUME NEW base, NEW K, NEW E, NEW chain, InLine(base, K, E, chain), NEW s, Written(base, chain, s),
         NEW attrs, attrs # {}, s.items = {<<a.table.name, a.col, a.name>> : a \in attrs},
         \A a \in attrs : /\ a.table \in {base} \cup Rights(chain)
                          /\ a.col \in Columns(a.table) /\ a.type = ColType[a.table][a.col],
         base.schema \in AllowedSchemas
  PROVE  \E back \in Parse(s) :
         /\ back.from = base
         /\ back.rels = [i \in DOMAIN chain |-> Bare(chain[i])]
         /\ Quads(back.attrs) = Quads(attrs)
<1> DEFINE n == Len(chain)
           item(c) == <<Named(s, c[1]), c[2], c[3]>>
           read == {<<Named(s, c[1]), c[2], c[3]>> : c \in s.items}
           of(a) == [name |-> a[3], table |-> a[1], col |-> a[2], type |-> ColType[a[1]][a[2]]]
<1>1. n \in Nat /\ DOMAIN chain = 1..n /\ DOMAIN s.joins = 1..n /\ Len(s.joins) = n
  BY WrittenIs
<1>2. \A i \in 1..n : Accepted(s, i) /\ AsRelationship(s, s.joins[i]) = Bare(chain[i])
  BY JoinReads
<1>3. \A x \in {base} \cup Rights(chain) : Named(s, x.name) = x /\ x.name \in Aliases(s, n + 1)
  <2>1. Aliases(s, n + 1) = {x.name : x \in Before(base, chain, n + 1)}
    BY <1>1, AliasesAre
  <2>2. Before(base, chain, n + 1) = {base} \cup Rights(chain)
    <3>1. (n + 1) - 1 = n
      BY <1>1
    <3> QED
      BY <1>1, <3>1 DEF Before, Rights
  <2> QED
    BY <2>1, <2>2, NamedIs
<1>4. \A c \in s.items : \E a \in attrs : c = <<a.table.name, a.col, a.name>>
  OBVIOUS
<1>5. \A a \in attrs : <<a.table.name, a.col, a.name>> \in s.items
  OBVIOUS
<1>6. \A c \in s.items : c[1] \in Aliases(s, n + 1)
  BY <1>3, <1>4
<1>7. \A x \in read : \E a \in attrs : x = <<a.table, a.col, a.name>>
  BY <1>3, <1>4
<1>8. \A a \in attrs : <<a.table, a.col, a.name>> \in read
  <2>1. \A a \in attrs : item(<<a.table.name, a.col, a.name>>) = <<a.table, a.col, a.name>>
    BY <1>3
  <2>2. \A c \in s.items : item(c) \in read
    OBVIOUS
  <2> HIDE DEF item, read
  <2> QED
    BY <1>5, <2>1, <2>2
<1>9. \A x \in read : x[2] \in Columns(x[1])
  BY <1>7
<1>10. s.from = base /\ base.schema \in AllowedSchemas
  BY DEF Written
<1>11. s.items # {}
  BY <1>5
<1> DEFINE back == [from |-> s.from, rels |-> [i \in DOMAIN s.joins |-> AsRelationship(s, s.joins[i])],
                    attrs |-> {of(a) : a \in read}]
<1>12. back \in Parse(s)
  <2>1. /\ s.from.schema \in AllowedSchemas
        /\ \A i \in DOMAIN s.joins : Accepted(s, i)
        /\ \A c \in s.items : c[1] \in Aliases(s, Len(s.joins) + 1)
        /\ s.items # {}
        /\ \A a \in read : a[2] \in Columns(a[1])
    BY <1>1, <1>2, <1>6, <1>9, <1>10, <1>11
  <2>2. Parse(s) = {back}
    BY <2>1 DEF Parse
  <2> QED
    BY <2>2
<1>14. back.from = base /\ back.attrs = {of(a) : a \in read}
       /\ back.rels = [i \in DOMAIN s.joins |-> AsRelationship(s, s.joins[i])]
  BY <1>10
<1>15. back.rels = [i \in DOMAIN chain |-> Bare(chain[i])]
  BY <1>1, <1>2, <1>14
<1> DEFINE quad(a) == <<a.name, a.table, a.col, a.type>>
<1>16. \A x \in read : quad(of(x)) = <<x[3], x[1], x[2], ColType[x[1]][x[2]]>>
  OBVIOUS
<1>17. \A a \in attrs : quad(of(<<a.table, a.col, a.name>>)) = quad(a)
  OBVIOUS
<1> HIDE DEF read, of, quad, back
<1>18. {quad(b) : b \in back.attrs} = {quad(a) : a \in attrs}
  <2>1. \A b \in back.attrs : \E a \in attrs : quad(b) = quad(a)
    BY <1>7, <1>14, <1>17
  <2>2. \A a \in attrs : \E b \in back.attrs : quad(b) = quad(a)
    BY <1>8, <1>14, <1>17
  <2> QED
    BY <2>1, <2>2
<1> QED
  BY <1>12, <1>14, <1>15, <1>18 DEF quad, Quads

LEMMA WellOrderedSame ==
  ASSUME NEW base, NEW q, NEW r, DOMAIN q = DOMAIN r, NEW n \in Nat, DOMAIN q = 1..n,
         \A i \in DOMAIN q : q[i].left = r[i].left /\ q[i].right = r[i].right, WellOrdered(base, r)
  PROVE  WellOrdered(base, q)
<1> SUFFICES ASSUME NEW i \in 1..n
             PROVE  LET before == {base} \cup {q[h].right : h \in 1..(i - 1)}
                    IN  q[i].left \in before /\ q[i].right \notin before
  BY DEF WellOrdered
<1>1. \A h \in 1..(i - 1) : q[h].right = r[h].right
  OBVIOUS
<1>2. {base} \cup {q[h].right : h \in 1..(i - 1)} = {base} \cup {r[h].right : h \in 1..(i - 1)}
  BY <1>1
<1> QED
  BY <1>2 DEF WellOrdered

LEMMA PrimaryIs ==
  ASSUME NEW p, WellFormed(p), PrimaryName(p) # None
  PROVE  PrimaryOf(p) \in p.attrs
<1>1. \E a \in p.attrs : a.name = PrimaryName(p)
  <2>1. CASE Flagged(p) # {}
    <3>1. PrimaryName(p) \in Flagged(p)
      BY <2>1 DEF PrimaryName
    <3> QED
      BY <3>1 DEF Flagged
  <2>2. CASE Flagged(p) = {}
    <3>1. PrimaryName(p) = p.primary
      BY <2>2 DEF PrimaryName
    <3> QED
      BY <3>1 DEF WellFormed
  <2> QED
    BY <2>1, <2>2
<1> QED
  BY <1>1 DEF PrimaryOf

LEMMA ValidPlans ==
  ASSUME NEW p, ListOfJoins(p.rels), NEW d, NEW v, v = Validate(p, FALSE, d), v # None
  PROVE  /\ WellFormed(p) /\ PrimaryName(p) # None /\ AttrsValid(p)
         /\ v.base = PrimaryOf(p).table /\ v.joins = InOrder(p).joins
         /\ \A i \in DOMAIN p.rels : /\ JoinType(p.rels[i]) \in {"left", "inner"}
                                     /\ p.rels[i].right.schema \in AllowedSchemas
                                     /\ Cardinality(Lefts(p.rels[i], Known(p))) = 1
         /\ InOrder(p).still = <<>> /\ WellOrdered(PrimaryOf(p).table, InOrder(p).joins) /\ Rights(InOrder(p).joins) = Rights(p.rels)
         /\ PrimaryOf(p).table \notin Rights(p.rels) /\ AttrTables(p) \subseteq {PrimaryOf(p).table} \cup Rights(p.rels)
<1> DEFINE l == Latest(p, FALSE)
           base == PrimaryOf(p).table
           o == InOrder(p)
<1>1. WellFormed(p) /\ PrimaryName(p) # None /\ AttrsValid(p) /\ Planned(p, l, d)
  BY DEF Validate
<1>2. v.base = base /\ v.joins = o.joins
  BY DEF Validate
<1> HIDE DEF l, base, o
<1>3. JoinsValid(p, l, d) /\ o.still = <<>> /\ AttrTables(p) \subseteq o.added
  BY <1>1 DEF Planned, o
<1>4. \A i \in DOMAIN p.rels : /\ JoinType(p.rels[i]) \in {"left", "inner"}
                               /\ p.rels[i].right.schema \in AllowedSchemas
                               /\ Cardinality(Lefts(p.rels[i], Known(p))) = 1
  BY <1>3 DEF JoinsValid
<1>5. IsTree(p) /\ WellOrdered(base, o.joins) /\ Rights(o.joins) = Rights(p.rels)
  BY <1>1, <1>3, PlannedIsTree DEF base, o
<1>6. base \notin Rights(p.rels)
  BY <1>5 DEF IsTree, base
<1>7. o.added = {base} \cup Rights(o.joins)
  <2>1. Ordering(base, ToSet(Joins(p)), o)
    BY JoinsAre, OrderIs DEF InOrder, base, o
  <2> QED
    BY <2>1 DEF Ordering, Laid
<1> QED
  BY <1>1, <1>2, <1>3, <1>4, <1>5, <1>6, <1>7 DEF base, o

LEMMA ValidReadsBack ==
  ASSUME NEW p, IsMapping(p), NEW d, NEW v, v = Validate(p, FALSE, d), v # None,
         InSubset(p), NamesTypes(p)
  PROVE  ReadsBackAs(p, v)
<1> DEFINE K == Known(p)
           rels == p.rels
           E == ToSet(rels)
           base == PrimaryOf(p).table
           o == InOrder(p)
           chain == Chain(base, rels)
           s == [from |-> DerivedBase(p), alias |-> DerivedBase(p).name,
                 joins |-> [i \in DOMAIN Chain(DerivedBase(p), p.rels) |-> AsJoin(Chain(DerivedBase(p), p.rels)[i])],
                 items |-> {<<a.table.name, a.col, a.name>> : a \in p.attrs}]
<1>1. /\ WellFormed(p) /\ PrimaryName(p) # None /\ AttrsValid(p)
      /\ v.base = base /\ v.joins = o.joins
      /\ \A i \in DOMAIN rels : /\ rels[i].type \in {"left", "inner"} /\ rels[i].right.schema \in AllowedSchemas
                                /\ Cardinality(Lefts(rels[i], K)) = 1
      /\ o.still = <<>> /\ WellOrdered(base, o.joins) /\ Rights(o.joins) = Rights(rels)
      /\ base \notin Rights(rels) /\ AttrTables(p) \subseteq {base} \cup Rights(rels)
  <2>1. ListOfJoins(p.rels) /\ v = Validate(p, FALSE, d) /\ v # None
    BY DEF IsMapping
  <2>2. \A i \in DOMAIN rels : rels[i].type \in {"left", "inner"}
    BY DEF NamesTypes
  <2> HIDE DEF K, rels, base, o
  <2>3. \A i \in DOMAIN rels : /\ rels[i].right.schema \in AllowedSchemas
                              /\ Cardinality(Lefts(rels[i], K)) = 1
    BY ONLY <2>1, ValidPlans DEF rels, K
  <2> QED
    BY ONLY <2>1, <2>2, <2>3, ValidPlans DEF rels, base, o
<1>2. ListOfJoins(rels) /\ o = Order(base, Res(rels, K))
  BY DEF IsMapping, InOrder, Joins, Res
<1>3. K = AttrTables(p) \cup {base} \cup Rights(rels)
  BY DEF Known
<1>4. PrimaryOf(p) \in p.attrs
  BY <1>1, PrimaryIs
<1>5. base \in AttrTables(p) /\ base.schema \in AllowedSchemas
  BY <1>1, <1>4 DEF AttrTables, AttrsValid
<1>6. DerivedBase(p) = base
  BY <1>1, <1>5 DEF DerivedBase
<1>7. /\ p.attrs # {}
      /\ \A a \in p.attrs : /\ a.table \in {base} \cup Rights(rels) /\ a.col \in Columns(a.table)
                            /\ a.type = ColType[a.table][a.col]
  BY <1>1 DEF WellFormed, AttrsValid, AttrTables
<1>8. s.from = base /\ s.alias = base.name /\ s.joins = [i \in DOMAIN chain |-> AsJoin(chain[i])]
      /\ s.items = {<<a.table.name, a.col, a.name>> : a \in p.attrs}
  BY <1>6
<1>8a. s \in Generate(p)
  BY DEF Generate, NamesTypes
<1>9. \A t, u \in K : t.name = u.name => t = u
  BY DEF InSubset
<1>10. Once(rels, {base})
  BY <1>1 DEF Once, Rights, InSubset
<1>11. /\ [p EXCEPT !.rels = 0].attrs = p.attrs
       /\ \A r : /\ [p EXCEPT !.rels = r].rels = r /\ [p EXCEPT !.rels = r].attrs = p.attrs
                 /\ [p EXCEPT !.rels = r].primary = p.primary
  BY DEF IsMapping
<1> HIDE DEF K, rels, E, base, o, chain, s
<1>12. \A e \in E : /\ e.right \in K /\ e.type \in {"left", "inner"} /\ e.right.schema \in AllowedSchemas
                    /\ \E t \in K : t.name = e.left
  <2> SUFFICES ASSUME NEW i \in DOMAIN rels
               PROVE  /\ rels[i].right \in K /\ rels[i].type \in {"left", "inner"}
                      /\ rels[i].right.schema \in AllowedSchemas /\ \E t \in K : t.name = rels[i].left
    BY DEF E, ToSet
  <2>1. Lefts(rels[i], K) # {}
    <3>1. CASE Lefts(rels[i], K) = {}
      <4>1. Cardinality(Lefts(rels[i], K)) = 0
        BY <3>1, FS_EmptySet
      <4> QED
        BY <1>1, <4>1
    <3> QED
      BY <3>1
  <2>2. \E t \in K : t.name = rels[i].left
    BY <2>1 DEF Lefts
  <2> QED
    BY <1>1, <1>3, <2>2 DEF Rights
<1>13. NamesTell(K, E)
  BY <1>9, <1>12 DEF NamesTell
<1>14. chain \in Seq(E) /\ Res(chain, K) = o.joins
  BY <1>1, <1>2, <1>3, <1>10, <1>13, ChainIs DEF E, chain
<1>15. InLine(base, K, E, chain) /\ Written(base, chain, s)
  BY <1>1, <1>3, <1>8, <1>12, <1>13, <1>14 DEF InLine, Written
<1>16. Rights(chain) = Rights(rels)
  <2>1. Rights(Res(chain, K)) = Rights(chain)
    BY DEF Res, Resolved, Rights
  <2> QED
    BY <1>1, <1>14, <2>1
<1>17. PICK back \in Parse(s) :
         /\ back.from = base /\ back.rels = [i \in DOMAIN chain |-> Bare(chain[i])]
         /\ Quads(back.attrs) = Quads(p.attrs)
  <2> DEFINE attrs == p.attrs
  <2>1. /\ attrs # {} /\ s.items = {<<a.table.name, a.col, a.name>> : a \in attrs}
        /\ \A a \in attrs : /\ a.table \in {base} \cup Rights(chain)
                            /\ a.col \in Columns(a.table) /\ a.type = ColType[a.table][a.col]
        /\ base.schema \in AllowedSchemas /\ InLine(base, K, E, chain) /\ Written(base, chain, s)
    BY <1>5, <1>7, <1>8, <1>15, <1>16
  <2> HIDE DEF attrs
  <2>2. \E back \in Parse(s) : /\ back.from = base /\ back.rels = [i \in DOMAIN chain |-> Bare(chain[i])]
                              /\ Quads(back.attrs) = Quads(attrs)
    BY ONLY <2>1, ReadsBack
  <2> QED
    BY <2>2 DEF attrs
<1> DEFINE again == [p EXCEPT !.rels = back.rels]
           r == back.rels
           n == Len(chain)
           q == Res(r, K)
<1>18. DOMAIN chain = 1..n /\ n \in Nat /\ \A i \in 1..n : chain[i] \in E
  BY <1>14
<1>19. r = [i \in 1..n |-> Bare(chain[i])]
  BY <1>17, <1>18
<1> HIDE DEF n, r
<1>20. r \in Seq({Bare(e) : e \in E}) /\ DOMAIN r = 1..n /\ \A i \in 1..n : r[i] = Bare(chain[i])
  BY <1>18, <1>19
<1>21. \A i \in 1..n : LeftOf(r[i], K) = LeftOf(chain[i], K) /\ r[i].right = chain[i].right
  BY <1>20 DEF Bare, LeftOf, Lefts
<1>22. /\ DOMAIN q = 1..n /\ DOMAIN o.joins = 1..n /\ Len(q) = n /\ Len(o.joins) = n
       /\ q \in Seq({Resolved(e, K) : e \in {Bare(f) : f \in E}})
       /\ \A i \in 1..n : q[i] = Resolved(r[i], K) /\ o.joins[i] = Resolved(chain[i], K)
  <2>1. /\ q \in Seq({Resolved(e, K) : e \in {Bare(f) : f \in E}}) /\ DOMAIN q = DOMAIN r /\ Len(q) = Len(r)
        /\ \A i \in DOMAIN r : q[i] = Resolved(r[i], K)
    BY <1>20, ResIs
  <2>2. Len(r) = n
    BY <1>18, <1>20
  <2>3. /\ DOMAIN Res(chain, K) = DOMAIN chain /\ Len(Res(chain, K)) = Len(chain)
        /\ \A i \in DOMAIN chain : Res(chain, K)[i] = Resolved(chain[i], K)
    BY <1>14, ResIs
  <2> HIDE DEF q
  <2> QED
    BY <1>14, <1>18, <1>20, <2>1, <2>2, <2>3 DEF n
<1> HIDE DEF q
<1>23. \A i \in 1..n : Same(q[i], o.joins[i]) /\ q[i].left = o.joins[i].left /\ q[i].right = o.joins[i].right
  <2> SUFFICES ASSUME NEW i \in 1..n
               PROVE  Same(q[i], o.joins[i]) /\ q[i].left = o.joins[i].left /\ q[i].right = o.joins[i].right
    OBVIOUS
  <2>1. /\ r[i].type = chain[i].type /\ r[i].lc = chain[i].lc /\ r[i].rc = chain[i].rc
        /\ r[i].right = chain[i].right
    BY <1>20 DEF Bare
  <2>4. q[i] = Resolved(r[i], K) /\ o.joins[i] = Resolved(chain[i], K)
    BY <1>22
  <2>5. JoinType(r[i]) = JoinType(chain[i])
    BY <2>1 DEF JoinType
  <2>2. /\ q[i].type = JoinType(r[i]) /\ q[i].left = LeftOf(r[i], K) /\ q[i].lc = r[i].lc
        /\ q[i].right = r[i].right /\ q[i].rc = r[i].rc
    BY ONLY <2>4 DEF Resolved
  <2> DEFINE j == o.joins[i]
  <2>3. /\ j.type = JoinType(chain[i]) /\ j.left = LeftOf(chain[i], K) /\ j.lc = chain[i].lc
        /\ j.right = chain[i].right /\ j.rc = chain[i].rc
    BY ONLY <2>4 DEF Resolved
  <2> QED
    BY <1>21, <2>1, <2>2, <2>3, <2>5 DEF Same
<1>24. WellOrdered(base, q)
  BY <1>1, <1>18, <1>22, <1>23, WellOrderedSame
<1>25. Order(base, q).joins = q
  BY <1>22, <1>24, OrderKeeps
<1>26. PrimaryOf(again) = PrimaryOf(p) /\ AttrTables(again) = AttrTables(p) /\ again.rels = r
  <2>1. again.rels = r /\ again.attrs = p.attrs /\ again.primary = p.primary
    BY <1>11 DEF r
  <2> HIDE DEF again
  <2>2. Flagged(again) = Flagged(p)
    BY <2>1 DEF Flagged
  <2>3. PrimaryName(again) = PrimaryName(p)
    BY <2>1, <2>2 DEF PrimaryName
  <2> QED
    BY <2>1, <2>3 DEF PrimaryOf, AttrTables
<1>27. Rights(r) = Rights(rels)
  <2>1. Rights(r) = Rights(chain)
    BY <1>18, <1>20, <1>21 DEF Rights
  <2> QED
    BY <1>16, <2>1
<1> HIDE DEF again
<1>28. Known(again) = K
  BY <1>3, <1>26, <1>27 DEF Known, base
<1>29. InOrder(again) = Order(base, q)
  BY <1>26, <1>28 DEF InOrder, Joins, Res, base, q
<1>30. InOrder(again).joins = q /\ Len(q) = Len(v.joins) /\ \A i \in DOMAIN q : Same(q[i], v.joins[i])
  BY <1>1, <1>22, <1>23, <1>25, <1>29
<1> QED
  BY <1>1, <1>8a, <1>17, <1>30 DEF again, Quads, ReadsBackAs

\* The joins of a saved model as SQL and back: the generator, which knows the tables by name
\* only, writes them in the order the planner finds, and the parser takes every one of them.
\* Every join has to name its type: to one that does not the generator gives no text or
\* that of an inner join, where the planner takes it for a left join.
THEOREM RoundTripsHolds == Spec => []RoundTrips
<1>1. ModelInv => RoundTrips
  BY ValidReadsBack DEF ModelInv, RoundTrips
<1> QED
  BY <1>1, ModelAlways, PTL
=============================================================================
