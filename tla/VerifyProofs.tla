---------------------------- MODULE VerifyProofs ----------------------------
(***************************************************************************)
(* What a verify says is true, for every set of tables, requests and row   *)
(* counts, as far as no other thread saves the same count beside it; and   *)
(* every name of a batch is in one place, from the post to its end.        *)
(***************************************************************************)
EXTENDS Verify, FiniteSetTheorems, TLAPS

Row == [count : Counts \cup {None}, mode : {"exact", "estimate", None}, status : {"ok", "stale"}]

\* the fields of a thread's state
IsThread(x) ==
  x \in [pc : {x.pc}, table : {x.table}, batch : {x.batch}, run : {x.run}, rows : {x.rows},
         count : {x.count}, row : {x.row}, quiet : BOOLEAN]

Counting == {"look", "commit", "refresh", "record"}

Measuring == {"target", "source"} \cup Counting

\* a thread that works on the cache row as it read it, or wrote it
Engaged(x) == x.pc = "refresh" \/ (x.pc = "commit" /\ x.row # None)

\* an exact number was returned by an exact count
Exact(row, known) == row.mode = "exact" /\ row.count # None => row.count \in known

\* the number a thread counted is what the row says
Holding(x, row) == x.count # None => row.mode = "exact" /\ row.count = x.count

\* of a thread's state x: src, tgt, row, known, pure are of its table, which is
\* pure while no two upserts of its row have overlapped
Fits(a, x, src, tgt, row, known, pure) ==
  /\ x.pc \in {"target", "source"} => x.count = None
  /\ a = Loop => x.pc # "record"
  /\ a # Loop =>
       /\ x.pc \in Counting /\ x.count # None => x.count \in known /\ (x.quiet => x.count = src)
       /\ x.pc \in {"source"} \cup Counting /\ x.quiet => x.rows \in {tgt, None}
       /\ x.pc = "refresh" /\ x.quiet => Holding(x, row)
       /\ x.pc = "record" => /\ x.row \in Row /\ (pure => Exact(x.row, known))
                             /\ x.quiet => Holding(x, x.row)
  /\ Engaged(x) => row # None
  /\ x.pc = "commit" /\ x.row # None => x.row \in Row /\ (pure \/ x.quiet => x.row = row)

Shaped(x) == IsThread(x) /\ (x.pc \in Measuring => x.table \in Tables /\ x.count \in Counts \cup {None})

ThreadOK(a) ==
  LET x == actor[a]
      t == x.table
  IN  /\ Shaped(x)
      /\ x.pc \in Measuring => Fits(a, x, source[t], target[t], cache[t], counted[t], t \notin mixed)

\* two threads that work on one cache row know of it
Exclusive ==
  \A a, b \in Actors : (a # b /\ Engaged(actor[a]) /\ Engaged(actor[b]) /\ actor[a].table = actor[b].table) =>
    actor[a].table \in mixed /\ ~actor[a].quiet

CacheOK == \A t \in Tables : cache[t] # None => cache[t] \in Row /\ (t \notin mixed => Exact(cache[t], counted[t]))

WorldOK ==
  /\ source \in [Tables -> Counts] /\ target \in [Tables -> Counts \cup {None}]
  /\ cache \in [Tables -> Row \cup {None}] /\ counted \in [Tables -> SUBSET Counts]
  /\ \A t \in DOMAIN estimates : t \in Tables /\ estimates[t] \in Counts \cup {None}
  /\ DOMAIN actor = Actors

VerdictInv ==
  /\ WorldOK /\ CacheOK /\ Exclusive
  /\ \A a \in Actors : ThreadOK(a)

LEMMA IdleIsThread == Shaped(Idle) /\ Idle.pc = "idle" /\ ~Engaged(Idle)
  BY DEF Shaped, IsThread, Idle, Measuring, Counting, Engaged

LEMMA RowNotNone == ASSUME NEW row \in Row PROVE row # None
  BY VerifyAssumption DEF Row

(***************************************************************************)
(* Steps of one thread that leave the cache and the world alone.           *)
(***************************************************************************)
\* a thread's state x after others have moved: it may be quiet no more
Hushed(x, y) ==
  /\ IsThread(y) /\ (y.quiet => x.quiet)
  /\ y.pc = x.pc /\ y.table = x.table /\ y.count = x.count /\ y.row = x.row /\ y.rows = x.rows

LEMMA HushedStays ==
  ASSUME VerdictInv, NEW b \in Actors, Hushed(actor[b], actor'[b]),
         UNCHANGED <<source, target, cache>>, mixed \subseteq mixed',
         \A t \in Tables : counted[t] \subseteq counted'[t]
  PROVE  ThreadOK(b)' /\ (Engaged(actor'[b]) <=> Engaged(actor[b]))
<1> DEFINE x == actor[b]
           y == actor'[b]
           t == x.table
<1>1. ThreadOK(b) /\ Shaped(x) /\ Hushed(x, y)
  BY DEF VerdictInv, ThreadOK
<1>2. Shaped(y) /\ (Engaged(y) <=> Engaged(x)) /\ y.table = t
  BY <1>1 DEF Shaped, Hushed, Engaged
<1>3. ASSUME x.pc \in Measuring
      PROVE  Fits(b, y, source[t], target[t], cache[t], counted'[t], t \notin mixed')
  <2>1. t \in Tables /\ Fits(b, x, source[t], target[t], cache[t], counted[t], t \notin mixed)
    BY <1>1, <1>3 DEF ThreadOK, Shaped
  <2>2. counted[t] \subseteq counted'[t] /\ (t \notin mixed' => t \notin mixed)
    BY <2>1
  <2> QED
    BY <1>1, <1>2, <2>1, <2>2 DEF Fits, Hushed, Holding, Exact
<1> QED
  BY <1>1, <1>2, <1>3 DEF ThreadOK, Hushed

\* one thread moves, and those it disturbs are quiet no more
LEMMA OneMovesAmong ==
  ASSUME VerdictInv, NEW a \in Actors, NEW new, DOMAIN actor' = Actors, actor'[a] = new,
         \A b \in Actors \ {a} : Hushed(actor[b], actor'[b]),
         UNCHANGED <<source, target, cache>>, mixed \subseteq mixed',
         \A t \in Tables : counted[t] \subseteq counted'[t], counted' \in [Tables -> SUBSET Counts],
         \A t \in DOMAIN estimates' : t \in Tables /\ estimates'[t] \in Counts \cup {None},
         Shaped(new),
         new.pc \in Measuring =>
           Fits(a, new, source[new.table], target[new.table], cache[new.table], counted'[new.table],
                new.table \notin mixed'),
         Engaged(new) => \A b \in Actors \ {a} : Engaged(actor[b]) /\ actor[b].table = new.table =>
           new.table \in mixed' /\ ~new.quiet /\ ~actor'[b].quiet
  PROVE  VerdictInv'
<1>1. \A b \in Actors \ {a} : ThreadOK(b)' /\ (Engaged(actor'[b]) <=> Engaged(actor[b]))
  BY HushedStays
<1>2. WorldOK'
  BY DEF VerdictInv, WorldOK
<1>3. CacheOK'
  BY DEF VerdictInv, CacheOK, Exact
<1>4. Exclusive'
  <2>1. \A b \in Actors \ {a} : /\ actor'[b].table = actor[b].table /\ (actor'[b].quiet => actor[b].quiet)
                               /\ (Engaged(actor'[b]) <=> Engaged(actor[b]))
    BY <1>1 DEF Hushed
  <2>2. ASSUME NEW b \in Actors, NEW c \in Actors, b # c, Engaged(actor'[b]), Engaged(actor'[c]),
               actor'[b].table = actor'[c].table
        PROVE  actor'[b].table \in mixed' /\ ~actor'[b].quiet
    <3>1. CASE b # a /\ c # a
      BY <2>1, <2>2, <3>1 DEF VerdictInv, Exclusive
    <3>2. CASE b = a
      BY <2>1, <2>2, <3>2
    <3>3. CASE c = a
      BY <2>1, <2>2, <3>3
    <3> QED
      BY <3>1, <3>2, <3>3
  <2> QED
    BY <2>2 DEF Exclusive
<1>6. ThreadOK(a)'
  BY DEF ThreadOK
<1> QED
  BY <1>1, <1>2, <1>3, <1>4, <1>6 DEF VerdictInv

LEMMA OneMoves ==
  ASSUME VerdictInv, NEW a \in Actors, NEW new, actor' = [actor EXCEPT ![a] = new],
         UNCHANGED <<source, target, cache, mixed>>,
         \A t \in Tables : counted[t] \subseteq counted'[t], counted' \in [Tables -> SUBSET Counts],
         \A t \in DOMAIN estimates' : t \in Tables /\ estimates'[t] \in Counts \cup {None},
         Shaped(new),
         new.pc \in Measuring =>
           Fits(a, new, source[new.table], target[new.table], cache[new.table], counted'[new.table],
                new.table \notin mixed),
         ~Engaged(new)
  PROVE  VerdictInv'
<1>1. DOMAIN actor' = Actors /\ actor'[a] = new /\ \A b \in Actors \ {a} : actor'[b] = actor[b]
  BY DEF VerdictInv, WorldOK
<1>2. \A b \in Actors \ {a} : Hushed(actor[b], actor'[b])
  BY <1>1 DEF Hushed, VerdictInv, ThreadOK, Shaped
<1> QED
  BY <1>1, <1>2, OneMovesAmong

\* what a step of one thread leaves of the rest
Alone == UNCHANGED <<source, target, cache, estimates, counted, mixed>>

LEMMA OneMovesAlone ==
  ASSUME VerdictInv, NEW a \in Actors, NEW new, actor' = [actor EXCEPT ![a] = new], Alone,
         Shaped(new), ~Engaged(new),
         new.pc \in Measuring =>
           Fits(a, new, source[new.table], target[new.table], cache[new.table], counted[new.table],
                new.table \notin mixed)
  PROVE  VerdictInv'
<1>1. \A t \in Tables : counted[t] \subseteq counted'[t]
  BY DEF Alone
<1>2. counted' \in [Tables -> SUBSET Counts] /\ \A t \in DOMAIN estimates' : t \in Tables /\ estimates'[t] \in Counts \cup {None}
  BY DEF Alone, VerdictInv, WorldOK
<1> QED
  BY <1>1, <1>2, OneMoves DEF Alone

LEMMA ThreadReady ==
  ASSUME VerdictInv, NEW a \in Actors, actor[a].pc \in Measuring
  PROVE  /\ Shaped(actor[a]) /\ actor[a].table \in Tables
         /\ LET t == actor[a].table IN Fits(a, actor[a], source[t], target[t], cache[t], counted[t], t \notin mixed)
  BY DEF VerdictInv, ThreadOK, Shaped

LEMMA BegunOK ==
  ASSUME NEW a \in Actors, NEW name, NEW b, NEW src, NEW tgt, NEW row, NEW known, NEW pure
  PROVE  /\ Shaped(Begun(name, b)) /\ ~Engaged(Begun(name, b))
         /\ Fits(a, Begun(name, b), src, tgt, row, known, pure)
<1>1. /\ IsThread(Begun(name, b)) /\ Begun(name, b).count = None /\ Begun(name, b).table = name
      /\ Begun(name, b).pc = IF name \in Tables THEN "target" ELSE "unknown"
  BY DEF Begun, Idle, IsThread
<1> HIDE DEF Begun
<1> QED
  BY <1>1 DEF Shaped, Fits, Engaged, Measuring, Counting

LEMMA CountTargetKeeps == ASSUME VerdictInv, NEW a \in Actors, CountTarget(a) PROVE VerdictInv'
<1> DEFINE x == actor[a]
           t == x.table
<1>1. PICK rows \in {target[t], None} : actor' = [actor EXCEPT ![a] = [x EXCEPT !.rows = rows, !.pc = "source"]]
  BY DEF CountTarget
<1> DEFINE new == [x EXCEPT !.rows = rows, !.pc = "source"]
<1>2. Alone /\ x.pc = "target"
  BY DEF CountTarget, Alone, world, At
<1>3. Shaped(x) /\ t \in Tables /\ Fits(a, x, source[t], target[t], cache[t], counted[t], t \notin mixed)
  BY <1>2, ThreadReady DEF Measuring
<1>4. /\ IsThread(new) /\ new.pc = "source" /\ new.table = t /\ new.count = x.count
      /\ new.rows \in {target[t], None}
  BY <1>3 DEF Shaped, IsThread
<1>5. actor' = [actor EXCEPT ![a] = new]
  BY <1>1
<1> HIDE DEF new
<1>6. Shaped(new) /\ Fits(a, new, source[t], target[t], cache[t], counted[t], t \notin mixed) /\ ~Engaged(new)
  BY <1>2, <1>3, <1>4 DEF Shaped, Fits, Engaged, Measuring, Counting
<1> QED
  BY <1>2, <1>4, <1>5, <1>6, OneMovesAlone

LEMMA CountSourceKeeps == ASSUME VerdictInv, NEW a \in Actors, CountSource(a) PROVE VerdictInv'
<1> DEFINE x == actor[a]
           t == x.table
           failed == [x EXCEPT !.pc = "look"]
           new == [x EXCEPT !.count = source[t], !.pc = "look"]
<1>1. x.pc = "source" /\ UNCHANGED <<source, target, cache, estimates, mixed>>
  BY DEF CountSource, world, At
<1>2. /\ Shaped(x) /\ t \in Tables /\ Fits(a, x, source[t], target[t], cache[t], counted[t], t \notin mixed)
      /\ x.count = None /\ source[t] \in Counts
  BY <1>1, ThreadReady DEF Measuring, Fits, VerdictInv, WorldOK
<1>3. CASE actor' = [actor EXCEPT ![a] = failed] /\ UNCHANGED counted
  <2>1. /\ IsThread(failed) /\ failed.pc = "look" /\ failed.table = t /\ failed.count = None
        /\ failed.rows = x.rows /\ failed.quiet = x.quiet
    BY <1>2 DEF Shaped, IsThread
  <2> HIDE DEF failed
  <2>2. Shaped(failed) /\ Fits(a, failed, source[t], target[t], cache[t], counted[t], t \notin mixed) /\ ~Engaged(failed)
    BY <1>1, <1>2, <2>1 DEF Shaped, Fits, Engaged, Measuring, Counting
  <2> QED
    BY <1>1, <1>3, <2>1, <2>2, OneMovesAlone DEF Alone
<1>4. CASE actor' = [actor EXCEPT ![a] = new] /\ counted' = [counted EXCEPT ![t] = @ \cup {source[t]}]
  <2>1. /\ IsThread(new) /\ new.pc = "look" /\ new.table = t /\ new.count = source[t]
        /\ new.rows = x.rows /\ new.quiet = x.quiet
    BY <1>2 DEF Shaped, IsThread
  <2>2. /\ counted' \in [Tables -> SUBSET Counts] /\ source[t] \in counted'[t]
        /\ \A u \in Tables : counted[u] \subseteq counted'[u]
    BY <1>2, <1>4 DEF VerdictInv, WorldOK
  <2> HIDE DEF new
  <2>3. Shaped(new) /\ Fits(a, new, source[t], target[t], cache[t], counted'[t], t \notin mixed) /\ ~Engaged(new)
    BY <1>1, <1>2, <2>1, <2>2 DEF Shaped, Fits, Engaged, Measuring, Counting
  <2>4. \A u \in DOMAIN estimates' : u \in Tables /\ estimates'[u] \in Counts \cup {None}
    BY <1>1 DEF VerdictInv, WorldOK
  <2> QED
    BY <1>1, <1>4, <2>1, <2>2, <2>3, <2>4, OneMoves
<1> QED
  BY <1>3, <1>4 DEF CountSource

\* of two threads that save one row, the second to look disturbs the first
LEMMA LookKeeps == ASSUME VerdictInv, NEW a \in Actors, Look(a) PROVE VerdictInv'
<1> DEFINE x == actor[a]
           t == x.table
           disturbed == IF Beside(a) = {} THEN {} ELSE Beside(a) \cup {a}
           new == actor'[a]
<1>1. /\ actor' = [b \in Actors |->
                    [actor[b] EXCEPT !.row = IF b = a THEN cache[t] ELSE @,
                                     !.pc = IF b = a THEN "commit" ELSE @,
                                     !.quiet = @ /\ b \notin disturbed]]
      /\ UNCHANGED <<source, target, cache, estimates, counted>> /\ x.pc = "look"
      /\ mixed' = IF disturbed = {} THEN mixed ELSE mixed \cup {t}
  BY DEF Look, world, At
<1>2. Shaped(x) /\ t \in Tables /\ Fits(a, x, source[t], target[t], cache[t], counted[t], t \notin mixed)
  BY <1>1, ThreadReady DEF Measuring, Counting
<1>3. /\ IsThread(new) /\ new.pc = "commit" /\ new.table = t /\ new.count = x.count
      /\ new.rows = x.rows /\ new.row = cache[t] /\ (new.quiet <=> x.quiet /\ a \notin disturbed)
  BY <1>1, <1>2 DEF Shaped, IsThread
<1>4. \A b \in Actors \ {a} : Hushed(actor[b], actor'[b]) /\ (b \in disturbed => ~actor'[b].quiet)
  <2> SUFFICES ASSUME NEW b \in Actors \ {a}
               PROVE  Hushed(actor[b], actor'[b]) /\ (b \in disturbed => ~actor'[b].quiet)
    OBVIOUS
  <2>1. IsThread(actor[b])
    BY DEF VerdictInv, ThreadOK, Shaped
  <2>2. actor'[b] = [actor[b] EXCEPT !.row = @, !.pc = @, !.quiet = @ /\ b \notin disturbed]
    BY <1>1
  <2> HIDE DEF disturbed
  <2> QED
    BY <2>1, <2>2 DEF Hushed, IsThread
<1>5. mixed \subseteq mixed' /\ (disturbed # {} => t \in mixed')
  BY <1>1
<1>6. cache[t] # None => cache[t] \in Row
  BY <1>2 DEF VerdictInv, CacheOK
<1>7. ASSUME NEW b \in Actors \ {a}, Engaged(new), Engaged(actor[b]), actor[b].table = new.table
      PROVE  b \in disturbed /\ a \in disturbed
  BY <1>3, <1>7 DEF Engaged, Beside, Saving
<1> HIDE DEF new, disturbed
<1>8. Shaped(new) /\ Fits(a, new, source[t], target[t], cache[t], counted[t], t \notin mixed')
  BY <1>1, <1>2, <1>3, <1>6 DEF Shaped, Fits, Engaged, Measuring, Counting
<1>9. /\ \A u \in Tables : counted[u] \subseteq counted'[u]
      /\ counted' \in [Tables -> SUBSET Counts] /\ counted' = counted
      /\ \A u \in DOMAIN estimates' : u \in Tables /\ estimates'[u] \in Counts \cup {None}
  BY <1>1 DEF VerdictInv, WorldOK
<1>10. Engaged(new) => \A b \in Actors \ {a} : Engaged(actor[b]) /\ actor[b].table = new.table =>
         new.table \in mixed' /\ ~new.quiet /\ ~actor'[b].quiet
  BY <1>3, <1>4, <1>5, <1>7
<1>11. DOMAIN actor' = Actors /\ actor'[a] = new
  BY <1>1 DEF new
<1>12. \A b \in Actors \ {a} : Hushed(actor[b], actor'[b])
  BY <1>4
<1> QED
  BY <1>1, <1>3, <1>5, <1>8, <1>9, <1>10, <1>11, <1>12, OneMovesAmong

LEMMA RefreshKeeps == ASSUME VerdictInv, NEW a \in Actors, Refresh(a) PROVE VerdictInv'
<1> DEFINE x == actor[a]
           t == x.table
           new == [x EXCEPT !.row = cache[t], !.pc = "record"]
<1>1. actor' = [actor EXCEPT ![a] = new] /\ Alone /\ x.pc = "refresh" /\ a # Loop
  BY DEF Refresh, Alone, world, At
<1>2. Shaped(x) /\ t \in Tables /\ Fits(a, x, source[t], target[t], cache[t], counted[t], t \notin mixed)
  BY <1>1, ThreadReady DEF Measuring, Counting
<1>3. /\ IsThread(new) /\ new.pc = "record" /\ new.table = t /\ new.count = x.count
      /\ new.rows = x.rows /\ new.row = cache[t] /\ new.quiet = x.quiet
  BY <1>2 DEF Shaped, IsThread
<1>4. /\ cache[t] \in Row /\ (t \notin mixed => Exact(cache[t], counted[t]))
      /\ x.quiet => Holding(x, cache[t])
  BY <1>1, <1>2 DEF Fits, Engaged, VerdictInv, CacheOK
<1> HIDE DEF new
<1>5. Shaped(new) /\ Fits(a, new, source[t], target[t], cache[t], counted[t], t \notin mixed) /\ ~Engaged(new)
  BY <1>1, <1>2, <1>3, <1>4 DEF Shaped, Fits, Engaged, Measuring, Counting, Holding
<1> QED
  BY <1>1, <1>3, <1>5, OneMovesAlone

LEMMA RestKeeps == ASSUME VerdictInv, NEW a \in Actors, NEW what, Rest(a, what), Alone PROVE VerdictInv'
  BY IdleIsThread, OneMovesAlone DEF Rest, Measuring, Counting

LEMMA FailKeeps == ASSUME VerdictInv, NEW a \in Actors, Fail(a) PROVE VerdictInv'
<1>1. actor' = [actor EXCEPT ![a] = Idle] /\ UNCHANGED <<source, target, cache, counted, mixed>>
  BY DEF Fail, Rest, world
<1>2. \A t \in DOMAIN estimates' : t \in Tables /\ estimates'[t] \in Counts \cup {None}
  BY DEF Fail, VerdictInv, WorldOK
<1>3. counted' \in [Tables -> SUBSET Counts] /\ \A t \in Tables : counted[t] \subseteq counted'[t]
  BY <1>1 DEF VerdictInv, WorldOK
<1> QED
  BY <1>1, <1>2, <1>3, IdleIsThread, OneMoves DEF Measuring, Counting

(***************************************************************************)
(* The step that writes the cache.                                         *)
(***************************************************************************)
\* a row is written; over the row that was read it is the new row
LEMMA WrittenIs ==
  ASSUME NEW now \in Row, NEW old \in Row, NEW new \in Row
  PROVE  /\ Written(now, old, new) \in Row
         /\ now = old => Written(now, old, new).count = new.count /\ Written(now, old, new).mode = new.mode
  BY DEF Row, Written

LEMMA UpsertedIs ==
  ASSUME NEW old \in Row \cup {None}, NEW count \in Counts \cup {None}, NEW mode \in {"exact", "estimate"},
         NEW known, mode = "exact" /\ count # None => count \in known
  PROVE  /\ Upserted(old, count, mode) \in Row
         /\ (old # None => Exact(old, known)) => Exact(Upserted(old, count, mode), known)
         /\ count # None => Upserted(old, count, mode).count = count /\ Upserted(old, count, mode).mode = mode
<1> DEFINE row == IF old = None THEN [count |-> None, mode |-> None, status |-> "ok"] ELSE old
           stale == [row EXCEPT !.status = "stale"]
           fresh == [count |-> count, mode |-> mode, status |-> "ok"]
<1>1. row \in Row /\ ((old # None => Exact(old, known)) => Exact(row, known))
  BY DEF Row, Exact
<1>2. stale \in Row /\ stale.count = row.count /\ stale.mode = row.mode
  BY <1>1 DEF Row
<1>3. fresh \in Row /\ fresh.count = count /\ fresh.mode = mode
  BY DEF Row
<1>4. Upserted(old, count, mode) = IF count = None THEN stale ELSE fresh
  BY DEF Upserted
<1> HIDE DEF row, stale, fresh
<1> QED
  BY <1>1, <1>2, <1>3, <1>4 DEF Exact

LEMMA CommitKeeps == ASSUME VerdictInv, NEW a \in Actors, Commit(a) PROVE VerdictInv'
<1> DEFINE x == actor[a]
           t == x.table
           up == Upserted(x.row, x.count, Mode(a))
           written == IF x.row = None THEN up ELSE Written(cache[t], x.row, up)
           new == [x EXCEPT !.pc = "refresh"]
<1>1. /\ actor' = [actor EXCEPT ![a] = new] /\ UNCHANGED <<source, target, counted, estimates, mixed>>
      /\ x.pc = "commit" /\ cache' = [cache EXCEPT ![t] = written]
      /\ x.row = None => cache[t] = None
  BY DEF Commit, world, At
<1>2. Shaped(x) /\ t \in Tables /\ Fits(a, x, source[t], target[t], cache[t], counted[t], t \notin mixed)
  BY <1>1, ThreadReady DEF Measuring, Counting
<1>3. /\ x.row \in Row \cup {None} /\ cache[t] \in Row \cup {None} /\ x.count \in Counts \cup {None}
      /\ t \notin mixed /\ cache[t] # None => Exact(cache[t], counted[t])
      /\ t \notin mixed \/ x.quiet => x.row = cache[t]
      /\ x.row # None => cache[t] # None
  BY <1>1, <1>2 DEF Fits, Shaped, Engaged, Measuring, Counting, VerdictInv, CacheOK, WorldOK
<1>4. /\ Mode(a) \in {"exact", "estimate"} /\ (Mode(a) = "exact" <=> a # Loop)
      /\ a # Loop /\ x.count # None => x.count \in counted[t]
  BY <1>1, <1>2 DEF Mode, Fits, Counting
<1>5. /\ up \in Row /\ (t \notin mixed => Exact(up, counted[t]))
      /\ x.count # None => up.count = x.count /\ up.mode = Mode(a)
  <2> DEFINE old == x.row
             count == x.count
             mode == Mode(a)
             known == counted[t]
  <2>1. old \in Row \cup {None} /\ (t \notin mixed => (old # None => Exact(old, known)))
    BY <1>3
  <2>2. mode = "exact" /\ count # None => count \in known
    BY <1>4
  <2>3. count \in Counts \cup {None} /\ mode \in {"exact", "estimate"}
    BY <1>3, <1>4
  <2> HIDE DEF old, count, mode, known
  <2>4. /\ Upserted(old, count, mode) \in Row
        /\ (old # None => Exact(old, known)) => Exact(Upserted(old, count, mode), known)
        /\ count # None => Upserted(old, count, mode).count = count /\ Upserted(old, count, mode).mode = mode
    BY <2>1, <2>2, <2>3, UpsertedIs
  <2> QED
    BY <2>1, <2>4 DEF old, count, mode, known
<1> HIDE DEF up
<1>6. /\ written \in Row /\ (t \notin mixed => Exact(written, counted[t]))
      /\ a # Loop /\ x.quiet => Holding(x, written)
  <2>1. CASE x.row = None
    BY <1>4, <1>5, <2>1 DEF Holding
  <2>2. CASE x.row # None
    <3>1. written = Written(cache[t], x.row, up) /\ cache[t] \in Row /\ x.row \in Row
      BY <1>3, <2>2
    <3>2. /\ written \in Row
          /\ cache[t] = x.row => written.count = up.count /\ written.mode = up.mode
      BY <1>5, <3>1, WrittenIs
    <3> QED
      BY <1>3, <1>4, <1>5, <3>2 DEF Exact, Holding
  <2> QED
    BY <2>1, <2>2
<1> HIDE DEF written
<1>7. /\ IsThread(new) /\ new.pc = "refresh" /\ new.table = t /\ new.count = x.count
      /\ new.rows = x.rows /\ new.quiet = x.quiet
  BY <1>2 DEF Shaped, IsThread
<1> HIDE DEF new
<1>8. written # None
  BY <1>6, RowNotNone
<1>9. Shaped(new) /\ Fits(a, new, source[t], target[t], written, counted[t], t \notin mixed)
  BY <1>1, <1>2, <1>6, <1>7, <1>8 DEF Shaped, Fits, Measuring, Counting, Holding
<1>10. \A b \in Actors : actor'[b] = IF b = a THEN new ELSE actor[b]
  BY <1>1 DEF VerdictInv, WorldOK
<1>11. \A u \in Tables : cache'[u] = IF u = t THEN written ELSE cache[u]
  BY <1>1 DEF VerdictInv, WorldOK
\* who else works on the row knows of it
<1>12. \A b \in Actors \ {a} : Engaged(actor[b]) /\ actor[b].table = t =>
         t \in mixed /\ ~x.quiet /\ ~actor[b].quiet
  <2> SUFFICES ASSUME NEW b \in Actors \ {a}, Engaged(actor[b]), actor[b].table = t
               PROVE  t \in mixed /\ ~x.quiet /\ ~actor[b].quiet
    OBVIOUS
  <2>1. actor[b].pc \in Measuring
    BY DEF Engaged, Measuring, Counting
  <2>2. cache[t] # None
    BY <2>1, ThreadReady DEF Fits
  <2>3. Engaged(x)
    BY <1>1, <1>3, <2>2 DEF Engaged
  <2> QED
    BY <2>3 DEF VerdictInv, Exclusive
<1>13. WorldOK'
  BY <1>1, <1>2, <1>6 DEF VerdictInv, WorldOK
<1>14. CacheOK'
  BY <1>1, <1>6, <1>11 DEF VerdictInv, CacheOK, Exact
<1>15. Exclusive'
  <2>1. \A b \in Actors : Engaged(actor'[b]) <=> IF b = a THEN Engaged(new) ELSE Engaged(actor[b])
    BY <1>10
  <2>2. ASSUME NEW b \in Actors, NEW c \in Actors, b # c, Engaged(actor'[b]), Engaged(actor'[c]),
               actor'[b].table = actor'[c].table
        PROVE  actor'[b].table \in mixed' /\ ~actor'[b].quiet
    <3>1. CASE b # a /\ c # a
      BY <1>1, <1>10, <2>1, <2>2, <3>1 DEF VerdictInv, Exclusive
    <3>2. CASE b = a
      BY <1>1, <1>7, <1>10, <1>12, <2>1, <2>2, <3>2
    <3>3. CASE c = a
      BY <1>1, <1>7, <1>10, <1>12, <2>1, <2>2, <3>3
    <3> QED
      BY <3>1, <3>2, <3>3
  <2> QED
    BY <2>2 DEF Exclusive
<1>16. ThreadOK(a)'
  BY <1>1, <1>2, <1>7, <1>9, <1>10, <1>11 DEF ThreadOK
<1>17. ASSUME NEW b \in Actors \ {a} PROVE ThreadOK(b)'
  <2> DEFINE y == actor[b]
  <2>1. ThreadOK(b) /\ actor'[b] = y /\ Shaped(y)
    BY <1>10 DEF VerdictInv, ThreadOK
  <2>2. CASE y.pc \in Measuring /\ y.table = t
    <3>1. /\ Fits(b, y, source[t], target[t], cache[t], counted[t], t \notin mixed)
          /\ Engaged(y) => t \in mixed /\ ~y.quiet
      BY <1>12, <2>2, ThreadReady
    <3>2. Fits(b, y, source[t], target[t], written, counted[t], t \notin mixed)
      BY <1>8, <3>1 DEF Fits, Engaged
    <3> QED
      BY <1>1, <1>2, <1>11, <2>1, <2>2, <3>2 DEF ThreadOK
  <2>3. CASE y.pc \in Measuring /\ y.table # t
    <3>1. y.table \in Tables
      BY <2>1, <2>3 DEF Shaped
    <3> QED
      BY <1>1, <1>11, <2>1, <2>3, <3>1 DEF ThreadOK
  <2>4. CASE y.pc \notin Measuring
    BY <2>1, <2>4 DEF ThreadOK
  <2> QED
    BY <2>2, <2>3, <2>4
<1> QED
  BY <1>13, <1>14, <1>15, <1>16, <1>17 DEF VerdictInv

(***************************************************************************)
(* The other steps.                                                        *)
(***************************************************************************)
\* the threads and the cache are as they were
LEMMA ThreadsStay ==
  ASSUME VerdictInv, UNCHANGED <<source, target, cache, counted, mixed, actor>>,
         \A t \in DOMAIN estimates' : t \in Tables /\ estimates'[t] \in Counts \cup {None}
  PROVE  VerdictInv'
<1>1. WorldOK' /\ CacheOK' /\ Exclusive'
  BY DEF VerdictInv, WorldOK, CacheOK, Exclusive
<1>2. \A a \in Actors : ThreadOK(a)'
  BY DEF VerdictInv, ThreadOK
<1> QED
  BY <1>1, <1>2 DEF VerdictInv

\* rows move in one table: what was counted of it is no longer said to be so
LEMMA MovesKeeps ==
  ASSUME VerdictInv, NEW t \in Tables, Moves(t),
         source' \in [Tables -> Counts], target' \in [Tables -> Counts \cup {None}],
         \A u \in Tables \ {t} : source'[u] = source[u] /\ target'[u] = target[u]
  PROVE  VerdictInv'
<1>1. /\ UNCHANGED <<cache, counted, estimates, mixed>>
      /\ actor' = [a \in Actors |-> IF actor[a].table = t THEN [actor[a] EXCEPT !.quiet = FALSE] ELSE actor[a]]
  BY DEF Moves
<1>2. ASSUME NEW a \in Actors
      PROVE  /\ Shaped(actor[a]) /\ Shaped(actor'[a])
             /\ actor'[a].pc = actor[a].pc /\ actor'[a].table = actor[a].table /\ actor'[a].count = actor[a].count
             /\ actor'[a].row = actor[a].row /\ actor'[a].rows = actor[a].rows
             /\ IF actor[a].table = t THEN actor'[a].quiet = FALSE ELSE actor'[a] = actor[a]
  <2>1. Shaped(actor[a]) /\ actor'[a] = IF actor[a].table = t THEN [actor[a] EXCEPT !.quiet = FALSE] ELSE actor[a]
    BY <1>1 DEF VerdictInv, ThreadOK
  <2> QED
    BY <2>1 DEF Shaped, IsThread
<1>3. WorldOK' /\ CacheOK'
  BY <1>1 DEF VerdictInv, WorldOK, CacheOK
<1>4. Exclusive'
  <2>1. \A a \in Actors : actor'[a].table = actor[a].table /\ (Engaged(actor'[a]) <=> Engaged(actor[a]))
    BY <1>2 DEF Engaged
  <2>2. \A a \in Actors : ~actor[a].quiet => ~actor'[a].quiet
    BY <1>2
  <2>3. ASSUME NEW b \in Actors, NEW c \in Actors, b # c, Engaged(actor'[b]), Engaged(actor'[c]),
               actor'[b].table = actor'[c].table
        PROVE  actor'[b].table \in mixed' /\ ~actor'[b].quiet
    <3>1. Engaged(actor[b]) /\ Engaged(actor[c]) /\ actor[b].table = actor[c].table
      BY <2>1, <2>3
    <3>2. actor[b].table \in mixed /\ ~actor[b].quiet
      BY <2>3, <3>1 DEF VerdictInv, Exclusive
    <3> QED
      BY <1>1, <2>1, <2>2, <3>2
  <2> QED
    BY <2>3 DEF Exclusive
<1>5. ASSUME NEW a \in Actors PROVE ThreadOK(a)'
  <2> DEFINE x == actor[a]
             y == actor'[a]
  <2>1. CASE x.table = t
    <3>1. /\ Shaped(y) /\ y.pc = x.pc /\ y.table = t /\ y.count = x.count /\ y.row = x.row /\ ~y.quiet
      BY <1>2, <2>1
    <3>2. ASSUME x.pc \in Measuring
          PROVE  Fits(a, y, source'[t], target'[t], cache[t], counted[t], t \notin mixed)
      <4>1. Fits(a, x, source[t], target[t], cache[t], counted[t], t \notin mixed)
        BY <2>1, <3>2, ThreadReady
      <4> QED
        BY <3>1, <4>1 DEF Fits, Engaged
    <3> QED
      BY <1>1, <3>1, <3>2 DEF ThreadOK
  <2>2. CASE x.table # t
    BY <1>1, <1>2, <2>2 DEF VerdictInv, ThreadOK, Shaped
  <2> QED
    BY <2>1, <2>2
<1> QED
  BY <1>3, <1>4, <1>5 DEF VerdictInv

LEMMA BeginKeeps ==
  ASSUME VerdictInv, NEW a \in Actors, NEW name, NEW b, actor' = [actor EXCEPT ![a] = Begun(name, b)], Alone
  PROVE  VerdictInv'
  BY BegunOK, OneMovesAlone

LEMMA NextEstimateKeeps == ASSUME VerdictInv, NextEstimate PROVE VerdictInv'
<1>1. PICK t \in DOMAIN estimates :
        /\ actor' = [actor EXCEPT ![Loop] = [Idle EXCEPT !.pc = "look", !.table = t, !.count = estimates[t]]]
        /\ estimates' = [u \in DOMAIN estimates \ {t} |-> estimates[u]]
        /\ UNCHANGED <<source, target, cache, counted, mixed>>
  BY DEF NextEstimate, world
<1> DEFINE new == [Idle EXCEPT !.pc = "look", !.table = t, !.count = estimates[t]]
<1>2. t \in Tables /\ estimates[t] \in Counts \cup {None} /\ Loop \in Actors
  BY DEF VerdictInv, WorldOK, Actors
<1>3. IsThread(new) /\ new.pc = "look" /\ new.table = t /\ new.count = estimates[t]
  BY DEF Idle, IsThread
<1> HIDE DEF new
<1>4. Shaped(new) /\ ~Engaged(new) /\ Fits(Loop, new, source[t], target[t], cache[t], counted[t], t \notin mixed)
  BY <1>2, <1>3 DEF Shaped, Engaged, Fits, Measuring, Counting
<1>5. /\ \A u \in DOMAIN estimates' : u \in Tables /\ estimates'[u] \in Counts \cup {None}
      /\ counted' \in [Tables -> SUBSET Counts] /\ counted' = counted
      /\ \A u \in Tables : counted[u] \subseteq counted'[u]
  BY <1>1 DEF VerdictInv, WorldOK
<1> QED
  BY <1>1, <1>2, <1>3, <1>4, <1>5, OneMoves DEF new

LEMMA CrashKeeps == ASSUME VerdictInv, Crash PROVE VerdictInv'
<1>1. /\ \A a \in Actors : actor'[a] = Idle
      /\ DOMAIN actor' = Actors /\ UNCHANGED <<source, target, cache, counted, mixed>> /\ estimates' = <<>>
  BY DEF Crash, world
<1>2. WorldOK' /\ CacheOK' /\ Exclusive'
  BY <1>1, IdleIsThread DEF VerdictInv, WorldOK, CacheOK, Exclusive
<1>3. \A a \in Actors : ThreadOK(a)'
  BY <1>1, IdleIsThread DEF ThreadOK, Measuring, Counting
<1> QED
  BY <1>2, <1>3 DEF VerdictInv

LEMMA VerdictKeeps == ASSUME VerdictInv, [Next]_vars PROVE VerdictInv'
<1>0. \A t \in DOMAIN estimates : t \in Tables /\ estimates[t] \in Counts \cup {None}
  BY DEF VerdictInv, WorldOK
<1>1. ASSUME NEW a \in Actors, Step(a) PROVE VerdictInv'
  <2>1. CASE Record(a)
    BY <2>1, RestKeeps DEF Record, Alone, world
  <2> QED
    BY <1>1, <2>1, CountTargetKeeps, CountSourceKeeps, LookKeeps, CommitKeeps, RefreshKeeps, FailKeeps DEF Step
<1>2. ASSUME NEW a \in Requests, NEW t \in Tables, Request(a, t) PROVE VerdictInv'
  BY <1>2, BeginKeeps DEF Request, Alone, world, Actors
<1>3. CASE Queue
  <2>1. CASE Take
    BY <2>1, BeginKeeps DEF Take, Alone, world, Actors
  <2>2. CASE Unknown
    BY <2>2, RestKeeps DEF Unknown, Alone, world, Actors
  <2>3. CASE \E p \in Posters : Post(p) \/ EnsureWorker(p) \/ Put(p)
    BY <1>0, <2>3, ThreadsStay DEF Post, EnsureWorker, Put, world
  <2> QED
    BY <1>3, <2>1, <2>2, <2>3 DEF Queue
<1>4. CASE Estimating
  <2>1. CASE Estimate
    BY <2>1, ThreadsStay DEF Estimate, world
  <2>2. CASE EndEstimate
    BY <2>2, RestKeeps DEF EndEstimate, Alone, world, Actors
  <2> QED
    BY <1>4, <2>1, <2>2, NextEstimateKeeps DEF Estimating
<1>5. CASE Around
  <2>1. ASSUME NEW t \in Tables, SourceGrows(t) PROVE VerdictInv'
    BY <2>1, MovesKeeps DEF SourceGrows, VerdictInv, WorldOK
  <2>2. ASSUME NEW t \in Tables, TargetLoads(t) PROVE VerdictInv'
    <3>1. PICK n \in {0, source[t]} : target' = [target EXCEPT ![t] = n]
      BY <2>2 DEF TargetLoads
    <3>2. n \in Counts
      BY VerifyAssumption DEF VerdictInv, WorldOK
    <3> QED
      BY <2>2, <3>1, <3>2, MovesKeeps DEF TargetLoads, VerdictInv, WorldOK
  <2>3. ASSUME NEW t \in Tables, StartRun(t) \/ FinishRun(t) PROVE VerdictInv'
    BY <1>0, <2>3, ThreadsStay DEF StartRun, FinishRun, world, memory
  <2> QED
    BY <1>5, <2>1, <2>2, <2>3, CrashKeeps DEF Around
<1>6. CASE UNCHANGED vars
  BY <1>0, <1>6, ThreadsStay DEF vars, world, memory
<1> QED
  BY <1>1, <1>2, <1>3, <1>4, <1>5, <1>6 DEF Next

LEMMA VerdictBegins == ASSUME Init PROVE VerdictInv
<1>1. /\ \A a \in Actors : actor[a] = Idle
      /\ DOMAIN actor = Actors /\ cache = [t \in Tables |-> None] /\ estimates = <<>>
      /\ counted = [t \in Tables |-> {}] /\ mixed = {}
      /\ source \in [Tables -> Counts] /\ target \in [Tables -> Counts \cup {None}]
  BY DEF Init
<1>2. WorldOK /\ CacheOK /\ Exclusive
  BY <1>1, IdleIsThread DEF WorldOK, CacheOK, Exclusive
<1>3. \A a \in Actors : ThreadOK(a)
  BY <1>1, IdleIsThread DEF ThreadOK, Measuring, Counting
<1> QED
  BY <1>2, <1>3 DEF VerdictInv

LEMMA VerdictAlways == Spec => []VerdictInv
<1>1. Init => VerdictInv
  BY VerdictBegins
<1>2. VerdictInv /\ [Next]_vars => VerdictInv'
  BY VerdictKeeps
<1> QED
  BY <1>1, <1>2, PTL DEF Spec

(***************************************************************************)
(* The theorem.                                                            *)
(***************************************************************************)
LEMMA RecordSaysTrue ==
  ASSUME VerdictInv, NEW a \in Actors, At(a, "record")
  PROVE  LET t == actor[a].table
             said == Answer(a).verdict
             true == IF target[t] = None THEN "PENDING"
                     ELSE IF Near(source[t], target[t], Tolerance(t, source[t])) THEN "MATCH" ELSE "MISMATCH"
         IN  /\ said \in {"MATCH", "MISMATCH"} /\ t \notin mixed => Answer(a).count \in counted[t]
             /\ (actor[a].count # None /\ actor[a].quiet /\ (actor[a].rows = None => target[t] = None)) =>
                  said = true
<1> DEFINE x == actor[a]
           t == x.table
<1>1. /\ x.pc = "record" /\ x.row \in Row /\ (t \notin mixed => Exact(x.row, counted[t]))
      /\ x.quiet => Holding(x, x.row) /\ x.rows \in {target[t], None} /\ (x.count # None => x.count = source[t])
  BY ThreadReady DEF At, Fits, Measuring, Counting
<1>2. x.row # None
  BY <1>1, RowNotNone
<1>3. /\ Answer(a).verdict = Verdict(x.row, x.rows, Tolerance(t, x.row.count))
      /\ Answer(a).count = x.row.count
  BY DEF Answer
<1>4. Answer(a).verdict \in {"MATCH", "MISMATCH"} /\ t \notin mixed => Answer(a).count \in counted[t]
  BY <1>1, <1>2, <1>3 DEF Verdict, Exact
<1>5. ASSUME x.count # None, x.quiet, x.rows = None => target[t] = None
      PROVE  Answer(a).verdict = IF target[t] = None THEN "PENDING"
               ELSE IF Near(source[t], target[t], Tolerance(t, source[t])) THEN "MATCH" ELSE "MISMATCH"
  <2>1. x.row.mode = "exact" /\ x.row.count = source[t] /\ x.row.count # None /\ x.rows = target[t]
    BY <1>1, <1>5 DEF Holding
  <2> QED
    BY <1>2, <1>3, <2>1 DEF Verdict
<1> QED
  BY <1>4, <1>5

\* A verify says MATCH or MISMATCH only of a number an exact count returned, as long
\* as no two threads saved the table's count at once; and it says what is true when both
\* counts were answered, no row moved and nobody saved the count beside it, however the
\* queue, the synchronous requests and the loop of estimates interleave.
THEOREM OfficialVerdictHolds == Spec => OfficialVerdictIsTrue
<1> DEFINE T(a) == actor[a].table
           Right(a) ==
             LET said == Answer(a).verdict
                 true == IF target[T(a)] = None THEN "PENDING"
                         ELSE IF Near(source[T(a)], target[T(a)], Tolerance(T(a), source[T(a)])) THEN "MATCH" ELSE "MISMATCH"
             IN  /\ said \in {"MATCH", "MISMATCH"} /\ T(a) \notin mixed => Answer(a).count \in counted[T(a)]
                 /\ (actor[a].count # None /\ actor[a].quiet /\ (actor[a].rows = None => target[T(a)] = None)) =>
                      said = true
<1>1. VerdictInv => \A a \in Actors : Record(a) => Right(a)
  BY RecordSaysTrue DEF Record
<1> QED
  BY <1>1, VerdictAlways, PTL DEF OfficialVerdictIsTrue

(***************************************************************************)
(* The batches.  Sequences first: what a put, a take and the dropping of   *)
(* repeated names do to the set of what is waiting.                        *)
(***************************************************************************)
Names == Tables \cup Strangers

Distinct(s) == \A i, j \in DOMAIN s : s[i] = s[j] => i = j

\* what the first i names leave: c.S is a set the names are of, c.names the names
SeenHolds(c, i, seen) == /\ seen \in Seq(c.S) /\ Distinct(seen)
                         /\ ToSet(seen) = {c.names[k] : k \in 1..i}

Noticing == INSTANCE LeftFold WITH Op <- Noticed, Holds <- SeenHolds

LEMMA AppendIs ==
  ASSUME NEW S, NEW seq \in Seq(S), NEW e \in S, Distinct(seq), e \notin ToSet(seq)
  PROVE  /\ Append(seq, e) \in Seq(S) /\ Distinct(Append(seq, e))
         /\ ToSet(Append(seq, e)) = ToSet(seq) \cup {e}
<1>1. Append(seq, e) \in Seq(S) /\ Len(Append(seq, e)) = Len(seq) + 1
  OBVIOUS
<1>2. \A i \in 1..Len(seq) : Append(seq, e)[i] = seq[i] /\ seq[i] # e
  BY DEF ToSet
<1>3. Append(seq, e)[Len(seq) + 1] = e
  OBVIOUS
<1>4. DOMAIN seq = 1..Len(seq) /\ DOMAIN Append(seq, e) = 1..(Len(seq) + 1) /\ Len(seq) \in Nat
  BY <1>1
<1> DEFINE n == Len(seq)
           new == Append(seq, e)
<1> HIDE DEF n, new
<1>5. n \in Nat /\ DOMAIN seq = 1..n /\ DOMAIN new = 1..(n + 1) /\ new[n + 1] = e
      /\ \A i \in 1..n : new[i] = seq[i] /\ seq[i] # e
  BY <1>2, <1>3, <1>4 DEF n, new
<1>6. Distinct(new)
  BY <1>5 DEF Distinct
<1>7. ToSet(new) = ToSet(seq) \cup {e}
  BY <1>5 DEF ToSet
<1> QED
  BY <1>1, <1>6, <1>7 DEF new

LEMMA TailIs ==
  ASSUME NEW S, NEW seq \in Seq(S), Distinct(seq), seq # <<>>
  PROVE  /\ Tail(seq) \in Seq(S) /\ Distinct(Tail(seq)) /\ Head(seq) \in S
         /\ Head(seq) \in ToSet(seq) /\ ToSet(Tail(seq)) = ToSet(seq) \ {Head(seq)}
<1> DEFINE n == Len(seq)
           new == Tail(seq)
<1>1. /\ Tail(seq) \in Seq(S) /\ Head(seq) \in S /\ n \in Nat \ {0} /\ Head(seq) = seq[1]
      /\ Len(Tail(seq)) = n - 1
  OBVIOUS
<1>2. DOMAIN seq = 1..n /\ DOMAIN new = 1..(n - 1) /\ \A i \in 1..(n - 1) : new[i] = seq[i + 1]
  BY <1>1
<1> HIDE DEF n, new
<1>3. \A i, j \in 1..n : seq[i] = seq[j] => i = j
  BY <1>2 DEF Distinct
<1>4. Distinct(new)
  <2> SUFFICES ASSUME NEW i \in 1..(n - 1), NEW j \in 1..(n - 1), new[i] = new[j] PROVE i = j
    BY <1>2 DEF Distinct
  <2>1. i + 1 \in 1..n /\ j + 1 \in 1..n /\ seq[i + 1] = seq[j + 1]
    BY <1>1, <1>2
  <2>2. i + 1 = j + 1
    BY <1>3, <2>1
  <2> QED
    BY <2>2
<1>5. ToSet(new) = {seq[i] : i \in 2..n}
  <2>1. \A i \in 1..(n - 1) : i + 1 \in 2..n
    BY <1>1
  <2>2. \A i \in 2..n : i - 1 \in 1..(n - 1) /\ (i - 1) + 1 = i
    BY <1>1
  <2> QED
    BY <1>2, <2>1, <2>2 DEF ToSet
<1>6. 1 \in 1..n /\ \A i \in 1..n : i # 1 <=> i \in 2..n
  BY <1>1
<1>7. {seq[i] : i \in 2..n} = ToSet(seq) \ {seq[1]}
  BY <1>2, <1>3, <1>6 DEF ToSet
<1> QED
  BY <1>1, <1>2, <1>4, <1>5, <1>6, <1>7 DEF new, ToSet

LEMMA NoticedIs ==
  ASSUME NEW S, NEW seen \in Seq(S), NEW name \in S, Distinct(seen)
  PROVE  /\ Noticed(seen, name) \in Seq(S) /\ Distinct(Noticed(seen, name))
         /\ ToSet(Noticed(seen, name)) = ToSet(seen) \cup {name}
  BY AppendIs DEF Noticed

LEMMA SeenFolds == ASSUME NEW names PROVE Seen(names) = Noticing!Folded(<<>>, names)
  BY DEF Seen, Noticing!Folded, FoldLeft, Noticing!FoldLeft, MapThenFoldSet, Noticing!MapThenFoldSet,
         Max, Noticing!Max

LEMMA SeenIs ==
  ASSUME NEW S, NEW names \in Seq(S)
  PROVE  /\ Seen(names) \in Seq(S) /\ Distinct(Seen(names))
         /\ ToSet(Seen(names)) = ToSet(names)
<1> DEFINE n == Len(names)
           c == [S |-> S, names |-> names]
           none == <<>>
<1>1. n \in Nat /\ DOMAIN names = 1..n /\ \A i \in 1..n : names[i] \in S
  OBVIOUS
<1>2. c.S = S /\ c.names = names
  OBVIOUS
<1>3. none \in Seq(S) /\ Distinct(none) /\ ToSet(none) = {} /\ {names[k] : k \in 1..0} = {}
  <2>1. none \in Seq(S) /\ DOMAIN none = {} /\ 1..0 = {}
    OBVIOUS
  <2> QED
    BY <2>1 DEF Distinct, ToSet
<1> HIDE DEF n, c, none
<1>4. SeenHolds(c, 0, none)
  BY <1>2, <1>3 DEF SeenHolds
<1>5. ASSUME NEW i \in 1..n, NEW seen, SeenHolds(c, i - 1, seen)
      PROVE  SeenHolds(c, i, Noticed(seen, names[i]))
  <2> DEFINE name == names[i]
  <2>1. seen \in Seq(S) /\ name \in S /\ Distinct(seen) /\ ToSet(seen) = {names[k] : k \in 1..(i - 1)}
    BY <1>1, <1>2, <1>5 DEF SeenHolds
  <2>2. {names[k] : k \in 1..i} = {names[k] : k \in 1..(i - 1)} \cup {name}
    BY <1>1
  <2> HIDE DEF name
  <2>3. /\ Noticed(seen, name) \in Seq(S) /\ Distinct(Noticed(seen, name))
        /\ ToSet(Noticed(seen, name)) = ToSet(seen) \cup {name}
    BY <2>1, NoticedIs
  <2> QED
    BY <1>2, <2>1, <2>2, <2>3 DEF SeenHolds, name
<1>6. SeenHolds(c, n, Noticing!Folded(none, names))
  BY <1>1, <1>4, <1>5, Noticing!FoldInduction
<1>7. Seen(names) = Noticing!Folded(none, names)
  BY SeenFolds DEF none
<1>8. /\ Seen(names) \in Seq(S) /\ Distinct(Seen(names))
      /\ ToSet(Seen(names)) = {names[k] : k \in 1..n}
  BY <1>2, <1>6, <1>7 DEF SeenHolds
<1>9. {names[k] : k \in 1..n} = ToSet(names)
  BY <1>1 DEF ToSet
<1> QED
  BY <1>8, <1>9

LEMMA EmptySet == DOMAIN <<>> = {} /\ ToSet(<<>>) = {}
  BY DEF ToSet

LEMMA SomeName ==
  ASSUME NEW S, NEW seq \in Seq(S)
  PROVE  seq = <<>> <=> ToSet(seq) = {}
<1>1. seq # <<>> => seq[1] \in ToSet(seq)
  BY DEF ToSet
<1> QED
  BY <1>1, EmptySet

(***************************************************************************)
(* Where each name of a batch is.                                          *)
(***************************************************************************)
PosterState == [batch : Nat, started : BOOLEAN, rest : Seq(Names)]

\* a name of a known batch and what became of it
Stands(b, name, what) == b \in DOMAIN status /\ name \in DOMAIN status[b] /\ status[b][name] = what

\* a request has still to put the name in the queue
Carries(p, b, name) == poster[p] # None /\ poster[p].batch = b /\ name \in ToSet(poster[p].rest)

Waits(b, name) == <<b, name>> \in ToSet(queue)

Holds(b, name) == ~At(Worker, "idle") /\ actor[Worker].batch = b /\ actor[Worker].table = name

BatchesOK ==
  /\ used \in [posts : Nat, others : Nat, events : Nat]
  /\ DOMAIN status \subseteq 1..used.posts
  /\ \A b \in DOMAIN status : DOMAIN status[b] \subseteq Names

PostersOK ==
  /\ DOMAIN poster = Posters
  /\ \A p \in Posters : poster[p] # None =>
       poster[p] \in PosterState /\ poster[p].rest # <<>> /\ Distinct(poster[p].rest)
  /\ \A p, q \in Posters : p # q /\ poster[p] # None /\ poster[q] # None => poster[p].batch # poster[q].batch
  /\ \A p \in Posters : \A b, name : Carries(p, b, name) => Stands(b, name, "queued") /\ ~Waits(b, name)

QueueOK ==
  /\ queue \in Seq(Nat \X Names) /\ Distinct(queue)
  /\ \A b, name : Waits(b, name) => Stands(b, name, "queued")

NoneForgotten ==
  \A b, name : Stands(b, name, "queued") => Waits(b, name) \/ \E p \in Posters : Carries(p, b, name)

WorkerOK ==
  /\ DOMAIN actor = Actors /\ IsThread(actor[Worker])
  /\ \A b, name : Holds(b, name) <=> Stands(b, name, "running")

JobsInv == BatchesOK /\ PostersOK /\ QueueOK /\ NoneForgotten /\ WorkerOK

-----------------------------------------------------------------------------
LEMMA JobsBegin == ASSUME Init PROVE JobsInv
<1>1. status = <<>> /\ queue = <<>> /\ poster = [p \in Posters |-> None] /\ used = [posts |-> 0, others |-> 0, events |-> 0]
  BY DEF Init
<1>2. actor[Worker] = Idle /\ DOMAIN actor = Actors
  BY DEF Init, Actors
<1>3. \A b, name, what : ~Stands(b, name, what) /\ ~Waits(b, name)
  BY <1>1, EmptySet DEF Stands, Waits
<1>4. \A b, name : ~Holds(b, name)
  BY <1>2 DEF Holds, At, Idle
<1>5. \A p \in Posters : \A b, name : ~Carries(p, b, name)
  BY <1>1 DEF Carries
<1>6. BatchesOK
  BY <1>1, EmptySet DEF BatchesOK
<1>7. PostersOK
  BY <1>1, <1>5 DEF PostersOK
<1>8. QueueOK
  BY <1>1, <1>3, EmptySet DEF QueueOK, Distinct
<1>9. IsThread(actor[Worker])
  BY <1>2 DEF IsThread, Idle
<1> QED
  BY <1>2, <1>3, <1>4, <1>6, <1>7, <1>8, <1>9 DEF JobsInv, NoneForgotten, WorkerOK

\* steps of a thread within a verify, and of the world around
LEMMA JobsStay ==
  ASSUME JobsInv, UNCHANGED <<status, queue, poster>>,
         used' \in [posts : Nat, others : Nat, events : Nat], used'.posts = used.posts,
         DOMAIN actor' = Actors, IsThread(actor'[Worker]),
         actor'[Worker].pc = "idle" <=> actor[Worker].pc = "idle",
         actor'[Worker].batch = actor[Worker].batch, actor'[Worker].table = actor[Worker].table
  PROVE  JobsInv'
<1>1. \A b, name, what : Stands(b, name, what)' <=> Stands(b, name, what)
  BY DEF Stands
<1>2. \A b, name : Waits(b, name)' <=> Waits(b, name)
  BY DEF Waits
<1>3. \A p, b, name : Carries(p, b, name)' <=> Carries(p, b, name)
  BY DEF Carries
<1>4. \A b, name : Holds(b, name)' <=> Holds(b, name)
  BY DEF Holds, At
<1>5. BatchesOK'
  BY DEF JobsInv, BatchesOK
<1>6. PostersOK'
  BY <1>1, <1>2, <1>3 DEF JobsInv, PostersOK
<1>7. QueueOK'
  BY <1>1, <1>2 DEF JobsInv, QueueOK
<1>8. NoneForgotten'
  BY <1>1, <1>2, <1>3 DEF JobsInv, NoneForgotten
<1>9. WorkerOK'
  BY <1>1, <1>4 DEF JobsInv, WorkerOK
<1> QED
  BY <1>5, <1>6, <1>7, <1>8, <1>9 DEF JobsInv

\* a thread takes a step of a verify, and stays in it
LEMMA OnItsWay ==
  ASSUME JobsInv, UNCHANGED <<status, queue, poster>>,
         used' \in [posts : Nat, others : Nat, events : Nat], used'.posts = used.posts,
         NEW a \in Actors, NEW new, actor' = [actor EXCEPT ![a] = new],
         a = Worker => /\ IsThread(new) /\ (new.pc = "idle" <=> actor[a].pc = "idle")
                       /\ new.batch = actor[a].batch /\ new.table = actor[a].table
  PROVE  JobsInv'
<1>1. DOMAIN actor' = Actors /\ Worker \in Actors /\ actor'[Worker] = IF a = Worker THEN new ELSE actor[Worker]
  BY DEF JobsInv, WorkerOK, Actors
<1>2. IsThread(actor[Worker])
  BY DEF JobsInv, WorkerOK
<1> QED
  BY <1>1, <1>2, JobsStay

LEMMA UseIs ==
  ASSUME JobsInv, Use("events") \/ Use("others") \/ UNCHANGED used
  PROVE  used' \in [posts : Nat, others : Nat, events : Nat] /\ used'.posts = used.posts
  BY DEF JobsInv, BatchesOK, Use

LEMMA StepStays ==
  ASSUME JobsInv, NEW a \in Actors,
         CountTarget(a) \/ CountSource(a) \/ Look(a) \/ Commit(a) \/ Refresh(a)
  PROVE  JobsInv'
<1> DEFINE x == actor[a]
<1>1. a = Worker => IsThread(x)
  BY DEF JobsInv, WorkerOK
<1>2. used' \in [posts : Nat, others : Nat, events : Nat] /\ used'.posts = used.posts
  BY UseIs DEF CountTarget, CountSource, Look, Commit, Refresh
<1>3. UNCHANGED <<status, queue, poster>>
  BY DEF CountTarget, CountSource, Look, Commit, Refresh
<1>4. CASE CountTarget(a)
  <2>1. /\ x.pc # "idle"
        /\ \E rows \in {target[x.table], None} : actor' = [actor EXCEPT ![a] = [x EXCEPT !.rows = rows, !.pc = "source"]]
    BY <1>4 DEF CountTarget, At
  <2> QED
    BY <1>1, <1>2, <1>3, <2>1, OnItsWay DEF IsThread
<1>5. CASE CountSource(a)
  <2>1. /\ x.pc # "idle"
        /\ \/ actor' = [actor EXCEPT ![a] = [x EXCEPT !.count = source[x.table], !.pc = "look"]]
           \/ actor' = [actor EXCEPT ![a] = [x EXCEPT !.pc = "look"]]
    BY <1>5 DEF CountSource, At
  <2> QED
    BY <1>1, <1>2, <1>3, <2>1, OnItsWay DEF IsThread
<1>6. CASE Look(a)
  <2> DEFINE w == actor[Worker]
             disturbed == IF Beside(a) = {} THEN {} ELSE Beside(a) \cup {a}
  <2>1. IsThread(w) /\ Worker \in Actors
    BY DEF JobsInv, WorkerOK, Actors
  <2>2. /\ x.pc # "idle" /\ DOMAIN actor' = Actors
        /\ actor'[Worker] = [w EXCEPT !.row = IF Worker = a THEN cache[x.table] ELSE @,
                                      !.pc = IF Worker = a THEN "commit" ELSE @,
                                      !.quiet = @ /\ Worker \notin disturbed]
    BY <1>6, <2>1 DEF Look, At
  <2> HIDE DEF disturbed
  <2>3. /\ IsThread(actor'[Worker]) /\ (actor'[Worker].pc = "idle" <=> w.pc = "idle")
        /\ actor'[Worker].batch = w.batch /\ actor'[Worker].table = w.table
    BY <2>1, <2>2 DEF IsThread
  <2> QED
    BY <1>2, <1>3, <2>2, <2>3, JobsStay
<1>7. CASE Commit(a)
  <2>1. x.pc # "idle" /\ actor' = [actor EXCEPT ![a] = [x EXCEPT !.pc = "refresh"]]
    BY <1>7 DEF Commit, At
  <2> QED
    BY <1>1, <1>2, <1>3, <2>1, OnItsWay DEF IsThread
<1>8. CASE Refresh(a)
  <2>1. x.pc # "idle" /\ actor' = [actor EXCEPT ![a] = [x EXCEPT !.row = cache[x.table], !.pc = "record"]]
    BY <1>8 DEF Refresh, At
  <2> QED
    BY <1>1, <1>2, <1>3, <2>1, OnItsWay DEF IsThread
<1> QED
  BY <1>4, <1>5, <1>6, <1>7, <1>8

LEMMA BegunIs ==
  ASSUME NEW name, NEW b
  PROVE  IsThread(Begun(name, b)) /\ Begun(name, b).pc # "idle" /\ Begun(name, b).batch = b /\ Begun(name, b).table = name
  BY DEF Begun, IsThread, Idle

\* a verify ends: of all names, the one the worker holds becomes what was found
LEMMA WorkerRests ==
  ASSUME JobsInv, NEW a \in Actors, ~At(a, "idle"), NEW what \in {"done", "error"}, Rest(a, what),
         UNCHANGED <<queue, poster>>,
         used' \in [posts : Nat, others : Nat, events : Nat], used'.posts = used.posts
  PROVE  JobsInv'
<1>1. CASE a # Worker
  <2>1. actor' = [actor EXCEPT ![a] = Idle] /\ UNCHANGED <<status, queue, poster>>
    BY <1>1 DEF Rest
  <2> QED
    BY <1>1, <2>1, OnItsWay
<1>2. CASE a = Worker
  <2> DEFINE b == actor[Worker].batch
             t == actor[Worker].table
  <2>1. Holds(b, t) /\ Stands(b, t, "running")
    BY <1>2 DEF Holds, JobsInv, WorkerOK
  <2>2. status' = [status EXCEPT ![b][t] = what] /\ actor' = [actor EXCEPT ![Worker] = Idle]
    BY <1>2, <2>1 DEF Rest, Noted, Stands
  <2>3. /\ DOMAIN status' = DOMAIN status /\ \A c \in DOMAIN status : DOMAIN status'[c] = DOMAIN status[c]
        /\ \A c, n, w : Stands(c, n, w)' <=> IF c = b /\ n = t THEN w = what ELSE Stands(c, n, w)
    BY <2>1, <2>2 DEF Stands
  <2>4. actor'[Worker] = Idle /\ DOMAIN actor' = Actors
    BY <2>2 DEF JobsInv, WorkerOK, Actors
  <2>5. \A c, n : ~Holds(c, n)'
    BY <2>4 DEF Holds, At, Idle
  <2>6. \A c, n : Waits(c, n)' <=> Waits(c, n)
    BY DEF Waits
  <2>7. \A p, c, n : Carries(p, c, n)' <=> Carries(p, c, n)
    BY DEF Carries
  <2>8. \A w : Stands(b, t, w) => w = "running"
    BY <2>1 DEF Stands
  <2>9. BatchesOK'
    BY <2>3 DEF JobsInv, BatchesOK
  <2>10. PostersOK'
    BY <2>3, <2>6, <2>7, <2>8 DEF JobsInv, PostersOK
  <2>11. QueueOK'
    BY <2>3, <2>6, <2>8 DEF JobsInv, QueueOK
  <2>12. NoneForgotten'
    BY <2>3, <2>6, <2>7 DEF JobsInv, NoneForgotten
  <2>13. WorkerOK'
    <3>1. \A c, n : Stands(c, n, "running") => c = b /\ n = t
      BY DEF Holds, JobsInv, WorkerOK
    <3>2. IsThread(actor'[Worker])
      BY <2>4 DEF IsThread, Idle
    <3> QED
      BY <2>3, <2>4, <2>5, <3>1, <3>2 DEF WorkerOK
  <2> QED
    BY <2>9, <2>10, <2>11, <2>12, <2>13 DEF JobsInv
<1> QED
  BY <1>1, <1>2

LEMMA TakeKeeps == ASSUME JobsInv, Take PROVE JobsInv'
<1> DEFINE job == Head(queue)
           b == job[1]
           t == job[2]
           new == Begun(t, b)
<1>1. /\ At(Worker, "idle") /\ queue # <<>> /\ queue' = Tail(queue) /\ status' = Noted(b, t, "running")
      /\ actor' = [actor EXCEPT ![Worker] = new] /\ UNCHANGED <<poster, used>>
  BY DEF Take
<1>2. /\ queue' \in Seq(Nat \X Names) /\ Distinct(queue') /\ job \in Nat \X Names /\ job \in ToSet(queue)
      /\ ToSet(queue') = ToSet(queue) \ {job}
  BY <1>1, TailIs DEF JobsInv, QueueOK
<1>3. job = <<b, t>>
  BY <1>2
<1>4. Waits(b, t) /\ Stands(b, t, "queued")
  BY <1>2, <1>3 DEF Waits, JobsInv, QueueOK
<1>5. new.pc # "idle" /\ new.batch = b /\ new.table = t /\ IsThread(new)
  BY BegunIs
<1>6. status' = [status EXCEPT ![b][t] = "running"]
  BY <1>1, <1>4 DEF Noted, Stands
<1> HIDE DEF new
<1>7. /\ DOMAIN status' = DOMAIN status /\ \A c \in DOMAIN status : DOMAIN status'[c] = DOMAIN status[c]
      /\ \A c, n, w : Stands(c, n, w)' <=> IF c = b /\ n = t THEN w = "running" ELSE Stands(c, n, w)
  BY <1>4, <1>6 DEF Stands
<1>8. actor'[Worker] = new /\ DOMAIN actor' = Actors
  BY <1>1 DEF JobsInv, WorkerOK, Actors
<1>9. \A c, n : Holds(c, n)' <=> c = b /\ n = t
  BY <1>5, <1>8 DEF Holds, At
<1>10. \A c, n : Waits(c, n)' <=> Waits(c, n) /\ ~(c = b /\ n = t)
  BY <1>2, <1>3 DEF Waits
<1>11. \A p, c, n : Carries(p, c, n)' <=> Carries(p, c, n)
  BY <1>1 DEF Carries
<1>12. \A p \in Posters : ~Carries(p, b, t)
  BY <1>4 DEF JobsInv, PostersOK
<1>13. BatchesOK'
  BY <1>1, <1>7 DEF JobsInv, BatchesOK
<1>14. PostersOK'
  BY <1>1, <1>7, <1>10, <1>11, <1>12 DEF JobsInv, PostersOK
<1>15. QueueOK'
  BY <1>2, <1>7, <1>10 DEF JobsInv, QueueOK
<1>16. NoneForgotten'
  BY <1>7, <1>10, <1>11 DEF JobsInv, NoneForgotten
<1>17. WorkerOK'
  <2>1. \A c, n : ~Stands(c, n, "running")
    BY <1>1 DEF Holds, JobsInv, WorkerOK
  <2> QED
    BY <1>5, <1>7, <1>8, <1>9, <2>1 DEF WorkerOK
<1> QED
  BY <1>13, <1>14, <1>15, <1>16, <1>17 DEF JobsInv

LEMMA EnsureWorkerKeeps == ASSUME JobsInv, NEW p \in Posters, EnsureWorker(p) PROVE JobsInv'
<1>1. /\ poster[p] # None /\ poster' = [poster EXCEPT ![p].started = TRUE]
      /\ UNCHANGED <<status, queue, actor, used>>
  BY DEF EnsureWorker
<1>2. poster[p] \in PosterState /\ DOMAIN poster = Posters
  BY <1>1 DEF JobsInv, PostersOK
<1> DEFINE new == [poster[p] EXCEPT !.started = TRUE]
<1>3. new \in PosterState /\ new.batch = poster[p].batch /\ new.rest = poster[p].rest
  BY <1>2 DEF PosterState
<1>4. new # None
  BY <1>3, VerifyAssumption DEF PosterState, Names
<1>5. DOMAIN poster' = Posters /\ \A q \in Posters : poster'[q] = IF q = p THEN new ELSE poster[q]
  BY <1>1, <1>2
<1> HIDE DEF new
<1>6. \A q \in Posters : \A b, name : Carries(q, b, name)' <=> Carries(q, b, name)
  BY <1>1, <1>3, <1>4, <1>5 DEF Carries
<1>7. \A b, name, what : Stands(b, name, what)' <=> Stands(b, name, what)
  BY <1>1 DEF Stands
<1>8. \A b, name : (Waits(b, name)' <=> Waits(b, name)) /\ (Holds(b, name)' <=> Holds(b, name))
  BY <1>1 DEF Waits, Holds, At
<1>9. BatchesOK' /\ QueueOK'
  BY <1>1, <1>7, <1>8 DEF JobsInv, BatchesOK, QueueOK
<1>10. PostersOK'
  <2>1. \A q \in Posters : poster'[q] # None =>
          poster'[q] \in PosterState /\ poster'[q].rest # <<>> /\ Distinct(poster'[q].rest)
    BY <1>1, <1>3, <1>5 DEF JobsInv, PostersOK
  <2>2. \A q, r \in Posters : q # r /\ poster'[q] # None /\ poster'[r] # None => poster'[q].batch # poster'[r].batch
    BY <1>1, <1>3, <1>5 DEF JobsInv, PostersOK
  <2> QED
    BY <1>5, <1>6, <1>7, <1>8, <2>1, <2>2 DEF JobsInv, PostersOK
<1>11. NoneForgotten'
  BY <1>6, <1>7, <1>8 DEF JobsInv, NoneForgotten
<1>12. WorkerOK'
  BY <1>1, <1>7, <1>8 DEF JobsInv, WorkerOK
<1> QED
  BY <1>9, <1>10, <1>11, <1>12 DEF JobsInv

LEMMA PutKeeps == ASSUME JobsInv, NEW p \in Posters, Put(p) PROVE JobsInv'
<1> DEFINE b == poster[p].batch
           all == poster[p].rest
           t == Head(all)
           rest == Tail(all)
           new == IF rest = <<>> THEN None ELSE [poster[p] EXCEPT !.rest = rest]
<1>1. /\ poster[p] # None /\ queue' = Append(queue, <<b, t>>)
      /\ poster' = [poster EXCEPT ![p] = new] /\ UNCHANGED <<status, actor, used>>
  BY DEF Put
<1>2. /\ poster[p] \in PosterState /\ DOMAIN poster = Posters
      /\ all # <<>> /\ Distinct(all) /\ all \in Seq(Names) /\ b \in Nat
  BY <1>1 DEF JobsInv, PostersOK, PosterState
<1>3. /\ rest \in Seq(Names) /\ Distinct(rest) /\ t \in Names /\ t \in ToSet(all)
      /\ ToSet(rest) = ToSet(all) \ {t}
  BY <1>2, TailIs
<1>4. Carries(p, b, t)
  BY <1>1, <1>3 DEF Carries
<1>5. Stands(b, t, "queued") /\ ~Waits(b, t)
  BY <1>4 DEF JobsInv, PostersOK
<1>6. /\ queue' \in Seq(Nat \X Names) /\ Distinct(queue') /\ ToSet(queue') = ToSet(queue) \cup {<<b, t>>}
  <2>1. queue \in Seq(Nat \X Names) /\ Distinct(queue) /\ <<b, t>> \in Nat \X Names /\ <<b, t>> \notin ToSet(queue)
    BY <1>2, <1>3, <1>5 DEF Waits, JobsInv, QueueOK
  <2> DEFINE S == Nat \X Names
             e == <<b, t>>
  <2>2. queue \in Seq(S) /\ e \in S /\ Distinct(queue) /\ e \notin ToSet(queue)
    BY <2>1
  <2> HIDE DEF S, e
  <2>3. /\ Append(queue, e) \in Seq(S) /\ Distinct(Append(queue, e))
        /\ ToSet(Append(queue, e)) = ToSet(queue) \cup {e}
    BY <2>2, AppendIs
  <2> QED
    BY <1>1, <2>3 DEF S, e
<1>7. new # None => new \in PosterState /\ new.batch = b /\ new.rest = rest /\ rest # <<>>
  BY <1>2, <1>3 DEF PosterState
<1>8. \A n : new # None /\ n \in ToSet(new.rest) <=> n \in ToSet(all) /\ n # t
  <2>1. CASE rest = <<>>
    <3>1. ToSet(all) \ {t} = {}
      BY <1>3, <2>1, EmptySet
    <3> QED
      BY <2>1, <3>1
  <2>2. CASE rest # <<>>
    <3>1. [poster[p] EXCEPT !.rest = rest] \in PosterState /\ [poster[p] EXCEPT !.rest = rest].rest = rest
      BY <1>2, <1>3 DEF PosterState
    <3>2. new # None /\ new.rest = rest
      BY <2>2, <3>1, VerifyAssumption DEF PosterState, Names
    <3> QED
      BY <1>3, <3>2
  <2> QED
    BY <2>1, <2>2
<1>9. DOMAIN poster' = Posters /\ \A q \in Posters : poster'[q] = IF q = p THEN new ELSE poster[q]
  BY <1>1, <1>2
<1> HIDE DEF new, rest, t
<1>10. \A q \in Posters : \A c, n : Carries(q, c, n)' <=> Carries(q, c, n) /\ ~(q = p /\ n = t)
  <2> SUFFICES ASSUME NEW q \in Posters, NEW c, NEW n
      PROVE Carries(q, c, n)' <=> Carries(q, c, n) /\ ~(q = p /\ n = t)
    OBVIOUS
  <2>1. CASE q = p
    BY <1>1, <1>7, <1>8, <1>9, <2>1 DEF Carries
  <2>2. CASE q # p
    BY <1>9, <2>2 DEF Carries
  <2> QED
    BY <2>1, <2>2
<1>11. \A c, n, what : Stands(c, n, what)' <=> Stands(c, n, what)
  BY <1>1 DEF Stands
<1>12. \A c, n : Waits(c, n)' <=> Waits(c, n) \/ (c = b /\ n = t)
  BY <1>6 DEF Waits
<1>13. \A c, n : Holds(c, n)' <=> Holds(c, n)
  BY <1>1 DEF Holds, At
<1>14. \A q \in Posters : \A n : Carries(q, b, n) => q = p
  BY <1>1 DEF Carries, JobsInv, PostersOK
<1>15. \A c, n : Carries(p, c, n) => c = b
  BY DEF Carries
<1>16. BatchesOK'
  BY <1>1, <1>11 DEF JobsInv, BatchesOK
<1>17. PostersOK'
  <2>1. \A q \in Posters : poster'[q] # None =>
          poster'[q] \in PosterState /\ poster'[q].rest # <<>> /\ Distinct(poster'[q].rest)
    BY <1>3, <1>7, <1>9 DEF JobsInv, PostersOK
  <2>2. \A q, r \in Posters : q # r /\ poster'[q] # None /\ poster'[r] # None => poster'[q].batch # poster'[r].batch
    BY <1>1, <1>7, <1>9 DEF JobsInv, PostersOK
  <2>3. \A q \in Posters : \A c, n : Carries(q, c, n)' => Stands(c, n, "queued") /\ ~Waits(c, n) /\ ~(c = b /\ n = t)
    BY <1>10, <1>14, <1>15 DEF JobsInv, PostersOK
  <2> QED
    BY <1>9, <1>11, <1>12, <2>1, <2>2, <2>3 DEF PostersOK
<1>18. QueueOK'
  BY <1>5, <1>6, <1>11, <1>12 DEF JobsInv, QueueOK
<1>19. NoneForgotten'
  BY <1>10, <1>11, <1>12, <1>15 DEF JobsInv, NoneForgotten
<1>20. WorkerOK'
  BY <1>1, <1>11, <1>13 DEF JobsInv, WorkerOK
<1> QED
  BY <1>16, <1>17, <1>18, <1>19, <1>20 DEF JobsInv

\* what is dropped has ended
LEMMA EvictIs ==
  ASSUME NEW S
  PROVE  \E D \in SUBSET (DOMAIN S) :
           Evict(S) = [b \in D |-> S[b]] /\ \A b \in (DOMAIN S) \ D : Finished(b, S)
  BY DEF Evict, Restricted

LEMMA PostKeeps == ASSUME JobsInv, NEW p \in Posters, Post(p) PROVE JobsInv'
<1> DEFINE b == used.posts + 1
           names == Seen(Batches[b])
           told == [name \in ToSet(names) |-> "queued"]
           S == [c \in DOMAIN status \cup {b} |-> IF c = b THEN told ELSE status[c]]
           new == [batch |-> b, started |-> FALSE, rest |-> names]
<1>1. /\ poster[p] = None /\ used.posts < Len(Batches) /\ status' = Evict(S)
      /\ poster' = [poster EXCEPT ![p] = new] /\ used' = [used EXCEPT !.posts = @ + 1]
      /\ UNCHANGED <<queue, actor>>
  BY DEF Post, Use
<1>2. /\ used.posts \in Nat /\ b \in Nat /\ DOMAIN status \subseteq 1..used.posts /\ DOMAIN poster = Posters
      /\ b \notin DOMAIN status /\ used' \in [posts : Nat, others : Nat, events : Nat] /\ used'.posts = b
      /\ DOMAIN status \cup {b} \subseteq 1..b
  BY <1>1 DEF JobsInv, BatchesOK, PostersOK
<1>3. Batches[b] \in Seq(Names) /\ Batches[b] # <<>>
  BY <1>1, <1>2, VerifyAssumption DEF Names
<1>4. names \in Seq(Names) /\ Distinct(names) /\ ToSet(names) = ToSet(Batches[b])
  BY <1>3, SeenIs
<1>5. ToSet(names) # {} /\ names # <<>> /\ ToSet(names) \subseteq Names
  <2>1. ToSet(names) # {} /\ names # <<>>
    BY <1>3, <1>4, SomeName
  <2>2. ToSet(names) \subseteq Names
    BY <1>4 DEF ToSet
  <2> QED
    BY <2>1, <2>2
<1> HIDE DEF names
<1>6. DOMAIN S = DOMAIN status \cup {b} /\ S[b] = told /\ \A c \in DOMAIN status : S[c] = status[c]
  BY <1>2
<1>7. DOMAIN told = ToSet(names) /\ \A n \in ToSet(names) : told[n] = "queued"
  OBVIOUS
<1> HIDE DEF S, told
<1>8. PICK D \in SUBSET (DOMAIN S) :
        status' = [c \in D |-> S[c]] /\ \A c \in (DOMAIN S) \ D : Finished(c, S)
  BY <1>1, EvictIs
<1>9. b \in D
  <2>1. ~Finished(b, S)
    BY <1>5, <1>6, <1>7 DEF Finished
  <2> QED
    BY <1>6, <1>8, <2>1
<1>10. ASSUME NEW c, NEW n, NEW what \in {"queued", "running"}
       PROVE  Stands(c, n, what)' <=> Stands(c, n, what) \/ (c = b /\ n \in ToSet(names) /\ what = "queued")
  <2>1. CASE c = b
    BY <1>2, <1>6, <1>7, <1>8, <1>9, <2>1 DEF Stands
  <2>2. CASE c # b
    <3>1. Stands(c, n, what)' => Stands(c, n, what)
      BY <1>6, <1>8, <2>2 DEF Stands
    <3>2. Stands(c, n, what) => c \in DOMAIN S /\ ~Finished(c, S)
      BY <1>6 DEF Stands, Finished
    <3>3. Stands(c, n, what) => Stands(c, n, what)'
      BY <1>6, <1>8, <3>2 DEF Stands
    <3> QED
      BY <2>2, <3>1, <3>3
  <2> QED
    BY <2>1, <2>2
<1>11. \A c, n : (Waits(c, n)' <=> Waits(c, n)) /\ (Holds(c, n)' <=> Holds(c, n))
  BY <1>1 DEF Waits, Holds, At
<1>12. /\ new \in PosterState /\ new.batch = b /\ new.rest = names
  BY <1>2, <1>4 DEF PosterState
<1>13. new # None
  BY <1>12, VerifyAssumption DEF PosterState, Names
<1>14. DOMAIN poster' = Posters /\ \A q \in Posters : poster'[q] = IF q = p THEN new ELSE poster[q]
  BY <1>1, <1>2
<1> HIDE DEF new
<1>15. \A q \in Posters : \A c, n :
         Carries(q, c, n)' <=> IF q = p THEN c = b /\ n \in ToSet(names) ELSE Carries(q, c, n)
  BY <1>12, <1>13, <1>14 DEF Carries
<1>16. \A q \in Posters : \A c, n : Carries(q, c, n) => c # b
  BY <1>2 DEF JobsInv, PostersOK, Stands
<1>17. \A c, n : Waits(c, n) => c # b
  BY <1>2 DEF JobsInv, QueueOK, Stands
<1>18. BatchesOK'
  <2>1. \A c \in DOMAIN status' : DOMAIN status'[c] \subseteq Names
    BY <1>5, <1>6, <1>7, <1>8 DEF JobsInv, BatchesOK
  <2> QED
    BY <1>2, <1>6, <1>8, <2>1 DEF BatchesOK
<1>19. PostersOK'
  <2>1. \A q \in Posters : poster'[q] # None =>
          poster'[q] \in PosterState /\ poster'[q].rest # <<>> /\ Distinct(poster'[q].rest)
    BY <1>4, <1>5, <1>12, <1>14 DEF JobsInv, PostersOK
  <2>2. \A q \in Posters : poster[q] # None => poster[q].batch # b
    <3> SUFFICES ASSUME NEW q \in Posters, poster[q] # None PROVE poster[q].batch # b
      OBVIOUS
    <3>1. poster[q].rest \in Seq(Names) /\ poster[q].rest # <<>>
      BY DEF JobsInv, PostersOK, PosterState
    <3>2. PICK n \in ToSet(poster[q].rest) : TRUE
      BY <3>1, SomeName
    <3>3. Carries(q, poster[q].batch, n)
      BY DEF Carries
    <3> QED
      BY <1>16, <3>3
  <2>3. \A q, r \in Posters : q # r /\ poster'[q] # None /\ poster'[r] # None => poster'[q].batch # poster'[r].batch
    BY <1>1, <1>12, <1>14, <2>2 DEF JobsInv, PostersOK
  <2>4. \A q \in Posters : \A c, n : Carries(q, c, n)' => Stands(c, n, "queued")' /\ ~Waits(c, n)'
    BY <1>10, <1>11, <1>15, <1>17 DEF JobsInv, PostersOK
  <2> QED
    BY <1>14, <2>1, <2>3, <2>4 DEF PostersOK
<1>20. QueueOK'
  BY <1>1, <1>10, <1>11 DEF JobsInv, QueueOK
<1>21. NoneForgotten'
  <2> SUFFICES ASSUME NEW c, NEW n, Stands(c, n, "queued")'
      PROVE  Waits(c, n)' \/ \E q \in Posters : Carries(q, c, n)'
    BY DEF NoneForgotten
  <2>1. CASE c = b /\ n \in ToSet(names)
    BY <1>15, <2>1
  <2>2. CASE Stands(c, n, "queued")
    <3>1. Waits(c, n) \/ \E q \in Posters : Carries(q, c, n)
      BY <2>2 DEF JobsInv, NoneForgotten
    <3>2. \A q \in Posters : Carries(q, c, n) => q # p
      BY <1>1 DEF Carries
    <3> QED
      BY <1>11, <1>15, <3>1, <3>2
  <2> QED
    BY <1>10, <2>1, <2>2
<1>22. WorkerOK'
  BY <1>1, <1>10, <1>11 DEF JobsInv, WorkerOK
<1> QED
  BY <1>18, <1>19, <1>20, <1>21, <1>22 DEF JobsInv

LEMMA JobsCrash == ASSUME JobsInv, Crash PROVE JobsInv'
<1>1. /\ status' = <<>> /\ queue' = <<>> /\ poster' = [p \in Posters |-> None]
      /\ actor' = [a \in Actors |-> Idle] /\ Use("events")
  BY DEF Crash
<1>2. used' \in [posts : Nat, others : Nat, events : Nat] /\ used'.posts = used.posts
  BY <1>1, UseIs
<1>3. actor'[Worker] = Idle /\ DOMAIN actor' = Actors /\ IsThread(actor'[Worker])
  BY <1>1 DEF Actors, IsThread, Idle
<1>4. \A b, name, what : ~Stands(b, name, what)' /\ ~Waits(b, name)'
  BY <1>1, EmptySet DEF Stands, Waits
<1>5. \A b, name : ~Holds(b, name)'
  BY <1>3 DEF Holds, At, Idle
<1>6. \A p \in Posters : \A b, name : ~Carries(p, b, name)'
  BY <1>1 DEF Carries
<1>7. BatchesOK'
  BY <1>1, <1>2, EmptySet DEF BatchesOK
<1>8. PostersOK'
  BY <1>1, <1>6 DEF PostersOK
<1>9. QueueOK'
  BY <1>1, <1>4, EmptySet DEF QueueOK, Distinct
<1> QED
  BY <1>3, <1>4, <1>5, <1>7, <1>8, <1>9 DEF JobsInv, NoneForgotten, WorkerOK

LEMMA JobsKeep == ASSUME JobsInv, [Next]_vars PROVE JobsInv'
<1>0. IsThread(actor[Worker]) /\ DOMAIN actor = Actors /\ Worker \in Actors
  BY DEF JobsInv, WorkerOK, Actors
<1>1. ASSUME NEW a \in Actors, Step(a) PROVE JobsInv'
  <2>1. CASE Record(a)
    <3>1. ~At(a, "idle") /\ Rest(a, "done") /\ UNCHANGED <<queue, poster, used>>
      BY <2>1 DEF Record, At
    <3> QED
      BY <3>1, UseIs, WorkerRests
  <2>2. CASE Fail(a)
    <3>1. /\ ~At(a, "idle") /\ Rest(a, "error") /\ UNCHANGED <<queue, poster>>
          /\ Use("events") \/ UNCHANGED used
      BY <2>2 DEF Fail, At
    <3> QED
      BY <3>1, UseIs, WorkerRests
  <2> QED
    BY <1>1, <2>1, <2>2, StepStays DEF Step
<1>2. ASSUME NEW a \in Requests, NEW t \in Tables, Request(a, t) PROVE JobsInv'
  <2>1. /\ actor' = [actor EXCEPT ![a] = Begun(t, 0)] /\ Use("others")
        /\ UNCHANGED <<status, queue, poster>> /\ a \in Actors /\ a # Worker
    BY <1>2, VerifyAssumption DEF Request, Actors
  <2> QED
    BY <2>1, UseIs, OnItsWay
<1>3. CASE Queue
  <2>1. CASE Unknown
    <3>1. ~At(Worker, "idle") /\ Rest(Worker, "error") /\ UNCHANGED <<queue, poster, used>>
      BY <2>1 DEF Unknown, At
    <3> QED
      BY <1>0, <3>1, UseIs, WorkerRests
  <2> QED
    BY <1>3, <2>1, TakeKeeps, PostKeeps, EnsureWorkerKeeps, PutKeeps DEF Queue
<1>4. CASE Estimating
  <2>1. Loop \in Actors /\ Loop # Worker
    BY VerifyAssumption DEF Actors
  <2>2. CASE Estimate
    <3>1. UNCHANGED <<status, queue, poster, actor>> /\ Use("others")
      BY <2>2 DEF Estimate
    <3> QED
      BY <1>0, <3>1, UseIs, JobsStay
  <2>3. CASE NextEstimate
    <3>1. PICK new : actor' = [actor EXCEPT ![Loop] = new]
      BY <2>3 DEF NextEstimate
    <3>2. UNCHANGED <<status, queue, poster, used>>
      BY <2>3 DEF NextEstimate
    <3> QED
      BY <2>1, <3>1, <3>2, UseIs, OnItsWay
  <2>4. CASE EndEstimate
    <3>1. actor' = [actor EXCEPT ![Loop] = Idle] /\ UNCHANGED <<status, queue, poster, used>>
      BY <2>1, <2>4 DEF EndEstimate, Rest
    <3> QED
      BY <2>1, <3>1, UseIs, OnItsWay
  <2> QED
    BY <1>4, <2>2, <2>3, <2>4 DEF Estimating
<1>5. CASE Around
  <2>1. ASSUME NEW t \in Tables, Moves(t) PROVE JobsInv'
    <3>1. /\ Use("events") /\ UNCHANGED <<status, queue, poster>>
          /\ actor' = [a \in Actors |-> IF actor[a].table = t THEN [actor[a] EXCEPT !.quiet = FALSE] ELSE actor[a]]
      BY <2>1 DEF Moves
    <3>2. actor'[Worker] = IF actor[Worker].table = t THEN [actor[Worker] EXCEPT !.quiet = FALSE] ELSE actor[Worker]
      BY <1>0, <3>1
    <3>3. /\ IsThread(actor'[Worker]) /\ actor'[Worker].pc = actor[Worker].pc
          /\ actor'[Worker].batch = actor[Worker].batch /\ actor'[Worker].table = actor[Worker].table
      BY <1>0, <3>2 DEF IsThread
    <3> QED
      BY <3>1, <3>3, UseIs, JobsStay
  <2>2. ASSUME NEW t \in Tables, SourceGrows(t) \/ TargetLoads(t) PROVE JobsInv'
    BY <2>1, <2>2 DEF SourceGrows, TargetLoads
  <2>3. ASSUME NEW t \in Tables, StartRun(t) \/ FinishRun(t) PROVE JobsInv'
    <3>1. UNCHANGED <<status, queue, poster, actor>> /\ (Use("events") \/ UNCHANGED used)
      BY <2>3 DEF StartRun, FinishRun, memory
    <3> QED
      BY <1>0, <3>1, UseIs, JobsStay
  <2> QED
    BY <1>5, <2>2, <2>3, JobsCrash DEF Around
<1>6. CASE UNCHANGED vars
  <2>1. UNCHANGED <<status, queue, poster, actor, used>>
    BY <1>6 DEF vars, memory
  <2> QED
    BY <1>0, <2>1, UseIs, JobsStay
<1> QED
  BY <1>1, <1>2, <1>3, <1>4, <1>5, <1>6 DEF Next

LEMMA JobsSay == ASSUME JobsInv PROVE JobsAccounted
<1> DEFINE slots(j) == {i \in DOMAIN queue : queue[i] = j}
           hands(j) == {p \in Posters : poster[p] # None /\ poster[p].batch = j[1] /\ j[2] \in ToSet(poster[p].rest)}
<1>1. ASSUME NEW b \in DOMAIN status, NEW name \in DOMAIN status[b]
      PROVE  Cardinality(slots(<<b, name>>)) + Cardinality(hands(<<b, name>>))
               = IF status[b][name] = "queued" THEN 1 ELSE 0
  <2> DEFINE j == <<b, name>>
             S == slots(j)
             H == hands(j)
  <2>1. H = {p \in Posters : Carries(p, b, name)}
    BY DEF Carries
  <2>2. /\ S = {} <=> ~Waits(b, name)
        /\ \A i, k \in S : i = k
    BY DEF Waits, ToSet, JobsInv, QueueOK, Distinct
  <2>3. \A p, q \in H : p = q
    BY <2>1 DEF Carries, JobsInv, PostersOK
  <2>4. \A T : (\A i, k \in T : i = k) => Cardinality(T) = IF T = {} THEN 0 ELSE 1
    <3> SUFFICES ASSUME NEW T, \A i, k \in T : i = k PROVE Cardinality(T) = IF T = {} THEN 0 ELSE 1
      OBVIOUS
    <3>1. CASE T = {}
      BY <3>1, FS_EmptySet
    <3>2. CASE T # {}
      <4>1. PICK i : T = {i}
        BY <3>2
      <4> QED
        BY <4>1, FS_Singleton
    <3> QED
      BY <3>1, <3>2
  <2> HIDE DEF S, H
  <2>5. CASE status[b][name] = "queued"
    <3>1. Stands(b, name, "queued")
      BY <2>5 DEF Stands
    <3>2. Waits(b, name) \/ \E p \in Posters : Carries(p, b, name)
      BY <3>1 DEF JobsInv, NoneForgotten
    <3>3. \A p \in Posters : Carries(p, b, name) => ~Waits(b, name)
      BY DEF JobsInv, PostersOK
    <3> QED
      BY <2>1, <2>2, <2>3, <2>4, <2>5, <3>2, <3>3 DEF S, H
  <2>6. CASE status[b][name] # "queued"
    <3>1. ~Stands(b, name, "queued")
      BY <2>6 DEF Stands
    <3>2. ~Waits(b, name) /\ \A p \in Posters : ~Carries(p, b, name)
      BY <3>1 DEF JobsInv, PostersOK, QueueOK
    <3> QED
      BY <2>1, <2>2, <2>3, <2>4, <2>6, <3>2 DEF S, H
  <2> QED
    BY <2>5, <2>6
<1>2. ASSUME NEW b \in DOMAIN status, NEW name \in DOMAIN status[b]
      PROVE  Holds(b, name) <=> status[b][name] = "running"
  BY DEF JobsInv, WorkerOK, Stands
<1>3. ASSUME NEW j \in ToSet(queue) PROVE j[1] \in DOMAIN status
  <2>1. j \in Nat \X Names
    BY DEF ToSet, JobsInv, QueueOK
  <2>2. Waits(j[1], j[2])
    BY <2>1 DEF Waits
  <2> QED
    BY <2>2 DEF JobsInv, QueueOK, Stands
<1>4. At(Worker, "idle") \/ actor[Worker].batch \in DOMAIN status
  <2>1. ~At(Worker, "idle") => Holds(actor[Worker].batch, actor[Worker].table)
    BY DEF Holds
  <2> QED
    BY <2>1 DEF JobsInv, WorkerOK, Stands
<1> QED
  BY <1>1, <1>2, <1>3, <1>4 DEF JobsAccounted, Holds

\* Every name of a known batch is in exactly one place, whatever posts, dropped
\* batches, failures and restarts interleave, for any number of batches, names
\* and threads.
THEOREM JobsAccountedHolds == Spec => []JobsAccounted
<1>1. Init => JobsInv
  BY JobsBegin
<1>2. JobsInv /\ [Next]_vars => JobsInv'
  BY JobsKeep
<1>3. JobsInv => JobsAccounted
  BY JobsSay
<1> QED
  BY <1>1, <1>2, <1>3, PTL DEF Spec
=============================================================================
