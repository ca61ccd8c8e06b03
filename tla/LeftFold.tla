------------------------------ MODULE LeftFold ------------------------------
(***************************************************************************)
(* What FoldLeft of the community modules computes: the steps from the     *)
(* base over the elements, one after the other.  A module that folds takes *)
(* an instance of this one for its own operator; the laws, unlike the      *)
(* library's induction theorems, then say nothing of an operator.          *)
(***************************************************************************)
EXTENDS Integers, SequencesExt, FiniteSetTheorems, TLAPS

CONSTANTS Op(_, _), Holds(_, _, _)

Folded(base, seq) == FoldLeft(Op, base, seq)

\* h holds the states of the fold: the base, and after each element one step
Run(h, base, seq, n) == /\ h[0] = base
                        /\ \A i \in 1..n : h[i] = Op(h[i - 1], seq[i])
                        /\ Folded(base, seq) = h[n]

\* the equation of the recursive function FoldLeft is defined by, on subsets of D
Folds(g, base, seq, D) ==
  g = [s \in SUBSET D |-> IF s = {} THEN base ELSE Op(g[s \ {Max(s)}], seq[Max(s)])]

\* Induction over the naturals, stated of a set: its least missing element is not 0
\* and does not follow an element.
LEMMA NatSet ==
  ASSUME NEW T \in SUBSET Nat, 0 \in T, \A n \in T : n + 1 \in T
  PROVE  T = Nat
<1> SUFFICES ASSUME NEW n \in Nat, n \notin T PROVE FALSE
  OBVIOUS
<1> DEFINE missing == {0..m : m \in (0..n) \ T}
<1>1. /\ IsFiniteSet(0..n)
      /\ IsWellFoundedOn(StrictSubsetOrdering(0..n), FiniteSubsetsOf(0..n))
  BY FS_Interval, FS_StrictSubsetOrderingWellFounded
<1>2. missing # {} /\ missing \subseteq FiniteSubsetsOf(0..n)
  BY <1>1, FS_FiniteSubsetsOfFinite
<1>3. PICK U \in missing : \A V \in missing : ~(<<V, U>> \in StrictSubsetOrdering(0..n))
  <2> HIDE DEF missing
  <2> QED
    BY <1>1, <1>2, WFMin
<1>4. PICK m \in (0..n) \ T : U = 0..m
  BY <1>3
<1>5. m # 0 /\ m - 1 \in 0..n /\ (m - 1) + 1 = m
  BY <1>4
<1>6. m - 1 \notin T
  BY <1>4, <1>5
<1>7. 0..(m - 1) \in missing /\ 0..(m - 1) \subseteq U /\ 0..(m - 1) # U /\ U \subseteq 0..n
  BY <1>4, <1>5, <1>6
<1>8. <<0..(m - 1), U>> \in StrictSubsetOrdering(0..n)
  BY <1>7 DEF StrictSubsetOrdering
<1> QED
  BY <1>3, <1>7, <1>8

LEMMA TopIsMax ==
  ASSUME NEW n \in Nat, NEW s \in SUBSET (1..n), n \in s
  PROVE  Max(s) = n
<1>1. \A y \in s : n >= y
  OBVIOUS
<1>2. \A x \in s : (\A y \in s : x >= y) => x = n
  BY <1>1
<1> QED
  BY <1>1, <1>2 DEF Max

LEMMA FoldExists ==
  ASSUME NEW base, NEW seq, NEW n \in Nat
  PROVE  \E g : Folds(g, base, seq, 1..n)
<1> DEFINE T == {k \in Nat : \E g : Folds(g, base, seq, 1..k)}
<1>1. 0 \in T
  <2> DEFINE g == [s \in SUBSET (1..0) |-> base]
  <2>1. Folds(g, base, seq, 1..0)
    BY DEF Folds
  <2> QED
    BY <2>1
<1>2. ASSUME NEW k \in T PROVE k + 1 \in T
  <2>1. PICK g : Folds(g, base, seq, 1..k)
    OBVIOUS
  <2> DEFINE next == [s \in SUBSET (1..(k + 1)) |->
                        IF k + 1 \in s THEN Op(g[s \ {k + 1}], seq[k + 1]) ELSE g[s]]
  <2>2. ASSUME NEW s \in SUBSET (1..(k + 1))
        PROVE  next[s] = IF s = {} THEN base ELSE Op(next[s \ {Max(s)}], seq[Max(s)])
    <3>1. CASE k + 1 \in s
      <4>1. Max(s) = k + 1
        BY <3>1, TopIsMax
      <4>2. s \ {k + 1} \in SUBSET (1..(k + 1)) /\ s # {}
        BY <3>1
      <4>3. next[s \ {k + 1}] = g[s \ {k + 1}]
        BY <4>2
      <4> QED
        BY <3>1, <4>1, <4>2, <4>3
    <3>2. CASE k + 1 \notin s
      <4>1. s \in SUBSET (1..k) /\ s \ {Max(s)} \in SUBSET (1..(k + 1)) /\ k + 1 \notin s \ {Max(s)}
        <5>1. k \in Nat /\ \A i \in 1..(k + 1) : i # k + 1 => i \in 1..k
          OBVIOUS
        <5> HIDE DEF next, T
        <5> QED
          BY <3>2, <5>1
      <4>2. g[s] = IF s = {} THEN base ELSE Op(g[s \ {Max(s)}], seq[Max(s)])
        BY <2>1, <4>1 DEF Folds
      <4>3. next[s] = g[s] /\ next[s \ {Max(s)}] = g[s \ {Max(s)}]
        BY <3>2, <4>1
      <4> QED
        BY <4>2, <4>3
    <3> QED
      BY <3>1, <3>2
  <2>3. Folds(next, base, seq, 1..(k + 1))
    <3> HIDE DEF next
    <3>1. next = [s \in SUBSET (1..(k + 1)) |-> next[s]]
      BY DEF next
    <3> QED
      BY <2>2, <3>1 DEF Folds
  <2> QED
    BY <2>3
<1> HIDE DEF T
<1>3. T = Nat
  <2>1. T \in SUBSET Nat
    BY DEF T
  <2> QED
    BY <1>1, <1>2, <2>1, NatSet
<1> QED
  BY <1>3 DEF T

\* A fold over a sequence goes through states: the base, and after each element one step.
THEOREM FoldSteps ==
  ASSUME NEW base, NEW seq, NEW n \in Nat, DOMAIN seq = 1..n
  PROVE  \E h : Run(h, base, seq, n)
<1> DEFINE iter == CHOOSE g : Folds(g, base, seq, 1..n)
           h == [i \in 0..n |-> iter[1..i]]
<1>1. Folded(base, seq) = iter[1..n]
  BY DEF Folded, FoldLeft, MapThenFoldSet, Folds
<1>2. Folds(iter, base, seq, 1..n)
  BY FoldExists
<1> HIDE DEF iter
<1>3. h[0] = base
  BY <1>2 DEF Folds
<1>4. ASSUME NEW i \in 1..n PROVE h[i] = Op(h[i - 1], seq[i])
  <2>1. Max(1..i) = i
    <3>1. i \in Nat /\ 1..i \in SUBSET (1..i) /\ i \in 1..i
      OBVIOUS
    <3> QED
      BY <3>1, TopIsMax
  <2>2. (1..i) \ {i} = 1..(i - 1) /\ 1..i \in SUBSET (1..n) /\ 1..i # {}
    OBVIOUS
  <2>3. iter[1..i] = Op(iter[1..(i - 1)], seq[i])
    BY <1>2, <2>1, <2>2 DEF Folds
  <2> QED
    BY <2>3
<1>5. Folded(base, seq) = h[n]
  BY <1>1
<1> HIDE DEF h
<1> QED
  BY <1>3, <1>4, <1>5 DEF Run

\* Induction along a fold: what holds of the base and what each step carries over,
\* for some context c, holds of the result.
THEOREM FoldInduction ==
  ASSUME NEW c, NEW base, NEW seq, NEW n \in Nat, DOMAIN seq = 1..n,
         Holds(c, 0, base),
         \A i \in 1..n : \A s : Holds(c, i - 1, s) => Holds(c, i, Op(s, seq[i]))
  PROVE  Holds(c, n, Folded(base, seq))
<1>0. PICK h : Run(h, base, seq, n)
  BY FoldSteps
<1>1. /\ h[0] = base
      /\ \A i \in 1..n : h[i] = Op(h[i - 1], seq[i])
      /\ Folded(base, seq) = h[n]
  BY <1>0 DEF Run
<1> DEFINE T == {i \in Nat : i <= n => Holds(c, i, h[i])}
<1>2. 0 \in T
  BY <1>1
<1>3. ASSUME NEW i \in T PROVE i + 1 \in T
  <2>1. i \in Nat /\ (i + 1) - 1 = i
    OBVIOUS
  <2> SUFFICES ASSUME i + 1 <= n PROVE Holds(c, i + 1, h[i + 1])
    BY <2>1
  <2>2. i + 1 \in 1..n /\ Holds(c, i, h[i])
    BY <2>1
  <2>3. h[i + 1] = Op(h[i], seq[i + 1])
    BY <1>1, <2>1, <2>2
  <2> DEFINE s == h[i]
  <2> HIDE DEF s
  <2>4. Holds(c, i + 1, Op(s, seq[i + 1]))
    BY <2>1, <2>2 DEF s
  <2> QED
    BY <2>3, <2>4 DEF s
<1> HIDE DEF T
<1>4. T = Nat
  <2>1. T \in SUBSET Nat
    BY DEF T
  <2> QED
    BY <1>2, <1>3, <2>1, NatSet
<1> QED
  BY <1>1, <1>4 DEF T

=============================================================================
