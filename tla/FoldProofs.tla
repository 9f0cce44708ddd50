----------------------------- MODULE FoldProofs -----------------------------
(***************************************************************************)
(* Facts about finite sums and folds that the proofs of several components *)
(* cite.  A fold of the community modules is a function chosen to satisfy  *)
(* a recursive equation; that such a function exists, and what it returns, *)
(* is shown here by induction, stated over a set of good numbers or a set  *)
(* of good subsets so that no lemma takes an operator.                     *)
(***************************************************************************)
EXTENDS Integers, FiniteSets, FiniteSetsExt, FiniteSetTheorems, WellFoundedInduction, TLAPS

-----------------------------------------------------------------------------
(* Induction                                                               *)

\* A set of numbers that is not empty has a least one.
LEMMA LeastOf ==
    ASSUME NEW T \in SUBSET Nat, T # {}
    PROVE  \E x \in T : \A y \in T : x <= y
<1>1. PICK x \in T : \A y \in T : ~ (<<y, x>> \in OpToRel(<, Nat))
  BY WFMin, NatLessThanWellFounded, Zenon
<1>2. \A y \in T : ~(y < x)
  BY <1>1 DEF OpToRel
<1> QED BY <1>2

\* Good numbers: zero, and each after a good one.
LEMMA NatInduct ==
    ASSUME NEW G, 0 \in G, \A n \in Nat : n \in G => n + 1 \in G
    PROVE  Nat \subseteq G
<1> SUFFICES ASSUME NEW m \in Nat, m \notin G PROVE FALSE
  OBVIOUS
<1>1. PICK x \in Nat \ G : \A y \in Nat \ G : x <= y
  <2>1. Nat \ G \in SUBSET Nat /\ Nat \ G # {}
    OBVIOUS
  <2> QED BY <2>1, LeastOf
<1>2. x # 0 /\ x - 1 \in Nat /\ x - 1 + 1 = x
  BY <1>1
<1>3. x - 1 \in G
  BY <1>1, <1>2
<1> QED BY <1>1, <1>2, <1>3

\* Good subsets of a finite set: the empty one, and each with one element more.
LEMMA SetInduct ==
    ASSUME NEW S, IsFiniteSet(S), NEW G, {} \in G,
           \A T \in SUBSET S, x \in S : T \in G /\ x \notin T => T \cup {x} \in G
    PROVE  S \in G
<1> DEFINE H == {n \in Nat : \A T \in SUBSET S : Cardinality(T) = n => T \in G}
<1>1. \A T \in SUBSET S : IsFiniteSet(T) /\ Cardinality(T) \in Nat
  BY FS_Subset, FS_CardinalityType
<1>2. 0 \in H
  BY <1>1, FS_EmptySet
<1>3. ASSUME NEW n \in Nat, n \in H PROVE n + 1 \in H
  <2> SUFFICES ASSUME NEW T \in SUBSET S, Cardinality(T) = n + 1 PROVE T \in G
    OBVIOUS
  <2>1. T # {}
    BY <1>1, FS_EmptySet
  <2>2. PICK x \in T : TRUE
    BY <2>1
  <2>3. Cardinality(T \ {x}) = n
    <3>1. IsFiniteSet(T)
      BY <1>1
    <3>2. Cardinality(T \ {x}) = Cardinality(T) - 1
      BY <2>2, <3>1, FS_RemoveElement
    <3> QED BY <3>2
  <2>4. T \ {x} \in G
    BY <1>3, <2>3
  <2>5. T = (T \ {x}) \cup {x}
    BY <2>2
  <2> QED BY <2>4, <2>5
<1>4. Nat \subseteq H
  <2> HIDE DEF H
  <2> QED BY <1>2, <1>3, NatInduct
<1> QED BY <1>1, <1>4

-----------------------------------------------------------------------------
(* The recursion behind every fold                                         *)

Pick(s) == CHOOSE x \in s : TRUE

\* The element a fold takes first is one of them.
LEMMA PickType == ASSUME NEW s, s # {} PROVE Pick(s) \in s
  BY DEF Pick

\* g folds step over the subsets of S, from base.
FoldsTo(g, S, base, step) ==
    \A s \in SUBSET S : g[s] = IF s = {} THEN base ELSE step[<<Pick(s), g[s \ {Pick(s)}]>>]

\* Over a finite set such a function exists, so a fold's CHOOSE finds one.
LEMMA FoldExists ==
    ASSUME NEW S, IsFiniteSet(S), NEW V, NEW base \in V, NEW step \in [S \X V -> V]
    PROVE  \E g \in [SUBSET S -> V] : FoldsTo(g, S, base, step)
<1> DEFINE Eq(g, s) == g[s] = IF s = {} THEN base ELSE step[<<Pick(s), g[s \ {Pick(s)}]>>]
           H == {n \in Nat : \E g \in [SUBSET S -> V] :
                    \A s \in SUBSET S : Cardinality(s) <= n => Eq(g, s)}
<1>1. \A T \in SUBSET S : IsFiniteSet(T) /\ Cardinality(T) \in Nat
  BY FS_Subset, FS_CardinalityType
<1>2. \A s \in SUBSET S : s # {} =>
         /\ Pick(s) \in S /\ s \ {Pick(s)} \in SUBSET S
         /\ Cardinality(s \ {Pick(s)}) = Cardinality(s) - 1
  BY <1>1, PickType, FS_RemoveElement
<1>3. 0 \in H
  <2> DEFINE g == [s \in SUBSET S |-> base]
  <2>1. \A s \in SUBSET S : Cardinality(s) <= 0 => s = {}
    BY <1>1, FS_EmptySet
  <2>2. g \in [SUBSET S -> V] /\ \A s \in SUBSET S : Cardinality(s) <= 0 => Eq(g, s)
    BY <2>1
  <2> HIDE DEF g
  <2> QED BY <2>2
<1>4. ASSUME NEW n \in Nat, n \in H PROVE n + 1 \in H
  <2>1. PICK f \in [SUBSET S -> V] : \A s \in SUBSET S : Cardinality(s) <= n => Eq(f, s)
    BY <1>4
  <2> DEFINE g == [s \in SUBSET S |-> IF Cardinality(s) <= n THEN f[s]
                                      ELSE IF s = {} THEN base
                                      ELSE step[<<Pick(s), f[s \ {Pick(s)}]>>]]
  <2>2. g \in [SUBSET S -> V]
    <3> SUFFICES ASSUME NEW s \in SUBSET S, s # {} PROVE step[<<Pick(s), f[s \ {Pick(s)}]>>] \in V
      OBVIOUS
    <3>1. Pick(s) \in S /\ f[s \ {Pick(s)}] \in V
      BY <1>2
    <3> QED BY <3>1
  <2>3. ASSUME NEW s \in SUBSET S, Cardinality(s) <= n + 1 PROVE Eq(g, s)
    <3>1. CASE s = {}
      <4>1. Cardinality(s) <= n
        BY <3>1, FS_EmptySet
      <4>2. g[s] = f[s]
        BY <4>1
      <4>3. f[s] = base
        BY <2>1, <3>1, <4>1
      <4> HIDE DEF g
      <4> QED BY <3>1, <4>2, <4>3
    <3>2. CASE s # {}
      <4> DEFINE t == s \ {Pick(s)}
      <4>1. t \in SUBSET S /\ Cardinality(t) <= n /\ Cardinality(s) \in Nat
        <5>1. Cardinality(s) \in Nat /\ Cardinality(s) <= n + 1
          BY <1>1, <2>3
        <5>2. t \in SUBSET S /\ Cardinality(t) = Cardinality(s) - 1
          BY <1>2, <3>2
        <5> HIDE DEF t
        <5> QED BY <5>1, <5>2
      <4>2. g[t] = f[t]
        BY <4>1
      <4>3. g[s] = step[<<Pick(s), f[t]>>]
        <5>1. CASE Cardinality(s) <= n
          BY <2>1, <3>2, <5>1
        <5>2. CASE ~(Cardinality(s) <= n)
          BY <3>2, <5>2
        <5> QED BY <5>1, <5>2
      <4> HIDE DEF g
      <4> QED BY <3>2, <4>2, <4>3
    <3> QED BY <3>1, <3>2
  <2> HIDE DEF g
  <2>4. \E h \in [SUBSET S -> V] : \A s \in SUBSET S : Cardinality(s) <= n + 1 => Eq(h, s)
    BY <2>2, <2>3
  <2> QED BY <2>4
<1>5. Cardinality(S) \in H
  <2>1. Nat \subseteq H
    <3> HIDE DEF H
    <3> QED BY <1>3, <1>4, NatInduct
  <2> HIDE DEF H
  <2> QED BY <1>1, <2>1
<1>6. PICK g \in [SUBSET S -> V] : \A s \in SUBSET S : Cardinality(s) <= Cardinality(S) => Eq(g, s)
  BY <1>5
<1>7. \A s \in SUBSET S : Eq(g, s)
  BY <1>6, FS_Subset
<1> QED BY <1>7 DEF FoldsTo

\* A fold whose steps are step's as long as it is within V; V is the domain of step.
FoldsWithin(g, S, V, base, step) ==
    \A s \in SUBSET S : IF s = {} THEN g[s] = base
                        ELSE g[s \ {Pick(s)}] \in V => g[s] = step[<<Pick(s), g[s \ {Pick(s)}]>>]

\* What the base has and every step keeps, a fold has: it never leaves V.
LEMMA FoldIn ==
    ASSUME NEW S, IsFiniteSet(S), NEW V, NEW base \in V, NEW step \in [S \X V -> V],
           NEW g, FoldsWithin(g, S, V, base, step)
    PROVE  FoldsTo(g, S, base, step) /\ \A s \in SUBSET S : g[s] \in V
<1> DEFINE H == {n \in Nat : \A s \in SUBSET S : Cardinality(s) = n => g[s] \in V}
<1>1. \A T \in SUBSET S : IsFiniteSet(T) /\ Cardinality(T) \in Nat
  BY FS_Subset, FS_CardinalityType
<1>2. \A s \in SUBSET S : s # {} =>
         /\ Pick(s) \in S /\ s \ {Pick(s)} \in SUBSET S
         /\ Cardinality(s \ {Pick(s)}) = Cardinality(s) - 1
  BY <1>1, PickType, FS_RemoveElement
<1>3. 0 \in H
  BY <1>1, FS_EmptySet DEF FoldsWithin
<1>4. ASSUME NEW n \in Nat, n \in H PROVE n + 1 \in H
  <2> SUFFICES ASSUME NEW s \in SUBSET S, Cardinality(s) = n + 1 PROVE g[s] \in V
    OBVIOUS
  <2>1. s # {}
    BY <1>1, FS_EmptySet
  <2>2. Pick(s) \in S /\ g[s \ {Pick(s)}] \in V
    BY <1>2, <1>4, <2>1
  <2>3. g[s] = step[<<Pick(s), g[s \ {Pick(s)}]>>]
    BY <2>1, <2>2 DEF FoldsWithin
  <2> QED BY <2>2, <2>3
<1>5. Nat \subseteq H
  <2> HIDE DEF H
  <2> QED BY <1>3, <1>4, NatInduct
<1>6. \A s \in SUBSET S : g[s] \in V
  BY <1>1, <1>5
<1> QED BY <1>2, <1>6 DEF FoldsTo, FoldsWithin

\* A step gets its own element done, and leaves done what is.
Settles(S, V, step, Done) ==
    /\ \A x \in S : \A v \in V : <<x, step[<<x, v>>]>> \in Done
    /\ \A x, y \in S : \A v \in V : <<x, v>> \in Done => <<x, step[<<y, v>>]>> \in Done

\* What a step does for its element, and the others leave done, the fold does for
\* all.
LEMMA FoldReaches ==
    ASSUME NEW S, IsFiniteSet(S), NEW V, NEW base \in V, NEW step \in [S \X V -> V],
           NEW g, FoldsWithin(g, S, V, base, step), NEW Done, Settles(S, V, step, Done)
    PROVE  \A x \in S : <<x, g[S]>> \in Done
<1> DEFINE H == {n \in Nat : \A s \in SUBSET S : Cardinality(s) = n =>
                    \A x \in s : <<x, g[s]>> \in Done}
<1>0. FoldsTo(g, S, base, step) /\ \A s \in SUBSET S : g[s] \in V
  BY FoldIn
<1>1. \A T \in SUBSET S : IsFiniteSet(T) /\ Cardinality(T) \in Nat
  BY FS_Subset, FS_CardinalityType
<1>2. \A s \in SUBSET S : s # {} =>
         /\ Pick(s) \in S /\ s \ {Pick(s)} \in SUBSET S
         /\ Cardinality(s \ {Pick(s)}) = Cardinality(s) - 1
  BY <1>1, PickType, FS_RemoveElement
<1>3. 0 \in H
  BY <1>1, FS_EmptySet
<1>4. ASSUME NEW n \in Nat, n \in H PROVE n + 1 \in H
  <2> SUFFICES ASSUME NEW s \in SUBSET S, Cardinality(s) = n + 1, NEW x \in s
               PROVE  <<x, g[s]>> \in Done
    OBVIOUS
  <2> DEFINE y == Pick(s)
             t == s \ {y}
  <2>1. g[s] = step[<<y, g[t]>>]
    BY <1>0 DEF FoldsTo
  <2>2. y \in S /\ t \in SUBSET S /\ Cardinality(t) = n
    <3>1. Cardinality(t) = Cardinality(s) - 1
      BY <1>2
    <3> QED BY <1>2, <3>1
  <2>3. g[t] \in V
    BY <1>0, <2>2
  <2>4. CASE x = y
    BY <2>1, <2>2, <2>3, <2>4 DEF Settles
  <2>5. CASE x # y
    <3>1. <<x, g[t]>> \in Done
      BY <1>4, <2>2, <2>5
    <3> QED BY <2>1, <2>2, <2>3, <3>1 DEF Settles
  <2> QED BY <2>4, <2>5
<1>5. Nat \subseteq H
  <2> HIDE DEF H
  <2> QED BY <1>3, <1>4, NatInduct
<1> QED BY <1>1, <1>5

-----------------------------------------------------------------------------
(* Sums                                                                    *)

\* The sum of f over a finite set.
Total(f, S) == MapThenSumSet(LAMBDA x : f[x], S)

\* g sums f over the subsets of S.
Sums(g, S, f) ==
    \A s \in SUBSET S : g[s] = IF s = {} THEN 0 ELSE f[Pick(s)] + g[s \ {Pick(s)}]

\* The same for a sum.
LEMMA SumsExist ==
    ASSUME NEW S, IsFiniteSet(S), NEW f, \A x \in S : f[x] \in Int
    PROVE  \E g \in [SUBSET S -> Int] : Sums(g, S, f)
<1> DEFINE step == [xm \in S \X Int |-> f[xm[1]] + xm[2]]
<1>1. step \in [S \X Int -> Int]
  OBVIOUS
<1>2. \A x \in S, m \in Int : step[<<x, m>>] = f[x] + m
  OBVIOUS
<1>3. PICK g \in [SUBSET S -> Int] : FoldsTo(g, S, 0, step)
  <2> HIDE DEF step
  <2>1. 0 \in Int
    OBVIOUS
  <2> QED BY <1>1, <2>1, FoldExists
<1>4. ASSUME NEW s \in SUBSET S
      PROVE  g[s] = IF s = {} THEN 0 ELSE f[Pick(s)] + g[s \ {Pick(s)}]
  <2>1. g[s] = IF s = {} THEN 0 ELSE step[<<Pick(s), g[s \ {Pick(s)}]>>]
    BY <1>3 DEF FoldsTo
  <2>2. s # {} => Pick(s) \in S /\ g[s \ {Pick(s)}] \in Int
    BY PickType
  <2> HIDE DEF step
  <2> QED BY <1>2, <2>1, <2>2
<1> QED BY <1>4 DEF Sums

\* Any element may be taken out first.
Takes(g, S, f) == \A s \in SUBSET S : \A x \in s : g[s] = f[x] + g[s \ {x}]

\* The order in which a sum takes its terms does not matter.
LEMMA SumsTake ==
    ASSUME NEW S, IsFiniteSet(S), NEW f, \A x \in S : f[x] \in Int,
           NEW g \in [SUBSET S -> Int], Sums(g, S, f)
    PROVE  Takes(g, S, f)
<1> DEFINE H == {n \in Nat : \A s \in SUBSET S : Cardinality(s) = n =>
                    \A x \in s : g[s] = f[x] + g[s \ {x}]}
<1>1. \A T \in SUBSET S : IsFiniteSet(T) /\ Cardinality(T) \in Nat
  BY FS_Subset, FS_CardinalityType
<1>2. \A s \in SUBSET S : \A x \in s : Cardinality(s \ {x}) = Cardinality(s) - 1
  BY <1>1, FS_RemoveElement
<1>3. 0 \in H
  BY <1>1, FS_EmptySet
<1>4. ASSUME NEW n \in Nat, n \in H PROVE n + 1 \in H
  <2> SUFFICES ASSUME NEW s \in SUBSET S, Cardinality(s) = n + 1, NEW x \in s
               PROVE  g[s] = f[x] + g[s \ {x}]
    OBVIOUS
  <2> DEFINE y == Pick(s)
  <2>1. y \in s /\ g[s] = f[y] + g[s \ {y}]
    BY PickType DEF Sums
  <2> HIDE DEF y
  <2>2. CASE x = y
    BY <2>1, <2>2
  <2>3. CASE x # y
    <3>1. /\ s \ {y} \in SUBSET S /\ x \in s \ {y} /\ s \ {x} \in SUBSET S /\ y \in s \ {x}
      BY <2>1, <2>3
    <3>2. Cardinality(s \ {y}) = n /\ Cardinality(s \ {x}) = n
      BY <1>2, <2>1
    <3>3. g[s \ {y}] = f[x] + g[(s \ {y}) \ {x}]
      BY <1>4, <3>1, <3>2
    <3>4. g[s \ {x}] = f[y] + g[(s \ {x}) \ {y}]
      BY <1>4, <3>1, <3>2
    <3>5. (s \ {y}) \ {x} = (s \ {x}) \ {y} /\ (s \ {x}) \ {y} \in SUBSET S
      OBVIOUS
    <3>6. f[x] \in Int /\ f[y] \in Int /\ g[(s \ {x}) \ {y}] \in Int
      BY <2>1, <3>5
    <3>7. PICK a \in Int : a = f[x]
      BY <3>6
    <3>8. PICK b \in Int : b = f[y]
      BY <3>6
    <3>9. PICK c \in Int : c = g[(s \ {x}) \ {y}]
      BY <3>6
    <3>10. g[s] = b + (a + c) /\ g[s \ {x}] = b + c
      BY <2>1, <3>3, <3>4, <3>5, <3>7, <3>8, <3>9, Zenon
    <3>11. g[s] = a + g[s \ {x}]
      BY <3>10
    <3> QED BY <3>7, <3>11
  <2> QED BY <2>2, <2>3
<1>5. Nat \subseteq H
  <2> HIDE DEF H
  <2> QED BY <1>3, <1>4, NatInduct
<1> QED BY <1>1, <1>5 DEF Takes

\* What g sums does not depend on g, nor on f outside the set.
IsSum(g, S, f) ==
    /\ IsFiniteSet(S) /\ \A x \in S : f[x] \in Int
    /\ g \in [SUBSET S -> Int] /\ Sums(g, S, f)

\* Two sums that agree on the terms agree on the set.
LEMMA SumsSame ==
    ASSUME NEW S, NEW f, NEW g, IsSum(g, S, f), NEW T, NEW e, NEW h, IsSum(h, T, e),
           NEW U, U \subseteq S, U \subseteq T, \A x \in U : f[x] = e[x]
    PROVE  g[U] = h[U]
<1> DEFINE G == {s \in SUBSET U : g[s] = h[s]}
<1>1. IsFiniteSet(U)
  BY FS_Subset DEF IsSum
<1>2. {} \in G
  BY DEF IsSum, Sums
<1>3. ASSUME NEW s \in SUBSET U, NEW x \in U, s \in G, x \notin s PROVE s \cup {x} \in G
  <2> DEFINE t == s \cup {x}
  <2>1. t \in SUBSET S /\ t \in SUBSET T /\ t \ {x} = s /\ x \in t /\ t \in SUBSET U
    BY <1>3
  <2> HIDE DEF t
  <2>2. g[t] = f[x] + g[s]
    <3>1. Takes(g, S, f)
      BY SumsTake DEF IsSum
    <3> QED BY <2>1, <3>1 DEF Takes
  <2>3. h[t] = e[x] + h[s]
    <3>1. Takes(h, T, e)
      BY SumsTake DEF IsSum
    <3> QED BY <2>1, <3>1 DEF Takes
  <2>4. t \in G
    BY <1>3, <2>1, <2>2, <2>3
  <2> QED BY <2>4 DEF t
<1>4. U \in G
  <2> HIDE DEF G
  <2> QED BY <1>1, <1>2, <1>3, SetInduct
<1> QED BY <1>4

\* A sum of integers is one.
LEMMA SumsType ==
    ASSUME NEW S, IsFiniteSet(S), NEW f, \A x \in S : f[x] \in Int, NEW g, Sums(g, S, f)
    PROVE  \A s \in SUBSET S : g[s] \in Int
<1> DEFINE H == {n \in Nat : \A s \in SUBSET S : Cardinality(s) = n => g[s] \in Int}
<1>1. \A T \in SUBSET S : IsFiniteSet(T) /\ Cardinality(T) \in Nat
  BY FS_Subset, FS_CardinalityType
<1>2. 0 \in H
  BY <1>1, FS_EmptySet DEF Sums
<1>3. ASSUME NEW n \in Nat, n \in H PROVE n + 1 \in H
  <2> SUFFICES ASSUME NEW s \in SUBSET S, Cardinality(s) = n + 1 PROVE g[s] \in Int
    OBVIOUS
  <2> DEFINE y == Pick(s)
             t == s \ {y}
  <2>1. s # {}
    BY <1>1, FS_EmptySet
  <2>2. y \in s /\ g[s] = f[y] + g[t]
    BY <2>1, PickType DEF Sums
  <2>3. t \in SUBSET S /\ Cardinality(t) = n
    <3>1. IsFiniteSet(s)
      BY <1>1
    <3>2. Cardinality(t) = Cardinality(s) - 1
      BY <2>2, <3>1, FS_RemoveElement
    <3> QED BY <3>2
  <2> HIDE DEF y, t
  <2>4. g[t] \in Int /\ f[y] \in Int
    BY <1>3, <2>2, <2>3
  <2> QED BY <2>2, <2>4
<1>4. Nat \subseteq H
  <2> HIDE DEF H
  <2> QED BY <1>2, <1>3, NatInduct
<1> QED BY <1>1, <1>4

\* A sum is what some function of that kind gives the whole set.
LEMMA TotalDef ==
    ASSUME NEW S, IsFiniteSet(S), NEW f, \A x \in S : f[x] \in Int
    PROVE  \E g : IsSum(g, S, f) /\ Total(f, S) = g[S]
<1> DEFINE Eq(g) == g = [s \in SUBSET S |-> IF s = {} THEN 0
                           ELSE f[CHOOSE x \in s : TRUE] + g[s \ {CHOOSE x \in s : TRUE}]]
           c == CHOOSE g : Eq(g)
<1>1. PICK g \in [SUBSET S -> Int] : Sums(g, S, f)
  BY SumsExist
<1>2. Eq(g)
  BY <1>1 DEF Sums, Pick
<1>3. Eq(c)
  <2> HIDE DEF Eq
  <2> QED BY <1>2
<1>4. Total(f, S) = c[S]
  BY DEF Total, MapThenSumSet, MapThenFoldSet
<1> HIDE DEF c
<1>5. Sums(c, S, f)
  BY <1>3 DEF Sums, Pick
<1>6. c = [s \in SUBSET S |-> c[s]]
  BY <1>3
<1>7. c \in [SUBSET S -> Int]
  BY <1>5, <1>6, SumsType
<1> QED BY <1>4, <1>5, <1>7 DEF IsSum

\* Whatever sums f over S gives its total.
LEMMA TotalIs ==
    ASSUME NEW S, IsFiniteSet(S), NEW f, \A x \in S : f[x] \in Int, NEW g, Sums(g, S, f)
    PROVE  g[S] = Total(f, S)
<1> DEFINE h == [s \in SUBSET S |-> g[s]]
<1>1. h \in [SUBSET S -> Int] /\ h[S] = g[S]
  BY SumsType
<1>2. IsSum(h, S, f)
  BY <1>1 DEF IsSum, Sums
<1> HIDE DEF h
<1>3. PICK c : IsSum(c, S, f) /\ Total(f, S) = c[S]
  BY TotalDef
<1>4. h[S] = c[S]
  BY <1>2, <1>3, SumsSame
<1> QED BY <1>1, <1>3, <1>4

\* No terms.
LEMMA TotalEmpty == ASSUME NEW f PROVE Total(f, {}) = 0
<1>1. PICK g : IsSum(g, {}, f) /\ Total(f, {}) = g[{}]
  BY TotalDef, FS_EmptySet
<1> QED BY <1>1 DEF IsSum, Sums

\* Equal terms.
LEMMA TotalSame ==
    ASSUME NEW S, IsFiniteSet(S), NEW f, \A x \in S : f[x] \in Int,
           NEW e, \A x \in S : f[x] = e[x]
    PROVE  Total(f, S) = Total(e, S)
<1>1. \A x \in S : e[x] \in Int
  OBVIOUS
<1>2. PICK c : IsSum(c, S, f) /\ Total(f, S) = c[S]
  BY TotalDef
<1>3. PICK d : IsSum(d, S, e) /\ Total(e, S) = d[S]
  BY <1>1, TotalDef
<1>4. c[S] = d[S]
  BY <1>2, <1>3, SumsSame
<1> QED BY <1>2, <1>3, <1>4

\* One term taken out.
LEMMA TotalTake ==
    ASSUME NEW S, IsFiniteSet(S), NEW f, \A y \in S : f[y] \in Int, NEW x \in S
    PROVE  /\ Total(f, S) = f[x] + Total(f, S \ {x})
           /\ Total(f, S) \in Int /\ Total(f, S \ {x}) \in Int
<1> DEFINE T == S \ {x}
<1>1. IsFiniteSet(T) /\ \A y \in T : f[y] \in Int
  BY FS_Subset
<1>2. PICK c : IsSum(c, S, f) /\ Total(f, S) = c[S]
  BY TotalDef
<1>3. PICK d : IsSum(d, T, f) /\ Total(f, T) = d[T]
  BY <1>1, TotalDef
<1>4. c[T] = d[T]
  <2>1. T \subseteq S /\ T \subseteq T
    OBVIOUS
  <2> HIDE DEF T
  <2> QED BY <1>2, <1>3, <2>1, SumsSame
<1>5. c[S] = f[x] + c[T]
  <2>1. Takes(c, S, f)
    BY <1>2, SumsTake DEF IsSum
  <2> QED BY <2>1 DEF Takes
<1>6. c[S] \in Int /\ c[T] \in Int
  BY <1>2 DEF IsSum
<1> QED BY <1>2, <1>3, <1>4, <1>5, <1>6

\* The type of a total.
LEMMA TotalInt ==
    ASSUME NEW S, IsFiniteSet(S), NEW f, \A x \in S : f[x] \in Int
    PROVE  Total(f, S) \in Int
<1>1. PICK c : IsSum(c, S, f) /\ Total(f, S) = c[S]
  BY TotalDef
<1> QED BY <1>1 DEF IsSum

\* One term added.
LEMMA TotalAdd ==
    ASSUME NEW S, IsFiniteSet(S), NEW f, \A y \in S : f[y] \in Int,
           NEW x, x \notin S, f[x] \in Int
    PROVE  Total(f, S \cup {x}) = Total(f, S) + f[x]
<1> DEFINE T == S \cup {x}
<1>1. IsFiniteSet(T) /\ x \in T /\ T \ {x} = S /\ \A y \in T : f[y] \in Int
  BY FS_AddElement
<1> HIDE DEF T
<1>2. Total(f, T) = f[x] + Total(f, S) /\ Total(f, S) \in Int
  BY <1>1, TotalTake
<1> QED BY <1>2 DEF T

\* Term by term.
LEMMA TotalLe ==
    ASSUME NEW S, IsFiniteSet(S), NEW f, \A x \in S : f[x] \in Int,
           NEW e, \A x \in S : e[x] \in Int, \A x \in S : f[x] <= e[x]
    PROVE  Total(f, S) <= Total(e, S)
<1> DEFINE G == {s \in SUBSET S : Total(f, s) <= Total(e, s)}
<1>1. {} \in G
  BY TotalEmpty
<1>2. ASSUME NEW s \in SUBSET S, NEW x \in S, s \in G, x \notin s PROVE s \cup {x} \in G
  <2>1. IsFiniteSet(s) /\ (\A y \in s : f[y] \in Int) /\ (\A y \in s : e[y] \in Int)
    BY FS_Subset
  <2>2. Total(f, s \cup {x}) = Total(f, s) + f[x] /\ Total(e, s \cup {x}) = Total(e, s) + e[x]
    BY <1>2, <2>1, TotalAdd
  <2>3. Total(f, s) \in Int /\ Total(e, s) \in Int /\ f[x] \in Int /\ e[x] \in Int
    BY <2>1, TotalInt
  <2>4. Total(f, s \cup {x}) <= Total(e, s \cup {x})
    BY <1>2, <2>2, <2>3
  <2> QED BY <2>4
<1>3. S \in G
  <2> HIDE DEF G
  <2> QED BY <1>1, <1>2, SetInduct
<1> QED BY <1>3

\* Two sums in one.
LEMMA TotalPlus ==
    ASSUME NEW S, IsFiniteSet(S), NEW f, \A x \in S : f[x] \in Int,
           NEW e, \A x \in S : e[x] \in Int, NEW h, \A x \in S : h[x] = f[x] + e[x]
    PROVE  Total(h, S) = Total(f, S) + Total(e, S)
<1> DEFINE G == {s \in SUBSET S : Total(h, s) = Total(f, s) + Total(e, s)}
<1>1. {} \in G
  BY TotalEmpty
<1>2. ASSUME NEW s \in SUBSET S, NEW x \in S, s \in G, x \notin s PROVE s \cup {x} \in G
  <2>1. /\ IsFiniteSet(s) /\ (\A y \in s : f[y] \in Int) /\ (\A y \in s : e[y] \in Int)
        /\ \A y \in s \cup {x} : h[y] \in Int
    BY FS_Subset
  <2>2. /\ Total(f, s \cup {x}) = Total(f, s) + f[x] /\ Total(e, s \cup {x}) = Total(e, s) + e[x]
        /\ Total(h, s \cup {x}) = Total(h, s) + h[x]
    BY <1>2, <2>1, TotalAdd
  <2>3. /\ Total(f, s) \in Int /\ Total(e, s) \in Int /\ f[x] \in Int /\ e[x] \in Int
        /\ Total(h, s) = Total(f, s) + Total(e, s) /\ h[x] = f[x] + e[x]
    BY <1>2, <2>1, TotalInt
  <2>4. Total(h, s \cup {x}) = Total(f, s \cup {x}) + Total(e, s \cup {x})
    BY <2>2, <2>3
  <2> QED BY <2>4
<1>3. S \in G
  <2> HIDE DEF G
  <2> QED BY <1>1, <1>2, SetInduct
<1> QED BY <1>3

\* More terms, none of them negative.
LEMMA TotalGrows ==
    ASSUME NEW S, IsFiniteSet(S), NEW f, \A x \in S : f[x] \in Nat, NEW T \in SUBSET S
    PROVE  Total(f, T) <= Total(f, S) /\ Total(f, T) \in Nat
<1> DEFINE G == {s \in SUBSET S : Total(f, T \cap s) <= Total(f, s) /\ Total(f, T \cap s) \in Nat}
<1>1. {} \in G
  <2>1. T \cap {} = {}
    OBVIOUS
  <2>2. Total(f, {}) = 0
    BY TotalEmpty
  <2> QED BY <2>1, <2>2
<1>2. ASSUME NEW s \in SUBSET S, NEW x \in S, s \in G, x \notin s PROVE s \cup {x} \in G
  <2>1. /\ IsFiniteSet(s) /\ IsFiniteSet(T \cap s) /\ f[x] \in Nat /\ x \notin T \cap s
        /\ (\A y \in s : f[y] \in Int) /\ \A y \in T \cap s : f[y] \in Int
    BY <1>2, FS_Subset
  <2>2. Total(f, s \cup {x}) = Total(f, s) + f[x] /\ Total(f, s) \in Int
    BY <1>2, <2>1, TotalAdd, TotalInt
  <2>3. Total(f, T \cap s) <= Total(f, s) /\ Total(f, T \cap s) \in Nat
    BY <1>2
  <2> DEFINE t == T \cap (s \cup {x})
  <2>4. Total(f, t) \in {Total(f, T \cap s), Total(f, T \cap s) + f[x]}
    <3>1. CASE x \in T
      <4>1. t = (T \cap s) \cup {x}
        BY <3>1
      <4> HIDE DEF t
      <4>2. Total(f, (T \cap s) \cup {x}) = Total(f, T \cap s) + f[x]
        BY <2>1, TotalAdd
      <4> QED BY <4>1, <4>2
    <3>2. CASE x \notin T
      <4>1. t = T \cap s
        BY <3>2
      <4> HIDE DEF t
      <4> QED BY <4>1
    <3> QED BY <3>1, <3>2
  <2>5. Total(f, t) <= Total(f, s \cup {x}) /\ Total(f, t) \in Nat
    <3> HIDE DEF t
    <3> QED BY <2>1, <2>2, <2>3, <2>4
  <2> QED BY <2>5
<1>3. S \in G
  <2> HIDE DEF G
  <2> QED BY <1>1, <1>2, SetInduct
<1>4. T \cap S = T
  OBVIOUS
<1> QED BY <1>3, <1>4

\* One term is changed.
LEMMA TotalChange ==
    ASSUME NEW S, IsFiniteSet(S), NEW f, \A y \in S : f[y] \in Int, NEW x \in S,
           NEW e, e[x] \in Int, \A y \in S \ {x} : e[y] = f[y]
    PROVE  Total(e, S) = Total(f, S) + e[x] - f[x]
<1>1. \A y \in S : e[y] \in Int
  OBVIOUS
<1>2. IsFiniteSet(S \ {x}) /\ \A y \in S \ {x} : f[y] \in Int
  BY FS_Subset
<1>3. Total(f, S \ {x}) = Total(e, S \ {x})
  BY <1>2, TotalSame
<1>4. Total(f, S) = f[x] + Total(f, S \ {x}) /\ Total(f, S \ {x}) \in Int /\ f[x] \in Int
  BY TotalTake
<1>5. Total(e, S) = e[x] + Total(e, S \ {x})
  BY <1>1, TotalTake
<1> QED BY <1>3, <1>4, <1>5

\* A sum in two parts.
LEMMA TotalSplit ==
    ASSUME NEW S, IsFiniteSet(S), NEW f, \A x \in S : f[x] \in Int, NEW T \in SUBSET S
    PROVE  /\ Total(f, S) = Total(f, T) + Total(f, S \ T)
           /\ Total(f, T) \in Int /\ Total(f, S \ T) \in Int
<1> DEFINE G == {s \in SUBSET S : Total(f, s) = Total(f, T \cap s) + Total(f, s \ T)}
<1>1. {} \in G
  <2>1. T \cap {} = {} /\ {} \ T = {}
    OBVIOUS
  <2>2. Total(f, {}) = 0
    BY TotalEmpty
  <2> QED BY <2>1, <2>2
<1>2. ASSUME NEW s \in SUBSET S, NEW x \in S, s \in G, x \notin s PROVE s \cup {x} \in G
  <2> DEFINE a == T \cap s
             b == s \ T
  <2>1. /\ IsFiniteSet(s) /\ IsFiniteSet(a) /\ IsFiniteSet(b) /\ f[x] \in Int
        /\ (\A y \in s : f[y] \in Int) /\ (\A y \in a : f[y] \in Int) /\ (\A y \in b : f[y] \in Int)
        /\ x \notin a /\ x \notin b
    BY <1>2, FS_Subset
  <2>2. /\ T \cap (s \cup {x}) = IF x \in T THEN a \cup {x} ELSE a
        /\ (s \cup {x}) \ T = IF x \in T THEN b ELSE b \cup {x}
    OBVIOUS
  <2>3. Total(f, s) = Total(f, a) + Total(f, b)
    BY <1>2
  <2> HIDE DEF a, b
  <2>4. /\ Total(f, s \cup {x}) = Total(f, s) + f[x]
        /\ Total(f, a \cup {x}) = Total(f, a) + f[x]
        /\ Total(f, b \cup {x}) = Total(f, b) + f[x]
        /\ Total(f, a) \in Int /\ Total(f, b) \in Int
    BY <1>2, <2>1, TotalAdd, TotalInt
  <2>5. Total(f, s \cup {x}) = Total(f, T \cap (s \cup {x})) + Total(f, (s \cup {x}) \ T)
    <3>1. CASE x \in T
      <4>1. T \cap (s \cup {x}) = a \cup {x} /\ (s \cup {x}) \ T = b
        BY <2>2, <3>1
      <4>2. /\ Total(f, T \cap (s \cup {x})) = Total(f, a) + f[x]
            /\ Total(f, (s \cup {x}) \ T) = Total(f, b)
        BY <2>4, <4>1, Zenon
      <4> QED BY <2>1, <2>3, <2>4, <4>2
    <3>2. CASE x \notin T
      <4>1. T \cap (s \cup {x}) = a /\ (s \cup {x}) \ T = b \cup {x}
        BY <2>2, <3>2
      <4>2. /\ Total(f, T \cap (s \cup {x})) = Total(f, a)
            /\ Total(f, (s \cup {x}) \ T) = Total(f, b) + f[x]
        BY <2>4, <4>1, Zenon
      <4> QED BY <2>1, <2>3, <2>4, <4>2
    <3> QED BY <3>1, <3>2
  <2> QED BY <2>5
<1>3. S \in G
  <2> HIDE DEF G
  <2> QED BY <1>1, <1>2, SetInduct
<1>4. T \cap S = T /\ IsFiniteSet(T) /\ IsFiniteSet(S \ T)
  BY FS_Subset
<1>5. Total(f, T) \in Int /\ Total(f, S \ T) \in Int
  BY <1>4, TotalInt
<1> QED BY <1>3, <1>4, <1>5

\* Nothing but zeros.
LEMMA TotalZero ==
    ASSUME NEW S, IsFiniteSet(S), NEW f, \A x \in S : f[x] = 0
    PROVE  Total(f, S) = 0
<1> DEFINE G == {s \in SUBSET S : Total(f, s) = 0}
<1>1. {} \in G
  BY TotalEmpty
<1>2. ASSUME NEW s \in SUBSET S, NEW x \in S, s \in G, x \notin s PROVE s \cup {x} \in G
  <2>1. IsFiniteSet(s) /\ (\A y \in s : f[y] \in Int) /\ f[x] \in Int /\ f[x] = 0
    BY FS_Subset
  <2>2. Total(f, s \cup {x}) = Total(f, s) + f[x]
    BY <1>2, <2>1, TotalAdd
  <2>3. Total(f, s \cup {x}) = 0
    BY <1>2, <2>1, <2>2
  <2> QED BY <2>3
<1>3. S \in G
  <2> HIDE DEF G
  <2> QED BY <1>1, <1>2, SetInduct
<1> QED BY <1>3
=============================================================================
