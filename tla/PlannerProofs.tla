--------------------------- MODULE PlannerProofs ---------------------------
(***************************************************************************)
(* The loops of the planner, for any candidates, layers and limits.  They  *)
(* cut the layers into non-empty contiguous ranges on different nodes,     *)
(* whatever the targets are (IInv); they count the fewest candidates that  *)
(* hold the model (Counted), lose no byte of it (ByteInv) and end (Work).  *)
(*                                                                         *)
(* The last three need facts about sums, which are recursive functions.    *)
(* They are proved by minimal counterexample: a set of subsets of a finite *)
(* set has a minimal member (MinimalSubset).                               *)
(***************************************************************************)
EXTENDS Planner, FiniteSetTheorems, TLAPS

\* max(a, b) of the code, written Max({a, b}), is the larger of the two.
LEMMA MaxOfPair ==
  ASSUME NEW a \in Int, NEW b \in Int
  PROVE  Max({a, b}) \in {a, b} /\ Max({a, b}) >= a /\ Max({a, b}) >= b
<1>1. \E x \in {a, b} : \A y \in {a, b} : x >= y
  <2>1. CASE a >= b  BY <2>1
  <2>2. CASE ~(a >= b)  BY <2>2
  <2> QED BY <2>1, <2>2
<1> QED BY <1>1 DEF Max

\* min(a, b) of the code, written Min({a, b}), is the smaller of the two.
LEMMA MinOfPair ==
  ASSUME NEW a \in Int, NEW b \in Int
  PROVE  Min({a, b}) \in {a, b} /\ Min({a, b}) <= a /\ Min({a, b}) <= b
<1>1. \E x \in {a, b} : \A y \in {a, b} : x =< y
  <2>1. CASE a <= b  BY <2>1
  <2>2. CASE ~(a <= b)  BY <2>2
  <2> QED BY <2>1, <2>2
<1> QED BY <1>1 DEF Min

-----------------------------------------------------------------------------
(* Sums over finite sets *)

\* A set of subsets of a finite set has a minimal element: what the proofs below
\* use in place of induction, applied to the set of counterexamples.
LEMMA MinimalSubset ==
  ASSUME NEW S, IsFiniteSet(S), NEW T, T \subseteq SUBSET S, T # {}
  PROVE  \E x \in T : \A y \in T : y \subseteq x => y = x
<1>1. IsWellFoundedOn(StrictSubsetOrdering(S), SUBSET S)
  BY FS_StrictSubsetOrderingWellFounded, FS_FiniteSubsetsOfFinite
<1>2. PICK x \in T : \A y \in T : ~(<<y, x>> \in StrictSubsetOrdering(S))
  BY <1>1, WFMin
<1>3. ASSUME NEW y \in T, y \subseteq x  PROVE y = x
  <2>1. y \in SUBSET S /\ x \in SUBSET S  OBVIOUS
  <2>2. y # x => <<y, x>> \in StrictSubsetOrdering(S)  BY <1>3, <2>1 DEF StrictSubsetOrdering
  <2> QED BY <1>2, <2>2
<1> QED BY <1>3

\* The equation that defines a sum over the subsets of S: take an element away
\* and add the sum of the rest.
Some(s) == CHOOSE x \in s : TRUE
IsSumOn(f, S, g) ==
  g = [s \in SUBSET S |-> IF s = {} THEN 0 ELSE f[Some(s)] + g[s \ {Some(s)}]]

\* The library's sum is a solution of this equation, if there is one.
LEMMA SumIsChosen ==
  ASSUME NEW f, NEW S
  PROVE  SumFunctionOnSet(f, S) = (CHOOSE g : IsSumOn(f, S, g))[S]
BY DEF SumFunctionOnSet, FoldFunctionOnSet, MapThenFoldSet, IsSumOn, Some

\* Two solutions agree wherever both are defined.
LEMMA SumAgrees ==
  ASSUME NEW f, NEW S, NEW T, NEW g, NEW h, IsFiniteSet(S),
         IsSumOn(f, S, g), IsSumOn(f, T, h), NEW U \in SUBSET S, U \subseteq T
  PROVE  g[U] = h[U]
<1> DEFINE Bad == {V \in SUBSET S : V \subseteq T /\ g[V] # h[V]}
<1> SUFFICES ASSUME Bad # {}  PROVE FALSE
  OBVIOUS
<1>1. PICK V \in Bad : \A W \in Bad : W \subseteq V => W = V
  <2>1. Bad \subseteq SUBSET S  OBVIOUS
  <2> HIDE DEF Bad
  <2> QED BY <2>1, MinimalSubset
<1>2. V \in SUBSET S /\ V \in SUBSET T /\ g[V] # h[V]  OBVIOUS
<1>3. /\ g[V] = IF V = {} THEN 0 ELSE f[Some(V)] + g[V \ {Some(V)}]
      /\ h[V] = IF V = {} THEN 0 ELSE f[Some(V)] + h[V \ {Some(V)}]
  BY <1>2, Zenon DEF IsSumOn
<1>4. V # {} /\ g[V \ {Some(V)}] # h[V \ {Some(V)}]  BY <1>2, <1>3
<1>5. Some(V) \in V  BY <1>4 DEF Some
<1> QED BY <1>1, <1>2, <1>4, <1>5

\* There is a solution for every finite set.
LEMMA SumExists ==
  ASSUME NEW f, NEW S, IsFiniteSet(S)
  PROVE  \E g : IsSumOn(f, S, g)
<1> DEFINE Bad == {V \in SUBSET S : ~\E g : IsSumOn(f, V, g)}
<1> SUFFICES ASSUME Bad # {}  PROVE FALSE
  OBVIOUS
<1>1. PICK U \in Bad : \A W \in Bad : W \subseteq U => W = U
  <2>1. Bad \subseteq SUBSET S  OBVIOUS
  <2> HIDE DEF Bad
  <2> QED BY <2>1, MinimalSubset
<1>2. U \in SUBSET S /\ ~\E g : IsSumOn(f, U, g)  OBVIOUS
<1> DEFINE Sum(V) == (CHOOSE g : IsSumOn(f, V, g))[V]
           g == [s \in SUBSET U |-> IF s = {} THEN 0 ELSE f[Some(s)] + Sum(s \ {Some(s)})]
<1>3. ASSUME NEW V \in SUBSET U, V # U
      PROVE  IsSumOn(f, V, CHOOSE h : IsSumOn(f, V, h))
  <2>1. V \in SUBSET S /\ V \notin Bad  BY <1>1, <1>2, <1>3
  <2>2. \E h : IsSumOn(f, V, h)  BY <2>1
  <2> HIDE DEF Bad
  <2> QED BY <2>2
<1>4. ASSUME NEW V \in SUBSET U, V # U
      PROVE  Sum(V) = IF V = {} THEN 0 ELSE f[Some(V)] + Sum(V \ {Some(V)})
  <2>1. PICK h : h = CHOOSE k : IsSumOn(f, V, k)  OBVIOUS
  <2>2. IsSumOn(f, V, h)  BY <1>3, <1>4, <2>1
  <2>3. h[V] = IF V = {} THEN 0 ELSE f[Some(V)] + h[V \ {Some(V)}]
    <3>1. V \in SUBSET V  OBVIOUS
    <3> QED BY <2>2, <3>1, Zenon DEF IsSumOn
  <2>4. Sum(V) = h[V]  BY <2>1
  <2>5. CASE V = {}  BY <2>3, <2>4, <2>5
  <2>6. CASE V # {}
    <3>1. Some(V) \in V  BY <2>6 DEF Some
    <3> DEFINE W == V \ {Some(V)}
    <3>2. W \in SUBSET U /\ W # U /\ W \in SUBSET V  BY <1>4, <3>1
    <3>3. PICK k : k = CHOOSE j : IsSumOn(f, W, j)  OBVIOUS
    <3>4. IsSumOn(f, W, k)
      <4> HIDE DEF W
      <4> QED BY <1>3, <3>2, <3>3
    <3>5. IsFiniteSet(V)  BY <1>2, FS_Subset
    <3>6. W \subseteq W  OBVIOUS
    <3>7. h[W] = k[W]
      <4> HIDE DEF W
      <4> QED BY <2>2, <3>2, <3>4, <3>5, <3>6, SumAgrees
    <3>8. Sum(W) = k[W]  BY <3>3
    <3> QED BY <2>3, <2>4, <2>6, <3>7, <3>8
  <2> QED BY <2>5, <2>6
<1> HIDE DEF Sum, Bad
<1>5. ASSUME NEW s \in SUBSET U, s # {}
      PROVE  Sum(s \ {Some(s)}) = g[s \ {Some(s)}]
  <2>1. Some(s) \in s  BY <1>5 DEF Some
  <2>2. s \ {Some(s)} \in SUBSET U /\ s \ {Some(s)} # U  BY <2>1
  <2> QED BY <1>4, <2>2
<1>6. IsSumOn(f, U, g)
  <2>1. \A s \in SUBSET U :
          g[s] = IF s = {} THEN 0 ELSE f[Some(s)] + g[s \ {Some(s)}]
    BY <1>5
  <2>2. PICK k : k = g  OBVIOUS
  <2>3. k = [s \in SUBSET U |-> k[s]]  BY <2>2
  <2>4. \A s \in SUBSET U :
          k[s] = IF s = {} THEN 0 ELSE f[Some(s)] + k[s \ {Some(s)}]
    BY <2>1, <2>2
  <2> HIDE DEF g
  <2>5. [s \in SUBSET U |-> k[s]]
          = [s \in SUBSET U |-> IF s = {} THEN 0 ELSE f[Some(s)] + k[s \ {Some(s)}]]
    BY <2>4, Zenon
  <2>6. IsSumOn(f, U, k)  BY <2>3, <2>5 DEF IsSumOn
  <2> QED BY <2>2, <2>6
<1> QED BY <1>2, <1>6

\* The sum over a set: take the chosen element away and add the sum of the rest.
LEMMA SumUnfolds ==
  ASSUME NEW f, NEW S, IsFiniteSet(S)
  PROVE  SumFunctionOnSet(f, S) =
           IF S = {} THEN 0
           ELSE f[Some(S)] + SumFunctionOnSet(f, S \ {Some(S)})
<1>1. PICK g : g = CHOOSE h : IsSumOn(f, S, h)  OBVIOUS
<1>2. IsSumOn(f, S, g)  BY <1>1, SumExists
<1>3. SumFunctionOnSet(f, S) = g[S]  BY <1>1, SumIsChosen
<1>4. g[S] = IF S = {} THEN 0 ELSE f[Some(S)] + g[S \ {Some(S)}]
  <2>1. S \in SUBSET S  OBVIOUS
  <2> QED BY <1>2, <2>1, Zenon DEF IsSumOn
<1>5. CASE S = {}  BY <1>3, <1>4, <1>5
<1>6. CASE S # {}
  <2> DEFINE T == S \ {Some(S)}
  <2>1. IsFiniteSet(T) /\ T \in SUBSET S /\ T \subseteq T  BY FS_Subset
  <2> HIDE DEF T
  <2>2. PICK h : h = CHOOSE k : IsSumOn(f, T, k)  OBVIOUS
  <2>3. IsSumOn(f, T, h)  BY <2>1, <2>2, SumExists
  <2>4. g[T] = h[T]  BY <1>2, <2>1, <2>3, SumAgrees
  <2>5. SumFunctionOnSet(f, T) = h[T]  BY <2>2, SumIsChosen
  <2> QED BY <1>3, <1>4, <1>6, <2>4, <2>5 DEF T
<1> QED BY <1>5, <1>6

\* A sum of integers is one, a sum of naturals is one.
LEMMA SumType ==
  ASSUME NEW f, NEW S, IsFiniteSet(S), \A x \in S : f[x] \in Int
  PROVE  /\ SumFunctionOnSet(f, S) \in Int
         /\ (\A x \in S : f[x] >= 0) => SumFunctionOnSet(f, S) >= 0
<1> DEFINE Good(V) == /\ SumFunctionOnSet(f, V) \in Int
                      /\ (\A x \in V : f[x] >= 0) => SumFunctionOnSet(f, V) >= 0
           Bad == {V \in SUBSET S : ~Good(V)}
<1> SUFFICES ASSUME Bad # {}  PROVE FALSE
  OBVIOUS
<1>1. PICK V \in Bad : \A W \in Bad : W \subseteq V => W = V
  <2>1. Bad \subseteq SUBSET S  OBVIOUS
  <2> HIDE DEF Bad
  <2> QED BY <2>1, MinimalSubset
<1>2. V \in SUBSET S /\ ~Good(V)  OBVIOUS
<1>3. IsFiniteSet(V)  BY <1>2, FS_Subset
<1>4. SumFunctionOnSet(f, V) = IF V = {} THEN 0
                               ELSE f[Some(V)] + SumFunctionOnSet(f, V \ {Some(V)})
  BY <1>3, SumUnfolds
<1>5. V # {}  BY <1>2, <1>4
<1>6. Some(V) \in V  BY <1>5 DEF Some
<1>7. Good(V \ {Some(V)})
  <2>1. V \ {Some(V)} \in SUBSET S /\ V \ {Some(V)} # V  BY <1>2, <1>6
  <2> HIDE DEF Good
  <2> QED BY <1>1, <2>1
<1>8. f[Some(V)] \in Int  BY <1>2, <1>6
<1> QED BY <1>2, <1>4, <1>5, <1>6, <1>7, <1>8

\* The order in which the elements are added does not matter: any of them may be
\* the last one.
LEMMA SumWithout ==
  ASSUME NEW f, NEW S, IsFiniteSet(S), \A x \in S : f[x] \in Int, NEW e \in S
  PROVE  SumFunctionOnSet(f, S) = f[e] + SumFunctionOnSet(f, S \ {e})
<1> DEFINE Good(V) == \A x \in V : SumFunctionOnSet(f, V) = f[x] + SumFunctionOnSet(f, V \ {x})
           Bad == {V \in SUBSET S : ~Good(V)}
<1> SUFFICES ASSUME Bad # {}  PROVE FALSE
  OBVIOUS
<1>1. PICK V \in Bad : \A W \in Bad : W \subseteq V => W = V
  <2>1. Bad \subseteq SUBSET S  OBVIOUS
  <2> HIDE DEF Bad
  <2> QED BY <2>1, MinimalSubset
<1>2. PICK x \in V : SumFunctionOnSet(f, V) # f[x] + SumFunctionOnSet(f, V \ {x})
  OBVIOUS
<1>3. IsFiniteSet(V) /\ V \in SUBSET S /\ V # {}  BY FS_Subset
<1> DEFINE p == Some(V)
<1>4. p \in V  BY <1>3 DEF Some
<1>5. SumFunctionOnSet(f, V) = f[p] + SumFunctionOnSet(f, V \ {p})  BY <1>3, SumUnfolds
<1> HIDE DEF p
<1>6. p # x  BY <1>2, <1>5
<1>7. Good(V \ {p}) /\ Good(V \ {x})
  <2>1. V \ {p} \in SUBSET S /\ V \ {p} # V /\ V \ {x} \in SUBSET S /\ V \ {x} # V
    BY <1>3, <1>4
  <2> HIDE DEF Good
  <2> QED BY <1>1, <2>1
<1>8. SumFunctionOnSet(f, V \ {p}) = f[x] + SumFunctionOnSet(f, (V \ {p}) \ {x})
  BY <1>6, <1>7
<1>9. SumFunctionOnSet(f, V \ {x}) = f[p] + SumFunctionOnSet(f, (V \ {x}) \ {p})
  BY <1>4, <1>6, <1>7
<1>10. (V \ {p}) \ {x} = (V \ {x}) \ {p}  OBVIOUS
<1>11. SumFunctionOnSet(f, (V \ {p}) \ {x}) \in Int
  <2> DEFINE W == (V \ {p}) \ {x}
  <2>1. IsFiniteSet(W) /\ \A y \in W : f[y] \in Int  BY <1>3, FS_Subset
  <2> HIDE DEF W
  <2>2. SumFunctionOnSet(f, W) \in Int  BY <2>1, SumType
  <2> QED BY <2>2 DEF W
<1>12. f[p] \in Int /\ f[x] \in Int  BY <1>3, <1>4
<1> HIDE DEF Good, Bad
<1>13. PICK rest \in Int : rest = SumFunctionOnSet(f, (V \ {p}) \ {x})  BY <1>11
<1>14. SumFunctionOnSet(f, V) = f[p] + (f[x] + rest)  BY <1>5, <1>8, <1>13
<1>15. SumFunctionOnSet(f, V \ {x}) = f[p] + rest  BY <1>9, <1>10, <1>13
<1> QED BY <1>2, <1>12, <1>14, <1>15

\* A set of numbers has a least element.
LEMMA LeastNumber ==
  ASSUME NEW T, T \subseteq Nat, T # {}
  PROVE  \E n \in T : \A m \in T : n <= m
<1>1. PICK top \in T : TRUE  OBVIOUS
<1> DEFINE F == {0..t : t \in {u \in T : u <= top}}
<1>2. F \subseteq SUBSET (0..top) /\ 0..top \in F  BY <1>1
<1>3. IsFiniteSet(0..top)
  <2>1. 0 \in Int /\ top \in Int  OBVIOUS
  <2> QED BY <2>1, FS_Interval
<1>4. PICK x \in F : \A y \in F : y \subseteq x => y = x
  <2> DEFINE S == 0..top
  <2>1. IsFiniteSet(S) /\ F \subseteq SUBSET S /\ F # {}  BY <1>2, <1>3
  <2> HIDE DEF F, S
  <2> QED BY <2>1, MinimalSubset
<1>5. PICK n \in T : n <= top /\ x = 0..n  BY <1>4
<1>6. ASSUME NEW m \in T  PROVE n <= m
  <2> SUFFICES ASSUME m < n  PROVE FALSE
    OBVIOUS
  <2>1. m \in Nat /\ n \in Nat /\ top \in Nat  OBVIOUS
  <2>2. m <= top  BY <1>5, <2>1
  <2>3. 0..m \in F  BY <2>2
  <2>4. 0..m \subseteq 0..n  BY <2>1
  <2>5. n \in 0..n /\ n \notin 0..m  BY <2>1
  <2> HIDE DEF F
  <2> QED BY <1>4, <1>5, <2>3, <2>4, <2>5
<1> QED BY <1>5, <1>6

-----------------------------------------------------------------------------
(* The order of the candidates *)

\* No two candidates come before each other, whatever their numbers.
LEMMA BeforeAsymmetric ==
  ASSUME NEW a, NEW b,
         {a.id, a.active, a.slots, a.memory, b.id, b.active, b.slots, b.memory} \subseteq Int,
         Before(a, b), Before(b, a)
  PROVE  FALSE
<1>1. PICK x \in Int : x = a.active * b.slots  OBVIOUS
<1>2. PICK y \in Int : y = b.active * a.slots  OBVIOUS
<1>3. \/ x < y
      \/ x = y /\ a.memory > b.memory
      \/ x = y /\ a.memory = b.memory /\ a.id < b.id
  BY <1>1, <1>2 DEF Before, SameLoad
<1>4. \/ y < x
      \/ y = x /\ b.memory > a.memory
      \/ y = x /\ b.memory = a.memory /\ b.id < a.id
  BY <1>1, <1>2 DEF Before, SameLoad
<1> QED BY <1>3, <1>4

\* sort.Slice has one result: at the first place where two sorted arrangements
\* differ, each of the two candidates would come before the other.
LEMMA SortedUnique ==
  ASSUME NEW C, IsFiniteSet(C),
         \A a \in C : {a.id, a.active, a.slots, a.memory} \subseteq Int,
         NEW s \in Sorted(C), NEW t \in Sorted(C)
  PROVE  s = t
<1> DEFINE n == Cardinality(C)
<1>1. n \in Nat  BY FS_CardinalityType
<1>2. /\ s \in Bijection(1..n, C) /\ t \in Bijection(1..n, C)
      /\ \A i, j \in 1..n : i < j => Before(s[i], s[j])
      /\ \A i, j \in 1..n : i < j => Before(t[i], t[j])
  BY DEF Sorted
<1> HIDE DEF n
<1>3. /\ s \in [1..n -> C] /\ t \in [1..n -> C]
      /\ \A i, j \in 1..n : s[i] = s[j] => i = j
      /\ \A i, j \in 1..n : t[i] = t[j] => i = j
      /\ \A c \in C : \E i \in 1..n : s[i] = c
      /\ \A c \in C : \E i \in 1..n : t[i] = c
  BY <1>2 DEF Bijection, Injection, Surjection, IsInjective
<1> DEFINE Differ == {i \in 1..n : s[i] # t[i]}
<1>4. SUFFICES ASSUME Differ # {}  PROVE FALSE
  <2>1. \A i \in 1..n : s[i] = t[i]  BY <1>4
  <2>2. s = [i \in 1..n |-> s[i]] /\ t = [i \in 1..n |-> t[i]]  BY <1>3
  <2> QED BY <2>1, <2>2, Zenon
<1>5. PICK i \in Differ : \A k \in Differ : i <= k
  <2>1. Differ \subseteq Nat  BY <1>1
  <2> HIDE DEF Differ
  <2> QED BY <1>4, <2>1, LeastNumber
<1>6. i \in 1..n /\ s[i] # t[i] /\ s[i] \in C /\ t[i] \in C  BY <1>3
<1>7. \A k \in 1..n : k < i => s[k] = t[k]
  <2> SUFFICES ASSUME NEW k \in 1..n, k < i, k \in Differ  PROVE FALSE
    OBVIOUS
  <2> HIDE DEF Differ
  <2>1. i <= k /\ i \in Nat /\ k \in Nat  BY <1>1, <1>5, <1>6
  <2> QED BY <2>1
<1> HIDE DEF Differ
<1>8. PICK j \in 1..n : t[j] = s[i]  BY <1>3, <1>6
<1>9. PICK k \in 1..n : s[k] = t[i]  BY <1>3, <1>6
<1>10. i < j
  <2>1. i # j  BY <1>6, <1>8
  <2>2. ~(j < i)
    <3> SUFFICES ASSUME j < i  PROVE FALSE
      OBVIOUS
    <3>1. s[j] = s[i]  BY <1>7, <1>8
    <3>2. j = i  BY <1>3, <1>6, <3>1
    <3> QED BY <2>1, <3>2
  <2> QED BY <1>1, <1>6, <2>1, <2>2
<1>11. i < k
  <2>1. i # k  BY <1>6, <1>9
  <2>2. ~(k < i)
    <3> SUFFICES ASSUME k < i  PROVE FALSE
      OBVIOUS
    <3>1. t[k] = t[i]  BY <1>7, <1>9
    <3>2. k = i  BY <1>3, <1>6, <3>1
    <3> QED BY <2>1, <3>2
  <2> QED BY <1>1, <1>6, <2>1, <2>2
<1>12. Before(t[i], s[i]) /\ Before(s[i], t[i])  BY <1>2, <1>6, <1>8, <1>9, <1>10, <1>11
<1>13. {s[i].id, s[i].active, s[i].slots, s[i].memory,
        t[i].id, t[i].active, t[i].slots, t[i].memory} \subseteq Int
  BY <1>6
<1> QED BY <1>12, <1>13, BeforeAsymmetric

-----------------------------------------------------------------------------
(* The memory of the counted candidates *)

\* What the counting loop adds up is the combined memory of the first candidates,
\* for the next one too.
LEMMA MemoryStep ==
  ASSUME NEW C, \A a \in C : a.memory \in Int, NEW n \in Nat, NEW s \in [1..n -> C]
  PROVE  /\ Memory(s, 0) = 0
         /\ \A k \in 0..n : Memory(s, k) \in Int
         /\ \A k \in 0..(n - 1) : Memory(s, k + 1) = Memory(s, k) + Weight(s[k + 1])
<1> DEFINE w == [i \in DOMAIN s |-> Weight(s[i])]
<1>1. \A i \in 1..n : w[i] = Weight(s[i]) /\ w[i] \in Int
  <2> SUFFICES ASSUME NEW i \in 1..n  PROVE w[i] = Weight(s[i]) /\ Weight(s[i]) \in Int
    OBVIOUS
  <2>1. s[i].memory \in Int /\ 1 \in Int  OBVIOUS
  <2>2. Max({s[i].memory, 1}) \in {s[i].memory, 1}  BY <2>1, MaxOfPair
  <2> QED BY <2>1, <2>2 DEF Weight
<1>2. \A k : Memory(s, k) = SumFunctionOnSet(w, 1..k)  BY DEF Memory
<1> HIDE DEF w
<1>3. ASSUME NEW k \in 0..n
      PROVE  IsFiniteSet(1..k) /\ \A i \in 1..k : w[i] \in Int
  <2>1. 1 \in Int /\ k \in Int  OBVIOUS
  <2> QED BY <1>1, <2>1, FS_Interval
<1>4. Memory(s, 0) = 0
  <2>1. 1..0 = {}  OBVIOUS
  <2> DEFINE S == 1..0
  <2>2. IsFiniteSet(S) /\ S = {}  BY <2>1, FS_EmptySet
  <2> HIDE DEF S
  <2>3. SumFunctionOnSet(w, S) = 0  BY <2>2, SumUnfolds
  <2> QED BY <1>2, <2>3 DEF S
<1>5. ASSUME NEW k \in 0..n  PROVE Memory(s, k) \in Int
  <2> DEFINE S == 1..k
  <2>1. IsFiniteSet(S) /\ \A i \in S : w[i] \in Int  BY <1>3
  <2> HIDE DEF S
  <2>2. SumFunctionOnSet(w, S) \in Int  BY <2>1, SumType
  <2> QED BY <1>2, <2>2 DEF S
<1>6. ASSUME NEW k \in 0..(n - 1)
      PROVE  Memory(s, k + 1) = Memory(s, k) + Weight(s[k + 1])
  <2> DEFINE S == 1..(k + 1)
  <2>1. k + 1 \in 0..n /\ k \in 0..n /\ k + 1 \in 1..n  OBVIOUS
  <2>2. IsFiniteSet(S) /\ \A i \in S : w[i] \in Int  BY <1>3, <2>1
  <2>3. k + 1 \in S /\ S \ {k + 1} = 1..k  OBVIOUS
  <2>4. SumFunctionOnSet(w, S) = w[k + 1] + SumFunctionOnSet(w, S \ {k + 1})
    <3>1. PICK e : e = k + 1  OBVIOUS
    <3>2. e \in S  BY <2>3, <3>1
    <3> HIDE DEF S
    <3>3. SumFunctionOnSet(w, S) = w[e] + SumFunctionOnSet(w, S \ {e})
      BY <2>2, <3>2, SumWithout
    <3> QED BY <3>1, <3>3
  <2>5. Memory(s, k + 1) = w[k + 1] + Memory(s, k)  BY <1>2, <2>3, <2>4
  <2>6. Memory(s, k) \in Int /\ w[k + 1] \in Int /\ w[k + 1] = Weight(s[k + 1])
    BY <1>1, <1>5, <2>1
  <2> QED BY <2>5, <2>6
<1> QED BY <1>4, <1>5, <1>6

\* A model whose layers all have a size has one, and so is the memory it needs.
LEMMA SizeType ==
  ASSUME input \in Inputs
  PROVE  /\ ModelSize \in Int /\ NeededMB(ModelSize) \in Int
         /\ ~Rejects => ModelSize >= 0
<1>1. input.bytes \in Seq(Int) /\ Layers \in Nat /\ DOMAIN input.bytes = 1..Layers
  BY PlannerAssumption DEF Layers
<1> DEFINE S == (0 + 1)..Layers
<1>2. S = DOMAIN input.bytes /\ \A i \in S : input.bytes[i] \in Int  BY <1>1
<1>3. IsFiniteSet(S)
  <2>1. S = 1..Layers /\ 1 \in Int /\ Layers \in Int  BY <1>1
  <2> HIDE DEF S
  <2> QED BY <2>1, FS_Interval
<1>4. ModelSize = SumFunctionOnSet(input.bytes, S)  BY DEF ModelSize, Bytes
<1> HIDE DEF S
<1>5. /\ ModelSize \in Int
      /\ (\A i \in S : input.bytes[i] >= 0) => ModelSize >= 0
  BY <1>2, <1>3, <1>4, SumType
<1>6. ~Rejects => \A i \in S : input.bytes[i] >= 0  BY <1>2 DEF Rejects
<1>7. NeededMB(ModelSize) \in Int  BY <1>5, MiBAssumption DEF NeededMB
<1> QED BY <1>5, <1>6, <1>7

-----------------------------------------------------------------------------
N == Cardinality(input.cands)

\* The bounds of both loops are numbers; the upper one is at most the number of
\* layers.
LEMMA Bounds ==
  ASSUME input \in Inputs
  PROVE  /\ N \in Nat /\ Layers \in Nat
         /\ Lo \in Int /\ Lo >= 2
         /\ Hi \in Int /\ Hi <= Layers
<1>1. /\ IsFiniteSet(input.cands) /\ input.bytes \in Seq(Int)
      /\ input.minNodes \in Int /\ input.maxNodes \in Int
  BY PlannerAssumption
<1>2. N \in Nat  BY <1>1, FS_CardinalityType DEF N
<1>3. Layers \in Nat  BY <1>1 DEF Layers
<1>4. Lo \in Int /\ Lo >= 2
  <2>1. 2 \in Int  OBVIOUS
  <2>2. Max({input.minNodes, 2}) \in {input.minNodes, 2} /\ Max({input.minNodes, 2}) >= 2
    BY <1>1, <2>1, MaxOfPair
  <2> QED BY <1>1, <2>2 DEF Lo, MinStages
<1>5. Hi \in Int /\ Hi <= Layers  BY <1>1, <1>3 DEF Hi, MaxStages
<1> QED BY <1>2, <1>3, <1>4, <1>5

\* What the loops maintain.  Placed: the number of stages and the candidates are
\* fixed; Frontier: where the next stage starts.
Placed ==
  /\ usable \in Injection(1..N, input.cands)
  /\ count <= N /\ count <= Hi /\ Hi >= Lo /\ N >= Lo

Frontier == start = IF plan = <<>> THEN 0 ELSE plan[Len(plan)].layerEnd

\* A stage of a plan; the sizes are sums of some entries of some layer list.
ByteCounts == {SumFunctionOnSet(in.bytes, S) : in \in Inputs, S \in SUBSET Nat}
Entry == [node : Int, layerStart : Nat, layerEnd : Nat, memory : Int, tensorBytes : ByteCounts]

\* LayersPartitioned says nothing of a plan that is not finished beyond its last
\* stage; the frontier and the bounds on count make it inductive.
IInv ==
  /\ TypeOK
  /\ LayersPartitioned
  /\ plan \in Seq(Entry)
  /\ pc \in {"begin", "count", "rejected"} => plan = <<>>
  /\ pc = "begin" => count = 0
  /\ pc \in {"count", "assign", "extend", "done"} => Placed
  /\ pc \in {"assign", "extend"} => count >= Lo /\ Len(plan) < count
  /\ Frontier
  /\ \A i \in DOMAIN plan : plan[i].node = usable[i].id

\* Nothing is planned when PlanLayers is entered.
LEMMA InitIInv == Init => IInv
<1> SUFFICES ASSUME Init  PROVE IInv
  OBVIOUS
<1>1. N \in Nat /\ Layers \in Nat  BY Bounds DEF Init
<1>2. plan = <<>> /\ plan \in Seq(Entry) /\ Len(plan) = 0 /\ DOMAIN plan = {}  BY DEF Init
<1> QED BY <1>1, <1>2 DEF Init, IInv, TypeOK, LayersPartitioned, Frontier, N

\* The steps that leave the plan alone keep what is said of it.
LEMMA BeginIInv ==
  ASSUME IInv, Begin
  PROVE  IInv'
<1>1. /\ input' = input /\ plan' = <<>> /\ start' = start /\ plan = <<>>
      /\ Layers' = Layers /\ N' = N /\ Lo' = Lo /\ Hi' = Hi
  BY DEF Begin, IInv, Layers, N, Lo, Hi
<1>2. input \in Inputs  BY DEF IInv, TypeOK
<1>3. N \in Nat /\ Layers \in Nat /\ Lo \in Int /\ Lo >= 2 /\ Hi \in Int /\ Hi <= Layers
  BY <1>2, Bounds
<1>4. plan' \in Seq(Entry) /\ Len(plan') = 0 /\ DOMAIN plan' = {}  BY <1>1
<1>5. CASE Rejects
  <2>1. pc' = "rejected" /\ count' = count  BY <1>5 DEF Begin
  <2> QED BY <1>1, <1>2, <1>3, <1>4, <2>1 DEF IInv, TypeOK, LayersPartitioned, Frontier, N
<1>6. CASE ~Rejects
  <2>1. usable' \in Injection(1..N, input.cands)
    BY <1>6 DEF Begin, Sorted, Bijection, N
  <2>2. Hi >= Lo /\ N >= Lo  BY <1>3, <1>6 DEF Rejects, N
  <2>3. CASE pc' = "count" /\ count' = count
    <3>1. count' = 0  BY <2>3 DEF Begin, IInv
    <3> QED BY <1>1, <1>2, <1>3, <1>4, <2>1, <2>2, <2>3, <3>1
            DEF IInv, TypeOK, LayersPartitioned, Frontier, Placed, N
  <2>4. CASE pc' = "assign" /\ count' = Min({Hi, N})
    <3>1. Min({Hi, N}) \in {Hi, N} /\ Min({Hi, N}) <= Hi /\ Min({Hi, N}) <= N
      BY <1>3, MinOfPair
    <3>2. count' \in 0..N /\ count' <= Hi /\ count' >= Lo  BY <1>3, <2>2, <2>4, <3>1
    <3>3. start' = 0  BY <1>1 DEF IInv, Frontier
    <3>4. TypeOK'  BY <1>1, <1>2, <1>3, <1>4, <2>4, <3>2, <3>3 DEF TypeOK, N
    <3>5. LayersPartitioned'  BY <1>1, <1>3, <1>4, <2>4, <3>2, <3>3 DEF LayersPartitioned
    <3>6. Placed'  BY <1>1, <2>1, <2>2, <3>2 DEF Placed
    <3>7. Frontier'  BY <1>1, <3>3 DEF Frontier
    <3>8. count' >= Lo' /\ Len(plan') < count'  BY <1>1, <1>3, <1>4, <3>2
    <3>9. pc' = "assign" /\ \A i \in DOMAIN plan' : plan'[i].node = usable'[i].id  BY <1>4, <2>4
    <3> QED BY <1>1, <1>4, <3>4, <3>5, <3>6, <3>7, <3>8, <3>9 DEF IInv
  <2> QED BY <1>6, <2>3, <2>4 DEF Begin, N
<1> QED BY <1>5, <1>6

\* The counting loop stays within the candidates and stops within the limits.
LEMMA CountIInv ==
  ASSUME IInv, CountNode \/ OutOfNodes
  PROVE  IInv'
<1>1. /\ pc = "count" /\ input' = input /\ plan' = plan /\ start' = start /\ usable' = usable
      /\ plan = <<>>
      /\ Layers' = Layers /\ N' = N /\ Lo' = Lo /\ Hi' = Hi
  BY DEF CountNode, OutOfNodes, IInv, Layers, N, Lo, Hi
<1>2. input \in Inputs  BY DEF IInv, TypeOK
<1>3. N \in Nat /\ Layers \in Nat /\ Lo \in Int /\ Lo >= 2 /\ Hi \in Int /\ Hi <= Layers
  BY <1>2, Bounds
<1>4. plan' \in Seq(Entry) /\ Len(plan') = 0 /\ DOMAIN plan' = {}  BY <1>1
<1>5. Placed /\ count \in 0..N /\ start = 0  BY <1>1 DEF IInv, TypeOK, Frontier, N
<1>6. /\ pc' \in {"count", "assign", "rejected"}
      /\ count' \in 0..N /\ count' <= Hi
      /\ pc' = "assign" => count' >= Lo
  BY <1>3, <1>5 DEF CountNode, OutOfNodes, More, Enough, Placed, N
<1>7. TypeOK'  BY <1>1, <1>2, <1>3, <1>4, <1>5, <1>6 DEF TypeOK, N
<1>8. LayersPartitioned'
  <2>1. Layers' - start' >= count' - Len(plan')
    <3>1. PICK c \in Int : c = count'  BY <1>6
    <3>2. c <= Hi  BY <1>6, <3>1
    <3>3. Layers - 0 >= c - 0  BY <1>3, <3>2
    <3>4. Layers' = Layers /\ start' = 0 /\ Len(plan') = 0  BY <1>1, <1>4, <1>5
    <3> QED BY <3>1, <3>3, <3>4
  <2>2. pc' # "done"  BY <1>6
  <2> QED BY <1>4, <2>1, <2>2 DEF LayersPartitioned
<1>9. Placed' /\ Frontier'  BY <1>1, <1>5, <1>6 DEF Placed, Frontier
<1>10. pc' = "assign" => count' >= Lo' /\ Len(plan') < count'  BY <1>1, <1>3, <1>4, <1>6
<1>11. \A i \in DOMAIN plan' : plan'[i].node = usable'[i].id  BY <1>4
<1>12. pc' # "begin" /\ pc' # "extend"  BY <1>6
<1> QED BY <1>1, <1>4, <1>7, <1>8, <1>9, <1>10, <1>11, <1>12 DEF IInv

\* Opening and extending a stage stays below maxEnd.
LEMMA StretchIInv ==
  ASSUME IInv, OpenStage \/ Extend
  PROVE  IInv'
<1>1. /\ pc \in {"assign", "extend"} /\ pc' = "extend"
      /\ input' = input /\ plan' = plan /\ start' = start /\ usable' = usable /\ count' = count
      /\ Layers' = Layers /\ N' = N /\ Lo' = Lo /\ Hi' = Hi /\ MaxEnd' = MaxEnd
  BY DEF OpenStage, Extend, Layers, N, Lo, Hi, MaxEnd, Stage
<1>2. input \in Inputs /\ start \in 0..Layers /\ count \in 0..N  BY DEF IInv, TypeOK, N
<1>3. N \in Nat /\ Layers \in Nat /\ Lo \in Int /\ Lo >= 2 /\ Hi \in Int /\ Hi <= Layers
  BY <1>2, Bounds
<1>4. Len(plan) \in Nat /\ Len(plan) < count /\ Layers - start >= count - Len(plan)
  BY <1>1 DEF IInv, LayersPartitioned
<1>5. end' \in (start + 1)..MaxEnd /\ MaxEnd < Layers
  <2>1. CASE OpenStage
    BY <1>2, <1>3, <1>4, <2>1 DEF OpenStage, MaxEnd, Stage
  <2>2. CASE Extend
    BY <1>2, <1>3, <1>4, <2>2 DEF Extend, StageFull, IInv, TypeOK, MaxEnd, Stage
  <2> QED BY <2>1, <2>2
<1>6. TypeOK'  BY <1>1, <1>2, <1>5 DEF IInv, TypeOK, N
<1>7. LayersPartitioned'  BY <1>1 DEF IInv, LayersPartitioned
<1>8. Placed' /\ Frontier'  BY <1>1 DEF IInv, Placed, Frontier
<1> QED BY <1>1, <1>6, <1>7, <1>8 DEF IInv

\* Closing a stage moves the frontier to its end and leaves a layer for each of
\* the stages to come.
LEMMA CloseIInv ==
  ASSUME IInv, CloseStage \/ LastStage
  PROVE  IInv'
<1> DEFINE to == IF pc = "extend" THEN end ELSE Layers
           new == Assignment(start, to)
           n == Len(plan)
<1>1. /\ pc \in {"assign", "extend"}
      /\ input' = input /\ usable' = usable /\ count' = count
      /\ plan' = Append(plan, new) /\ start' = to
      /\ Layers' = Layers /\ N' = N /\ Lo' = Lo /\ Hi' = Hi
  BY DEF CloseStage, LastStage, Layers, N, Lo, Hi
<1>2. input \in Inputs /\ start \in 0..Layers /\ count \in 0..N  BY DEF IInv, TypeOK, N
<1>3. N \in Nat /\ Layers \in Nat /\ Lo \in Int /\ Lo >= 2 /\ Hi \in Int /\ Hi <= Layers
  BY <1>2, Bounds
<1>4. n \in Nat /\ n < count /\ Layers - start >= count - n /\ Placed
  BY <1>1 DEF IInv, LayersPartitioned
<1>5. /\ to \in (start + 1)..Layers
      /\ CloseStage => pc' = "assign" /\ n + 1 < count /\ Layers - to >= count - (n + 1)
      /\ LastStage => pc' = "done" /\ n + 1 = count /\ to = Layers
  <2>1. CASE CloseStage
    <3>1. pc = "extend" /\ end \in (start + 1)..(Layers - (count - (n + 1)))
          /\ Layers - (count - (n + 1)) < Layers /\ pc' = "assign"
      BY <2>1 DEF CloseStage, IInv, TypeOK, MaxEnd, Stage
    <3> QED BY <1>2, <1>3, <1>4, <3>1 DEF LastStage
  <2>2. CASE LastStage
    BY <1>2, <1>3, <1>4, <2>2 DEF LastStage, CloseStage, Stage
  <2> QED BY <2>1, <2>2
<1>6. usable[n + 1] \in input.cands
  <2>1. n + 1 \in 1..N  BY <1>2, <1>3, <1>4
  <2>2. usable \in [1..N -> input.cands]  BY <1>4 DEF Placed, Injection
  <2> QED BY <2>1, <2>2
<1>7. /\ new \in Entry
      /\ new.node = usable[n + 1].id /\ new.layerStart = start /\ new.layerEnd = to
  <2>1. usable[n + 1].id \in Int /\ usable[n + 1].memory \in Int
    BY <1>2, <1>6, PlannerAssumption
  <2>2. start \in 0..Layers /\ to \in 0..Layers /\ start \in Nat /\ to \in Nat
    BY <1>2, <1>3, <1>5
  <2> HIDE DEF to
  <2>3. Bytes(start, to) \in ByteCounts
    <3>1. (start + 1)..to \in SUBSET Nat  BY <2>2
    <3>2. \E in \in Inputs, S \in SUBSET Nat : Bytes(start, to) = SumFunctionOnSet(in.bytes, S)
      BY <1>2, <3>1, Zenon DEF Bytes
    <3> QED BY <3>2 DEF ByteCounts
  <2> QED BY <2>1, <2>2, <2>3 DEF Assignment, Entry, Stage
<1> HIDE DEF new, to
<1>8. plan \in Seq(Entry)  BY DEF IInv
<1>9. /\ plan' \in Seq(Entry) /\ Len(plan') = n + 1 /\ plan' # <<>>
      /\ DOMAIN plan' = 1..(n + 1) /\ DOMAIN plan = 1..n
      /\ plan'[n + 1] = new /\ \A i \in 1..n : plan'[i] = plan[i]
  BY <1>1, <1>7, <1>8
<1> HIDE DEF n
<1>10. TypeOK'
  BY <1>1, <1>2, <1>3, <1>4, <1>5, <1>9 DEF IInv, TypeOK, N
<1>11. LayersPartitioned'
  <2>1. ASSUME NEW i \in 1..n
        PROVE  /\ plan'[i].layerStart < plan'[i].layerEnd
               /\ plan'[i].layerStart = IF i = 1 THEN 0 ELSE plan'[i - 1].layerEnd
    <3>1. i = 1 \/ i - 1 \in 1..n  BY <1>4
    <3>2. /\ plan[i].layerStart < plan[i].layerEnd
          /\ plan[i].layerStart = IF i = 1 THEN 0 ELSE plan[i - 1].layerEnd
      BY <1>9 DEF IInv, LayersPartitioned
    <3> QED BY <1>9, <3>1, <3>2
  <2>2. start = IF n = 0 THEN 0 ELSE plan[n].layerEnd
    BY <1>8 DEF IInv, Frontier, n
  <2>3. new.layerStart < new.layerEnd  BY <1>2, <1>3, <1>5, <1>7
  <2>4. new.layerStart = IF n + 1 = 1 THEN 0 ELSE plan'[n].layerEnd
    BY <1>4, <1>7, <1>9, <2>2
  <2>5. \A i \in 1..(n + 1) :
          /\ plan'[i].layerStart < plan'[i].layerEnd
          /\ plan'[i].layerStart = IF i = 1 THEN 0 ELSE plan'[i - 1].layerEnd
    BY <1>4, <1>9, <2>1, <2>3, <2>4
  <2>6. /\ pc' \in {"assign", "extend"} => Layers - to >= count - (n + 1)
        /\ pc' = "done" => new.layerEnd = Layers /\ n + 1 = count
    BY <1>5, <1>7
  <2> QED BY <1>1, <1>9, <2>5, <2>6 DEF LayersPartitioned
<1>12. Frontier'  BY <1>1, <1>7, <1>9 DEF Frontier
<1>13. \A i \in 1..(n + 1) : plan'[i].node = usable[i].id
  BY <1>4, <1>7, <1>9 DEF IInv
<1>14. Placed'  BY <1>1, <1>4 DEF Placed
<1>15. count >= Lo  BY <1>1 DEF IInv
<1> QED BY <1>1, <1>5, <1>9, <1>10, <1>11, <1>12, <1>13, <1>14, <1>15 DEF IInv

\* Every iteration of the planner preserves the invariant.
LEMMA NextIInv ==
  ASSUME IInv, [Next]_vars
  PROVE  IInv'
<1>1. CASE UNCHANGED vars
  BY <1>1 DEF vars, IInv, TypeOK, LayersPartitioned, Placed, Frontier, N, Lo, Hi,
              Layers, MaxEnd, Stage
<1> QED BY <1>1, BeginIInv, CountIInv, StretchIInv, CloseIInv DEF Next

\* The invariant of the loops holds throughout.
THEOREM IInvHolds == Spec => []IInv
<1>1. Init => IInv  BY InitIInv
<1>2. IInv /\ [Next]_vars => IInv'  BY NextIInv
<1> QED BY <1>1, <1>2, PTL DEF Spec

\* No index of the planner leaves the candidates or the layers.
THEOREM IndicesInRange == Spec => []TypeOK
<1>1. IInv => TypeOK  BY DEF IInv
<1> QED BY <1>1, IInvHolds, PTL

\* A plan cuts all layers into non-empty contiguous ranges.
THEOREM PlanPartitionsLayers == Spec => []LayersPartitioned
<1>1. IInv => LayersPartitioned  BY DEF IInv
<1> QED BY <1>1, IInvHolds, PTL

-----------------------------------------------------------------------------
(* The number of stages *)

Plans == StagePlans(input.cands, Layers, ModelSize, input.minNodes, input.maxNodes)
Negative == \E i \in DOMAIN input.bytes : input.bytes[i] < 0

\* What the counting loop knows: the sum of what it counted, and that no smaller
\* group within the limits was enough.  After it the number of stages is the one
\* the contract asks for, or there is no such group.
Counted ==
  /\ pc = "begin" => count = 0 /\ total = 0
  /\ pc \notin {"begin", "rejected"} => usable \in Sorted(input.cands) /\ ~Rejects
  /\ pc = "count" =>
       /\ ModelSize > 0
       /\ total = Memory(usable, count)
       /\ \A d \in Lo..count : Memory(usable, d) < NeededMB(ModelSize)
  /\ pc \in {"assign", "extend", "done"} => count \in StageCounts(usable, N, ModelSize, Lo, Hi)
  /\ pc = "rejected" => Negative \/ Plans = {}

\* When no number of candidates within the limits is enough, there is no plan.
LEMMA NoneFits ==
  ASSUME input \in Inputs, usable \in Sorted(input.cands),
         StageCounts(usable, N, ModelSize, Lo, Hi) = {}
  PROVE  Plans = {}
<1>1. \A s \in Sorted(input.cands) : s = usable
  BY SortedUnique, PlannerAssumption
<1>2. \A s \in Sorted(input.cands) : StageCounts(s, N, ModelSize, Lo, Hi) = {}  BY <1>1
<1>3. UNION { {[i \in 1..c |-> s[i].id] : c \in StageCounts(s, N, ModelSize, Lo, Hi)} :
                s \in Sorted(input.cands) } = {}
  BY <1>2
<1> QED BY <1>3 DEF Plans, StagePlans, N, Lo, Hi

\* Nothing is counted when PlanLayers is entered.
LEMMA InitCounted == Init => Counted
BY DEF Init, Counted

\* PlanLayers refuses limits that contradict each other, too few candidates and
\* negative sizes; a model of unknown size takes as many stages as it can.
LEMMA BeginCounted ==
  ASSUME IInv, Counted, Begin
  PROVE  Counted'
<1>1. /\ pc = "begin" /\ input' = input /\ total' = 0 /\ count = 0
      /\ Layers' = Layers /\ N' = N /\ Lo' = Lo /\ Hi' = Hi /\ ModelSize' = ModelSize
      /\ Negative' = Negative /\ Plans' = Plans /\ Rejects' = Rejects
  BY DEF Begin, Counted, Layers, N, Lo, Hi, ModelSize, Bytes, Negative, Plans, Rejects
<1>2. input \in Inputs  BY DEF IInv, TypeOK
<1>3. N \in Nat /\ Lo \in Int /\ Lo >= 2 /\ Hi \in Int  BY <1>2, Bounds
<1>4. CASE Rejects
  <2>1. pc' = "rejected"  BY <1>4 DEF Begin
  <2>2. Negative \/ Layers < 2 \/ Hi < Lo \/ N < Lo  BY <1>4 DEF Rejects, Negative, N
  <2>3. Layers < 2 \/ Hi < Lo \/ N < Lo => Plans = {}  BY DEF Plans, StagePlans, Lo, Hi, N
  <2> QED BY <1>1, <2>1, <2>2, <2>3 DEF Counted
<1>5. CASE ~Rejects
  <2>1. usable' \in Sorted(input.cands)  BY <1>5 DEF Begin
  <2>2. ModelSize \in Int /\ ModelSize >= 0  BY <1>2, <1>5, SizeType
  <2>3. CASE ModelSize > 0
    <3>1. pc' = "count" /\ count' = 0  BY <1>1, <1>5, <2>3 DEF Begin
    <3>2. Memory(usable', 0) = 0
      <4>1. usable' \in [1..N -> input.cands]
        BY <2>1 DEF Sorted, Bijection, Injection, N
      <4>2. PICK s : s = usable'  OBVIOUS
      <4>3. s \in [1..N -> input.cands] /\ \A a \in input.cands : a.memory \in Int
        BY <1>2, <4>1, <4>2, PlannerAssumption
      <4>4. Memory(s, 0) = 0  BY <1>3, <4>3, MemoryStep
      <4> QED BY <4>2, <4>4
    <3>3. Lo..0 = {}  BY <1>3
    <3>4. Memory(usable, count)' = Memory(usable', 0)  BY <3>1
    <3>5. \A d \in Lo'..count' : Memory(usable', d) < NeededMB(ModelSize')  BY <1>1, <3>1, <3>3
    <3> QED BY <1>1, <1>5, <2>1, <2>3, <3>1, <3>2, <3>4, <3>5 DEF Counted
  <2>4. CASE ~(ModelSize > 0)
    <3>1. pc' = "assign" /\ count' = Min({Hi, N})  BY <1>5, <2>4 DEF Begin, N
    <3>2. ModelSize = 0  BY <2>2, <2>4
    <3>3. count' \in StageCounts(usable', N, ModelSize, Lo, Hi)  BY <3>1, <3>2 DEF StageCounts
    <3> QED BY <1>1, <1>5, <2>1, <3>1, <3>3 DEF Counted
  <2> QED BY <2>3, <2>4
<1> QED BY <1>4, <1>5

\* The counting loop stops at the first number of candidates, within the limits,
\* that is enough, and is refused only when even the last one is not.
LEMMA CountCounted ==
  ASSUME IInv, Counted, CountNode \/ OutOfNodes
  PROVE  Counted'
<1>1. /\ pc = "count" /\ input' = input /\ usable' = usable
      /\ Layers' = Layers /\ N' = N /\ Lo' = Lo /\ Hi' = Hi /\ ModelSize' = ModelSize
      /\ Negative' = Negative /\ Plans' = Plans /\ Rejects' = Rejects
  BY DEF CountNode, OutOfNodes, Layers, N, Lo, Hi, ModelSize, Bytes, Negative, Plans, Rejects
<1>2. input \in Inputs /\ count \in 0..N /\ Placed  BY <1>1 DEF IInv, TypeOK, N
<1>3. N \in Nat /\ Lo \in Int /\ Lo >= 2 /\ Hi \in Int  BY <1>2, Bounds
<1>4. /\ usable \in Sorted(input.cands) /\ ~Rejects
      /\ ModelSize > 0 /\ total = Memory(usable, count)
      /\ \A d \in Lo..count : Memory(usable, d) < NeededMB(ModelSize)
  BY <1>1 DEF Counted
<1>5. ModelSize \in Int /\ NeededMB(ModelSize) \in Int  BY <1>2, SizeType
<1>6. /\ \A k \in 0..N : Memory(usable, k) \in Int
      /\ \A k \in 0..(N - 1) : Memory(usable, k + 1) = Memory(usable, k) + Weight(usable[k + 1])
  <2>1. usable \in [1..N -> input.cands]  BY <1>2 DEF Placed, Injection
  <2>2. \A a \in input.cands : a.memory \in Int  BY <1>2, PlannerAssumption
  <2> QED BY <1>3, <2>1, <2>2, MemoryStep
<1>7. PICK need \in Int : need = NeededMB(ModelSize)  BY <1>5
<1>8. PICK most : most = Min({Hi, N})  OBVIOUS
<1>9. most \in Int /\ most \in {Hi, N} /\ most <= Hi /\ most <= N
  BY <1>3, <1>8, MinOfPair
<1>10. StageCounts(usable, N, ModelSize, Lo, Hi)
         = {c \in Lo..most : Memory(usable, c) >= need
                             /\ \A d \in Lo..(c - 1) : ~(Memory(usable, d) >= need)}
  BY <1>4, <1>5, <1>7, <1>8 DEF StageCounts
<1>11. CASE CountNode
  <2>1. count + 1 <= N /\ count + 1 <= Hi /\ count' = count + 1
    BY <1>2, <1>3, <1>11 DEF CountNode, More, N
  <2>2. total' = Memory(usable, count + 1)
    <3>1. count \in 0..(N - 1)  BY <1>2, <1>3, <2>1
    <3> QED BY <1>4, <1>6, <1>11, <3>1 DEF CountNode
  <2>3. Memory(usable, count + 1) \in Int  BY <1>2, <1>3, <1>6, <2>1
  <2>4. CASE Enough(count', total')
    <3>1. pc' = "assign"  BY <1>11, <2>4 DEF CountNode
    <3>2. count + 1 >= Lo /\ Memory(usable, count + 1) >= need
      BY <1>7, <2>1, <2>2, <2>4 DEF Enough
    <3>3. PICK c \in Int : c = count + 1  BY <1>2
    <3>4. c \in Lo..most  BY <1>3, <1>9, <2>1, <3>2, <3>3
    <3>5. \A d \in Lo..(c - 1) : ~(Memory(usable, d) >= need)
      <4> SUFFICES ASSUME NEW d \in Lo..(c - 1)  PROVE ~(Memory(usable, d) >= need)
        OBVIOUS
      <4>1. d \in Lo..count /\ d \in 0..N  BY <1>2, <1>3, <2>1, <3>3
      <4> QED BY <1>4, <1>6, <1>7, <4>1
    <3>6. c \in StageCounts(usable, N, ModelSize, Lo, Hi)  BY <1>10, <3>2, <3>3, <3>4, <3>5
    <3> QED BY <1>1, <1>4, <2>1, <3>1, <3>3, <3>6 DEF Counted
  <2>5. CASE ~Enough(count', total')
    <3>1. pc' = "count"  BY <1>11, <2>5 DEF CountNode
    <3>2. PICK c \in Int : c = count + 1  BY <1>2
    <3>3. \A d \in Lo..c : Memory(usable, d) < need
      <4> SUFFICES ASSUME NEW d \in Lo..c  PROVE Memory(usable, d) < need
        OBVIOUS
      <4>1. CASE d = c
        <5>1. count + 1 >= Lo  BY <1>3, <3>2, <4>1
        <5>2. ~(Memory(usable, count + 1) >= need)  BY <1>7, <2>1, <2>2, <2>5, <5>1 DEF Enough
        <5> QED BY <2>3, <3>2, <4>1, <5>2
      <4>2. CASE d # c
        <5>1. d \in Lo..count  BY <1>2, <1>3, <3>2, <4>2
        <5> QED BY <1>4, <1>7, <5>1
      <4> QED BY <4>1, <4>2
    <3>4. total' = Memory(usable', count')  BY <1>1, <2>1, <2>2
    <3>5. \A d \in Lo'..count' : Memory(usable', d) < NeededMB(ModelSize')
      BY <1>1, <1>7, <2>1, <3>2, <3>3
    <3> QED BY <1>1, <1>4, <3>1, <3>4, <3>5 DEF Counted
  <2> QED BY <2>4, <2>5
<1>12. CASE OutOfNodes
  <2>1. count' = count /\ total' = total /\ ~More  BY <1>12 DEF OutOfNodes
  <2>2. count = most
    <3>1. count <= N /\ count <= Hi /\ (count >= N \/ count >= Hi)
      BY <1>2, <1>3, <2>1 DEF More, Placed, N
    <3> QED BY <1>2, <1>3, <1>9, <3>1
  <2>3. count >= Lo  BY <1>2, <1>3, <1>9, <2>2 DEF Placed
  <2>4. Memory(usable, count) < need
    <3>1. count \in Lo..count  BY <1>2, <1>3, <2>3
    <3> QED BY <1>4, <1>7, <3>1
  <2>5. pc' = "rejected"  BY <1>4, <1>7, <1>12, <2>4 DEF OutOfNodes
  <2>6. \A c \in Lo..most : ~(Memory(usable, c) >= need)
    <3> SUFFICES ASSUME NEW c \in Lo..most  PROVE ~(Memory(usable, c) >= need)
      OBVIOUS
    <3>1. c \in Lo..count /\ c \in 0..N  BY <1>3, <1>9, <2>2
    <3> QED BY <1>4, <1>6, <1>7, <3>1
  <2>7. StageCounts(usable, N, ModelSize, Lo, Hi) = {}  BY <1>10, <2>6
  <2>8. Plans = {}  BY <1>2, <1>4, <2>7, NoneFits
  <2> QED BY <1>1, <2>5, <2>8 DEF Counted
<1> QED BY <1>11, <1>12

\* The assignment of the layers does not change the number of stages.
LEMMA AssignCounted ==
  ASSUME Counted, OpenStage \/ Extend \/ CloseStage \/ LastStage
  PROVE  Counted'
<1>1. /\ pc \in {"assign", "extend"} /\ pc' \in {"assign", "extend", "done"}
      /\ input' = input /\ usable' = usable /\ count' = count
      /\ N' = N /\ Lo' = Lo /\ Hi' = Hi /\ ModelSize' = ModelSize /\ Rejects' = Rejects
  BY DEF OpenStage, Extend, CloseStage, LastStage, Layers, N, Lo, Hi, ModelSize, Bytes, Rejects
<1> QED BY <1>1 DEF Counted

\* A finished plan is one the contract allows.
LEMMA CountedMeetsContract ==
  ASSUME IInv, Counted
  PROVE  PlanMeetsContract
<1>1. pc = "rejected" => Negative \/ Plans = {}  BY DEF Counted
<1>2. ASSUME pc = "done"
      PROVE  [i \in DOMAIN plan |-> plan[i].node] \in Plans
  <2>1. /\ usable \in Sorted(input.cands) /\ ~Rejects
        /\ count \in StageCounts(usable, N, ModelSize, Lo, Hi)
    BY <1>2 DEF Counted
  <2>2. DOMAIN plan = 1..count
    <3>1. plan \in Seq(Entry) /\ Len(plan) = count  BY <1>2 DEF IInv, LayersPartitioned
    <3> QED BY <3>1
  <2>3. \A i \in DOMAIN plan : plan[i].node = usable[i].id  BY DEF IInv
  <2>4. [i \in DOMAIN plan |-> plan[i].node] = [i \in 1..count |-> usable[i].id]
    BY <2>2, <2>3
  <2>5. ~(Layers < 2 \/ Hi < Lo \/ N < Lo)  BY <2>1 DEF Rejects, N
  <2> DEFINE Of(s) == {[i \in 1..c |-> s[i].id] : c \in StageCounts(s, N, ModelSize, Lo, Hi)}
  <2>6. Plans = UNION {Of(s) : s \in Sorted(input.cands)}
    BY <2>5 DEF Plans, StagePlans, N, Lo, Hi
  <2>7. [i \in 1..count |-> usable[i].id] \in Of(usable)  BY <2>1
  <2> HIDE DEF Of
  <2> QED BY <2>1, <2>4, <2>6, <2>7
<1> QED BY <1>1, <1>2 DEF PlanMeetsContract, Plans, Negative

\* The loops return the group the contract describes, and an error only when
\* there is none, whatever the candidates, the layers and the limits are.
THEOREM PlanIsFewestNodes == Spec => []PlanMeetsContract
<1>1. Init => Counted  BY InitCounted
<1>2. IInv /\ Counted /\ [Next]_vars => Counted'
  <2> SUFFICES ASSUME IInv, Counted, [Next]_vars  PROVE Counted'
    OBVIOUS
  <2>1. CASE UNCHANGED vars
    BY <2>1 DEF vars, Counted, Plans, Negative, N, Lo, Hi, Layers, ModelSize, Bytes, Rejects
  <2> QED BY <2>1, BeginCounted, CountCounted, AssignCounted DEF Next
<1>3. IInv /\ Counted => PlanMeetsContract  BY CountedMeetsContract
<1> QED BY <1>1, <1>2, <1>3, IInvHolds, PTL DEF Spec

\* The plan is determined by the request: there is at most one, so Control's
\* choice of a group is a function of its candidates.
THEOREM AtMostOnePlan ==
  ASSUME input \in Inputs, NEW p \in Plans, NEW q \in Plans
  PROVE  p = q
<1> DEFINE Of(s) == {[i \in 1..c |-> s[i].id] : c \in StageCounts(s, N, ModelSize, Lo, Hi)}
<1>1. Plans \subseteq UNION {Of(s) : s \in Sorted(input.cands)}
  BY DEF Plans, StagePlans, N, Lo, Hi
<1>2. PICK s \in Sorted(input.cands) : p \in Of(s)
  <2> HIDE DEF Of
  <2> QED BY <1>1
<1>3. q \in Of(s)
  <2>1. \A t \in Sorted(input.cands) : t = s  BY SortedUnique, PlannerAssumption
  <2> HIDE DEF Of
  <2> QED BY <1>1, <2>1
<1>4. PICK c \in StageCounts(s, N, ModelSize, Lo, Hi) : p = [i \in 1..c |-> s[i].id]
  BY <1>2
<1>5. PICK d \in StageCounts(s, N, ModelSize, Lo, Hi) : q = [i \in 1..d |-> s[i].id]
  BY <1>3
<1>6. c = d
  <2>1. CASE ModelSize = 0  BY <1>4, <1>5, <2>1 DEF StageCounts
  <2>2. CASE ModelSize # 0
    <3>1. N \in Nat /\ Lo \in Int /\ Hi \in Int  BY Bounds
    <3>2. Min({Hi, N}) \in Int
      <4>1. Min({Hi, N}) \in {Hi, N}  BY <3>1, MinOfPair
      <4> QED BY <3>1, <4>1
    <3> DEFINE Fits(n) == Memory(s, n) >= NeededMB(ModelSize)
               Counts == {n \in Lo..Min({Hi, N}) : Fits(n) /\ \A m \in Lo..(n - 1) : ~Fits(m)}
    <3>3. StageCounts(s, N, ModelSize, Lo, Hi) = Counts  BY <2>2 DEF StageCounts
    <3>4. c \in Counts /\ d \in Counts  BY <1>4, <1>5, <3>3
    <3> HIDE DEF Fits
    <3>5. /\ c \in Int /\ Fits(c) /\ c >= Lo /\ \A m \in Lo..(c - 1) : ~Fits(m)
          /\ d \in Int /\ Fits(d) /\ d >= Lo /\ \A m \in Lo..(d - 1) : ~Fits(m)
      BY <3>1, <3>2, <3>4
    <3> HIDE DEF Counts
    <3>6. ~(c < d)
      <4> SUFFICES ASSUME c < d  PROVE FALSE
        OBVIOUS
      <4>1. c \in Lo..(d - 1)  BY <3>1, <3>5
      <4> QED BY <3>5, <4>1
    <3>7. ~(d < c)
      <4> SUFFICES ASSUME d < c  PROVE FALSE
        OBVIOUS
      <4>1. d \in Lo..(c - 1)  BY <3>1, <3>5
      <4> QED BY <3>5, <4>1
    <3> QED BY <3>5, <3>6, <3>7
  <2> QED BY <2>1, <2>2
<1> QED BY <1>4, <1>5, <1>6

-----------------------------------------------------------------------------
(* How long it takes *)

\* Iterations the loops have left at most: two per layer and one per candidate.
Work ==
  CASE pc = "begin"  -> N + 2 * Layers + 3
    [] pc = "count"  -> (N - count) + 2 * Layers + 2
    [] pc = "assign" -> 2 * (Layers - start) + 1
    [] pc = "extend" -> 2 * (Layers - end) + 2
    [] pc = "done" \/ pc = "rejected" -> 0

\* An open stage ends before the last layer.
LEMMA ExtendInRange ==
  ASSUME IInv, pc = "extend"
  PROVE  end \in Nat /\ end < Layers
<1>1. /\ input \in Inputs /\ count \in 0..N /\ start \in 0..Layers
      /\ end \in (start + 1)..MaxEnd /\ MaxEnd < Layers
  BY DEF IInv, TypeOK, N
<1>2. N \in Nat /\ Layers \in Nat  BY <1>1, Bounds
<1>3. MaxEnd \in Int
  <2>1. plan \in Seq(Entry)  BY DEF IInv
  <2>2. Len(plan) \in Nat  BY <2>1
  <2> QED BY <1>1, <1>2, <2>2 DEF MaxEnd, Stage
<1> QED BY <1>1, <1>2, <1>3

\* Its value at each point of the function.
WorkAt ==
  /\ pc = "begin" => Work = N + 2 * Layers + 3
  /\ pc = "count" => Work = (N - count) + 2 * Layers + 2
  /\ pc = "assign" => Work = 2 * (Layers - start) + 1
  /\ pc = "extend" => Work = 2 * (Layers - end) + 2
  /\ pc \in {"done", "rejected"} => Work = 0
  /\ Work \in Nat

\* What is left is a number of iterations, whatever the loops are at.
LEMMA WorkIsANumber ==
  ASSUME IInv
  PROVE  WorkAt
<1>1. /\ pc \in {"begin", "count", "assign", "extend", "done", "rejected"}
      /\ input \in Inputs /\ count \in 0..N /\ start \in 0..Layers
  BY DEF IInv, TypeOK, N
<1>2. N \in Nat /\ Layers \in Nat  BY <1>1, Bounds
<1>3. pc = "extend" => end \in Nat /\ end < Layers  BY ExtendInRange
<1>4. CASE pc = "begin"  BY <1>2, <1>4 DEF Work, WorkAt
<1>5. CASE pc = "count"  BY <1>1, <1>2, <1>5 DEF Work, WorkAt
<1>6. CASE pc = "assign"  BY <1>1, <1>2, <1>6 DEF Work, WorkAt
<1>7. CASE pc = "extend"  BY <1>2, <1>3, <1>7 DEF Work, WorkAt
<1>8. CASE pc \in {"done", "rejected"}  BY <1>8 DEF Work, WorkAt
<1> QED BY <1>1, <1>4, <1>5, <1>6, <1>7, <1>8

\* Every iteration of every loop brings the function closer to its return: it
\* never takes more than N + 2 * Layers + 3 of them.
Shrinks == [][Work' < Work]_vars

\* Each of the loops of PlanLayers and chooseLayerEnd advances on every turn.
THEOREM LoopsAreBounded == Spec => [](Work \in Nat) /\ Shrinks
<1>1. IInv => WorkAt  BY WorkIsANumber
<1>2. ASSUME IInv, WorkAt, WorkAt', [Next]_vars
      PROVE  [Work' < Work]_vars
  <2> SUFFICES ASSUME Next  PROVE Work' < Work
    BY <1>2
  <2>1. /\ input \in Inputs /\ count \in 0..N /\ start \in 0..Layers
        /\ N \in Nat /\ Layers \in Nat
    BY <1>2, Bounds DEF IInv, TypeOK, N
  <2>2. /\ pc = "begin" => Work = N + 2 * Layers + 3
        /\ pc = "count" => Work = (N - count) + 2 * Layers + 2
        /\ pc = "assign" => Work = 2 * (Layers - start) + 1
        /\ pc = "extend" => Work = 2 * (Layers - end) + 2
    BY <1>2 DEF WorkAt
  <2>3. /\ pc' = "count" => Work' = (N' - count') + 2 * Layers' + 2
        /\ pc' = "assign" => Work' = 2 * (Layers' - start') + 1
        /\ pc' = "extend" => Work' = 2 * (Layers' - end') + 2
        /\ pc' \in {"done", "rejected"} => Work' = 0
    BY <1>2 DEF WorkAt
  <2>4. input' = input /\ N' = N /\ Layers' = Layers
    BY DEF Next, Begin, CountNode, OutOfNodes, OpenStage, Extend, CloseStage, LastStage, N, Layers
  <2>5. pc \in {"begin", "count"} => start = 0
    BY <1>2 DEF IInv, Frontier
  <2>6. pc = "extend" => end \in Nat /\ end < Layers
    BY <1>2, ExtendInRange
  <2>7. CASE Begin
    <3>1. pc = "begin" /\ pc' \in {"rejected", "count", "assign"} /\ start' = start
          /\ (pc' = "count" => count' = count)
      BY <2>7 DEF Begin
    <3> QED BY <2>1, <2>2, <2>3, <2>4, <2>5, <3>1
  <2>8. CASE CountNode
    <3>1. pc = "count" /\ pc' \in {"count", "assign"} /\ start' = start
          /\ count' = count + 1 /\ count < N
      BY <2>8 DEF CountNode, More, N
    <3> QED BY <2>1, <2>2, <2>3, <2>4, <2>5, <3>1
  <2>9. CASE OutOfNodes
    <3>1. pc = "count" /\ pc' \in {"rejected", "assign"} /\ start' = start
      BY <2>9 DEF OutOfNodes
    <3> QED BY <2>1, <2>2, <2>3, <2>4, <2>5, <3>1
  <2>10. CASE OpenStage
    <3>1. pc = "assign" /\ pc' = "extend" /\ end' = start + 1  BY <2>10 DEF OpenStage
    <3> QED BY <2>1, <2>2, <2>3, <2>4, <3>1
  <2>11. CASE Extend
    <3>1. pc = "extend" /\ pc' = "extend" /\ end' = end + 1  BY <2>11 DEF Extend
    <3> QED BY <2>1, <2>2, <2>3, <2>4, <2>6, <3>1
  <2>12. CASE CloseStage
    <3>1. pc = "extend" /\ pc' = "assign" /\ start' = end  BY <2>12 DEF CloseStage
    <3> QED BY <2>1, <2>2, <2>3, <2>4, <2>6, <3>1
  <2>13. CASE LastStage
    <3>1. pc = "assign" /\ pc' = "done"  BY <2>13 DEF LastStage
    <3> QED BY <2>1, <2>2, <2>3, <2>4, <3>1
  <2> QED BY <2>7, <2>8, <2>9, <2>10, <2>11, <2>12, <2>13 DEF Next
<1>3. WorkAt => Work \in Nat  BY DEF WorkAt
<1> QED BY <1>1, <1>2, <1>3, IInvHolds, PTL DEF Spec, Shrinks

-----------------------------------------------------------------------------
(* The bytes of the stages *)

\* A sum depends only on the values at the indices it is taken over.
LEMMA SumOfSame ==
  ASSUME NEW f, NEW g, NEW S, IsFiniteSet(S), \A x \in S : f[x] = g[x]
  PROVE  SumFunctionOnSet(f, S) = SumFunctionOnSet(g, S)
<1> DEFINE Good(V) == SumFunctionOnSet(f, V) = SumFunctionOnSet(g, V)
           Bad == {V \in SUBSET S : ~Good(V)}
<1> SUFFICES ASSUME Bad # {}  PROVE FALSE
  OBVIOUS
<1>1. PICK V \in Bad : \A W \in Bad : W \subseteq V => W = V
  <2>1. Bad \subseteq SUBSET S  OBVIOUS
  <2> HIDE DEF Bad
  <2> QED BY <2>1, MinimalSubset
<1>2. V \in SUBSET S /\ ~Good(V)  OBVIOUS
<1>3. IsFiniteSet(V)  BY <1>2, FS_Subset
<1>4. /\ SumFunctionOnSet(f, V) = IF V = {} THEN 0
                                  ELSE f[Some(V)] + SumFunctionOnSet(f, V \ {Some(V)})
      /\ SumFunctionOnSet(g, V) = IF V = {} THEN 0
                                  ELSE g[Some(V)] + SumFunctionOnSet(g, V \ {Some(V)})
  BY <1>3, SumUnfolds
<1>5. V # {}  BY <1>2, <1>4
<1>6. Some(V) \in V  BY <1>5 DEF Some
<1>7. Good(V \ {Some(V)})
  <2>1. V \ {Some(V)} \in SUBSET S /\ V \ {Some(V)} # V  BY <1>2, <1>6
  <2> HIDE DEF Good
  <2> QED BY <1>1, <2>1
<1>8. f[Some(V)] = g[Some(V)]  BY <1>2, <1>6
<1> QED BY <1>2, <1>4, <1>5, <1>7, <1>8

\* The sum over two sets that share nothing is the sum of their sums.
LEMMA SumOfParts ==
  ASSUME NEW f, NEW S, NEW T, IsFiniteSet(S), IsFiniteSet(T), S \cap T = {},
         \A x \in S \cup T : f[x] \in Int
  PROVE  SumFunctionOnSet(f, S \cup T) = SumFunctionOnSet(f, S) + SumFunctionOnSet(f, T)
<1> DEFINE Good(V) == SumFunctionOnSet(f, S \cup V)
                        = SumFunctionOnSet(f, S) + SumFunctionOnSet(f, V)
           Bad == {V \in SUBSET T : ~Good(V)}
<1> SUFFICES ASSUME Bad # {}  PROVE FALSE
  OBVIOUS
<1>1. PICK V \in Bad : \A W \in Bad : W \subseteq V => W = V
  <2>1. Bad \subseteq SUBSET T  OBVIOUS
  <2> HIDE DEF Bad
  <2> QED BY <2>1, MinimalSubset
<1>2. V \in SUBSET T /\ ~Good(V)  OBVIOUS
<1>3. IsFiniteSet(V) /\ IsFiniteSet(S \cup V)  BY <1>2, FS_Subset, FS_Union
<1>4. SumFunctionOnSet(f, S) \in Int  BY SumType
<1>5. V # {}
  <2> SUFFICES ASSUME V = {}  PROVE FALSE
    OBVIOUS
  <2>1. SumFunctionOnSet(f, V) = 0  BY <1>3, SumUnfolds
  <2>2. S \cup V = S  OBVIOUS
  <2> QED BY <1>2, <1>4, <2>1, <2>2
<1>6. PICK x \in V : TRUE  BY <1>5
<1> DEFINE W == V \ {x}
<1>7. W \in SUBSET T /\ W # V /\ (S \cup V) \ {x} = S \cup W  BY <1>2, <1>6
<1>8. Good(W)
  <2> HIDE DEF Good, W
  <2>1. W \subseteq V  BY DEF W
  <2> QED BY <1>1, <1>7, <2>1
<1>9. SumFunctionOnSet(f, V) = f[x] + SumFunctionOnSet(f, W)
  <2>1. \A y \in V : f[y] \in Int  BY <1>2
  <2> QED BY <1>3, <2>1, SumWithout
<1>10. SumFunctionOnSet(f, S \cup V) = f[x] + SumFunctionOnSet(f, S \cup W)
  <2> DEFINE U == S \cup V
  <2>1. x \in U /\ \A y \in U : f[y] \in Int  BY <1>2
  <2>2. IsFiniteSet(U)  BY <1>3
  <2> HIDE DEF U
  <2>3. SumFunctionOnSet(f, U) = f[x] + SumFunctionOnSet(f, U \ {x})  BY <2>1, <2>2, SumWithout
  <2> QED BY <1>7, <2>3 DEF U
<1>11. SumFunctionOnSet(f, W) \in Int /\ f[x] \in Int
  <2>1. IsFiniteSet(W) /\ \A y \in W : f[y] \in Int  BY <1>2, <1>3, FS_Subset
  <2> HIDE DEF W
  <2> QED BY <1>2, <2>1, SumType
<1> HIDE DEF W, Bad
<1> QED BY <1>2, <1>4, <1>8, <1>9, <1>10, <1>11

\* Bytes of adjacent ranges of layers add up, and a range of one layer is it.
LEMMA BytesAdd ==
  ASSUME input \in Inputs,
         NEW a \in 0..Layers, NEW b \in a..Layers, NEW c \in b..Layers
  PROVE  /\ Bytes(a, b) \in Int
         /\ Bytes(a, a) = 0
         /\ Bytes(a, c) = Bytes(a, b) + Bytes(b, c)
         /\ b < Layers => Bytes(b, b + 1) = input.bytes[b + 1]
<1>1. input.bytes \in Seq(Int) /\ Layers \in Nat /\ DOMAIN input.bytes = 1..Layers
  BY PlannerAssumption DEF Layers
<1>2. \A i \in 1..Layers : input.bytes[i] \in Int  BY <1>1
<1>3. PICK f : f = input.bytes  OBVIOUS
<1>4. \A x, y : Bytes(x, y) = SumFunctionOnSet(f, (x + 1)..y)  BY <1>3 DEF Bytes
<1>5. ASSUME NEW x \in 0..Layers, NEW y \in 0..Layers
      PROVE  /\ IsFiniteSet((x + 1)..y)
             /\ (x + 1)..y \subseteq 1..Layers
             /\ \A i \in (x + 1)..y : f[i] \in Int
  <2>1. x + 1 \in Int /\ y \in Int /\ (x + 1)..y \subseteq 1..Layers  BY <1>1
  <2> QED BY <1>2, <1>3, <2>1, FS_Interval
<1>6. a \in 0..Layers /\ b \in 0..Layers /\ c \in 0..Layers  BY <1>1
<1>7. Bytes(a, b) \in Int
  <2> DEFINE S == (a + 1)..b
  <2>1. IsFiniteSet(S) /\ \A i \in S : f[i] \in Int  BY <1>5, <1>6
  <2> HIDE DEF S
  <2>2. SumFunctionOnSet(f, S) \in Int  BY <2>1, SumType
  <2> QED BY <1>4, <2>2 DEF S
<1>8. Bytes(a, a) = 0
  <2> DEFINE S == (a + 1)..a
  <2>1. IsFiniteSet(S) /\ S = {}  BY <1>5, <1>6
  <2> HIDE DEF S
  <2>2. SumFunctionOnSet(f, S) = 0  BY <2>1, SumUnfolds
  <2> QED BY <1>4, <2>2 DEF S
<1>9. Bytes(a, c) = Bytes(a, b) + Bytes(b, c)
  <2> DEFINE S == (a + 1)..b
             T == (b + 1)..c
  <2>1. S \cup T = (a + 1)..c /\ S \cap T = {}  BY <1>1
  <2>2. IsFiniteSet(S) /\ IsFiniteSet(T) /\ \A i \in S \cup T : f[i] \in Int  BY <1>5, <1>6
  <2>3. SumFunctionOnSet(f, S \cup T) = SumFunctionOnSet(f, S) + SumFunctionOnSet(f, T)
    <3>1. S \cap T = {}  BY <2>1
    <3> HIDE DEF S, T
    <3> QED BY <2>2, <3>1, SumOfParts
  <2>4. Bytes(a, c) = SumFunctionOnSet(f, S \cup T)  BY <1>4, <2>1
  <2> QED BY <1>4, <2>3, <2>4
<1>10. ASSUME b < Layers  PROVE Bytes(b, b + 1) = input.bytes[b + 1]
  <2>1. b + 1 \in 0..Layers /\ (b + 1)..(b + 1) = {b + 1} /\ b + 1 \in Int  BY <1>1, <1>10
  <2> DEFINE S == (b + 1)..(b + 1)
  <2>2. PICK e : e = b + 1  OBVIOUS
  <2>3. S = {e} /\ IsFiniteSet(S) /\ \A i \in S : f[i] \in Int  BY <1>5, <1>6, <2>1, <2>2
  <2> HIDE DEF S
  <2>4. SumFunctionOnSet(f, S) = f[e] + SumFunctionOnSet(f, S \ {e})  BY <2>3, SumWithout
  <2>5. S \ {e} = {}  BY <2>3
  <2>6. SumFunctionOnSet(f, {}) = 0  BY FS_EmptySet, SumUnfolds
  <2>7. SumFunctionOnSet(f, S) = f[e]  BY <2>3, <2>4, <2>5, <2>6
  <2> QED BY <1>3, <1>4, <2>2, <2>7 DEF S
<1> QED BY <1>7, <1>8, <1>9, <1>10

\* A stage added to the plan adds its bytes to what the plan reports.
LEMMA AppendAddsBytes ==
  ASSUME plan \in Seq(Entry), \A i \in DOMAIN plan : plan[i].tensorBytes \in Int,
         NEW e, e.tensorBytes \in Int, plan' = Append(plan, e)
  PROVE  PlacedBytes' = e.tensorBytes + PlacedBytes
<1> DEFINE n == Len(plan)
<1>1. /\ n \in Nat /\ DOMAIN plan = 1..n /\ DOMAIN plan' = 1..(n + 1)
      /\ plan'[n + 1] = e /\ \A i \in 1..n : plan'[i] = plan[i]
  OBVIOUS
<1> HIDE DEF n
<1>2. PICK f : f = Sizes  OBVIOUS
<1>3. PICK g : g = Sizes'  OBVIOUS
<1>4. /\ \A i \in 1..n : f[i] = plan[i].tensorBytes /\ f[i] \in Int /\ g[i] = f[i]
      /\ g[n + 1] = e.tensorBytes
  <2>1. \A i \in 1..n : f[i] = plan[i].tensorBytes  BY <1>1, <1>2 DEF Sizes
  <2>2. \A i \in 1..(n + 1) : g[i] = plan'[i].tensorBytes  BY <1>1, <1>3 DEF Sizes
  <2>3. n + 1 \in 1..(n + 1) /\ \A i \in 1..n : i \in 1..(n + 1)  BY <1>1
  <2> QED BY <1>1, <2>1, <2>2, <2>3
<1> DEFINE S == 1..n
           T == 1..(n + 1)
<1>5. PICK k : k = n + 1  OBVIOUS
<1>6. k \in T /\ T \ {k} = S /\ \A i \in T : i \in S \/ i = k  BY <1>1, <1>5
<1>7. IsFiniteSet(S) /\ IsFiniteSet(T)
  <2>1. 1 \in Int /\ n \in Int /\ n + 1 \in Int  BY <1>1
  <2> QED BY <2>1, FS_Interval
<1>8. PlacedBytes = SumFunctionOnSet(f, S) /\ PlacedBytes' = SumFunctionOnSet(g, T)
  BY <1>1, <1>2, <1>3 DEF PlacedBytes
<1>9. \A i \in S : f[i] = g[i]  BY <1>4
<1>10. \A i \in T : g[i] \in Int  BY <1>4, <1>5, <1>6
<1> HIDE DEF S, T
<1>11. SumFunctionOnSet(g, T) = g[k] + SumFunctionOnSet(g, S)
  <2>1. k \in T /\ T \ {k} = S  BY <1>6
  <2>2. SumFunctionOnSet(g, T) = g[k] + SumFunctionOnSet(g, T \ {k})
    BY <1>7, <1>10, <2>1, SumWithout, SMTT(30)
  <2> QED BY <2>1, <2>2, Zenon
<1>12. SumFunctionOnSet(f, S) = SumFunctionOnSet(g, S)  BY <1>7, <1>9, SumOfSame
<1> QED BY <1>4, <1>5, <1>8, <1>11, <1>12

\* With it: what each stage reports is a number.
ByteInv == EveryByteOnce /\ \A i \in DOMAIN plan : plan[i].tensorBytes \in Int

\* No stage, no bytes.
LEMMA NothingPlaced ==
  ASSUME input \in Inputs, plan = <<>>
  PROVE  PlacedBytes = 0 /\ Bytes(0, 0) = 0
<1>1. DOMAIN plan = {}  OBVIOUS
<1>2. PlacedBytes = 0  BY <1>1, FS_EmptySet, SumUnfolds DEF PlacedBytes
<1>3. Layers \in Nat  BY Bounds
<1>4. 0 \in 0..Layers /\ 0 \in 0..Layers  BY <1>3
<1>5. Bytes(0, 0) = 0  BY <1>4, BytesAdd
<1> QED BY <1>2, <1>5

\* Every iteration keeps the account.
LEMMA NextBytes ==
  ASSUME IInv, ByteInv, [Next]_vars
  PROVE  ByteInv'
<1>1. CASE UNCHANGED vars
  BY <1>1 DEF vars, ByteInv, EveryByteOnce, PlacedBytes, Sizes, ModelSize, Bytes, Layers
<1>2. /\ input \in Inputs /\ start \in 0..Layers /\ Layers \in Nat
      /\ PlacedBytes = Bytes(0, start) /\ \A i \in DOMAIN plan : plan[i].tensorBytes \in Int
      /\ pc = "extend" => assigned = Bytes(start, end)
  BY Bounds DEF IInv, TypeOK, ByteInv, EveryByteOnce
<1>3. 0 \in 0..Layers /\ start \in start..Layers /\ 0 \in 0..start  BY <1>2
<1>4. CASE Begin \/ CountNode \/ OutOfNodes
  <2>1. /\ input' = input /\ plan' = plan /\ start' = start
        /\ pc' \in {"rejected", "count", "assign"}
    BY <1>4 DEF Begin, CountNode, OutOfNodes
  <2>2. PlacedBytes' = PlacedBytes /\ Bytes(0, start)' = Bytes(0, start)
    BY <2>1 DEF PlacedBytes, Sizes, Bytes
  <2> QED BY <1>2, <2>1, <2>2 DEF ByteInv, EveryByteOnce
<1>5. CASE OpenStage \/ Extend
  <2>1. /\ input' = input /\ plan' = plan /\ start' = start /\ pc' = "extend"
    BY <1>5 DEF OpenStage, Extend
  <2>2. PlacedBytes' = PlacedBytes /\ Bytes(0, start)' = Bytes(0, start)
    BY <2>1 DEF PlacedBytes, Sizes, Bytes
  <2>3. assigned' = Bytes(start, end')
    <3>1. CASE OpenStage
      <4>1. end' = start + 1 /\ assigned' = input.bytes[start + 1] /\ start < Layers
        <5>1. pc = "assign" /\ Stage < count  BY <3>1 DEF OpenStage
        <5>2. Layers - start >= count - Len(plan) /\ Len(plan) < count /\ Len(plan) \in Nat
              /\ count \in Int
          <6>1. plan \in Seq(Entry)  BY DEF IInv
          <6>2. N \in Nat  BY <1>2, Bounds
          <6>3. count \in Int  BY <6>2 DEF IInv, TypeOK, N
          <6> QED BY <5>1, <6>1, <6>3 DEF IInv, LayersPartitioned
        <5> QED BY <1>2, <3>1, <5>2 DEF OpenStage
      <4>2. start \in 0..Layers /\ start \in start..Layers  BY <1>2
      <4> QED BY <1>2, <4>1, <4>2, BytesAdd
    <3>2. CASE Extend
      <4>1. pc = "extend" /\ end' = end + 1 /\ assigned' = assigned + input.bytes[end + 1]
        BY <3>2 DEF Extend
      <4>2. end \in Nat /\ end < Layers /\ end >= start
        <5>1. end \in Nat /\ end < Layers  BY <4>1, ExtendInRange
        <5>2. PICK m : m = MaxEnd  OBVIOUS
        <5>3. end \in (start + 1)..m  BY <4>1, <5>2 DEF IInv, TypeOK
        <5> QED BY <1>2, <5>1, <5>3
      <4>3. end \in start..Layers /\ end + 1 \in end..Layers  BY <1>2, <4>2
      <4>4. Bytes(start, end + 1) = Bytes(start, end) + Bytes(end, end + 1)
            /\ Bytes(end, end + 1) = input.bytes[end + 1]
        BY <1>2, <4>2, <4>3, BytesAdd
      <4> QED BY <1>2, <4>1, <4>4
    <3> QED BY <1>5, <3>1, <3>2
  <2>4. Bytes(start, end)' = Bytes(start, end')  BY <2>1 DEF Bytes
  <2> QED BY <1>2, <2>1, <2>2, <2>3, <2>4 DEF ByteInv, EveryByteOnce
<1>6. CASE CloseStage \/ LastStage
  <2> DEFINE to == IF pc = "extend" THEN end ELSE Layers
             e == Assignment(start, to)
  <2>1. /\ input' = input /\ plan' = Append(plan, e) /\ start' = to
        /\ pc' = "assign" \/ (pc' = "done" /\ to = Layers)
    <3>1. CASE CloseStage
      <4>1. pc = "extend"  BY <3>1 DEF CloseStage
      <4>2. to = end  BY <4>1
      <4> HIDE DEF to
      <4> QED BY <3>1, <4>2 DEF CloseStage
    <3>2. CASE LastStage
      <4>1. pc = "assign"  BY <3>2 DEF LastStage
      <4>2. to = Layers  BY <4>1
      <4> HIDE DEF to
      <4> QED BY <3>2, <4>2 DEF LastStage
    <3> QED BY <1>6, <3>1, <3>2
  <2>2. to \in start..Layers
    <3>1. CASE pc = "extend"
      <4>1. end \in Nat /\ end < Layers  BY <3>1, ExtendInRange
      <4>2. PICK m : m = MaxEnd  OBVIOUS
      <4>3. end \in (start + 1)..m  BY <3>1, <4>2 DEF IInv, TypeOK
      <4> QED BY <1>2, <3>1, <4>1, <4>3
    <3>2. CASE pc # "extend"  BY <1>2, <3>2
    <3> QED BY <3>1, <3>2
  <2> HIDE DEF to
  <2>3. e.tensorBytes = Bytes(start, to)  BY DEF Assignment
  <2>4. Bytes(start, to) \in Int /\ Bytes(0, to) = Bytes(0, start) + Bytes(start, to)
        /\ Bytes(0, start) \in Int
    <3>1. start \in 0..Layers /\ to \in to..Layers /\ start \in 0..Layers  BY <1>2, <2>2
    <3>2. Bytes(start, to) \in Int  BY <1>2, <2>2, <3>1, BytesAdd
    <3>3. Bytes(0, to) = Bytes(0, start) + Bytes(start, to) /\ Bytes(0, start) \in Int
      BY <1>2, <1>3, <2>2, BytesAdd
    <3> QED BY <3>2, <3>3
  <2> HIDE DEF e
  <2>5. plan \in Seq(Entry)  BY DEF IInv
  <2>6. PlacedBytes' = e.tensorBytes + PlacedBytes
    BY <1>2, <2>1, <2>3, <2>4, <2>5, AppendAddsBytes
  <2>7. Bytes(0, start)' = Bytes(0, to) /\ ModelSize' = ModelSize /\ ModelSize = Bytes(0, Layers)
    BY <2>1 DEF Bytes, ModelSize, Layers
  <2>8. PlacedBytes' = Bytes(0, to)  BY <1>2, <2>3, <2>4, <2>6
  <2>9. \A i \in DOMAIN plan' : plan'[i].tensorBytes \in Int
    <3>1. /\ Len(plan) \in Nat /\ DOMAIN plan = 1..Len(plan)
          /\ DOMAIN plan' = 1..(Len(plan) + 1) /\ plan'[Len(plan) + 1] = e
          /\ \A i \in 1..Len(plan) : plan'[i] = plan[i]
      BY <2>1, <2>5
    <3>2. \A i \in 1..(Len(plan) + 1) : i \in 1..Len(plan) \/ i = Len(plan) + 1  BY <3>1
    <3> QED BY <1>2, <2>3, <2>4, <3>1, <3>2
  <2> QED BY <2>1, <2>7, <2>8, <2>9 DEF ByteInv, EveryByteOnce
<1> QED BY <1>1, <1>4, <1>5, <1>6 DEF Next

\* The sizes a plan reports add up to the size of the model.
THEOREM BytesAreAccounted == Spec => []EveryByteOnce
<1>1. Init => ByteInv
  <2> SUFFICES ASSUME Init  PROVE ByteInv
    OBVIOUS
  <2>1. input \in Inputs /\ plan = <<>> /\ start = 0 /\ pc = "begin" /\ DOMAIN plan = {}
    BY DEF Init
  <2> QED BY <2>1, NothingPlaced DEF ByteInv, EveryByteOnce
<1>2. IInv /\ ByteInv /\ [Next]_vars => ByteInv'  BY NextBytes
<1>3. ByteInv => EveryByteOnce  BY DEF ByteInv
<1> QED BY <1>1, <1>2, <1>3, IInvHolds, PTL DEF Spec
=============================================================================
