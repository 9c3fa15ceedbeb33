----------------------------- MODULE FiniteSums -----------------------------
(***************************************************************************)
(* Sums over finite sets.  SumFunctionOnSet and MapThenSumSet take the     *)
(* elements one by one in an unspecified order, by a recursive function on *)
(* the subsets; here is shown that this function exists, that the order    *)
(* does not matter, and what adding or changing an element does.           *)
(***************************************************************************)
EXTENDS Integers, Functions, FiniteSetsExt, FiniteSetTheorems, WellFoundedInduction, TLAPS

\* A set of subsets of a finite set has a smallest one.
LEMMA SmallestSubset ==
    ASSUME NEW S, IsFiniteSet(S), NEW Bad, Bad \subseteq SUBSET S, Bad # {}
    PROVE  \E m \in Bad : \A t \in SUBSET m : t # m => t \notin Bad
<1>1. Bad \subseteq FiniteSubsetsOf(S)
  BY FS_Subset DEF FiniteSubsetsOf
<1>2. PICK m \in Bad : \A t \in Bad : ~(<<t, m>> \in StrictSubsetOrdering(S))
  BY <1>1, FS_StrictSubsetOrderingWellFounded, WFMin
<1> QED BY <1>2 DEF StrictSubsetOrdering

\* The element taken first, and the recursive function on the subsets of S.
Pick(s) == CHOOSE x \in s : TRUE

IsSum(g, f, S) ==
    g = [s \in SUBSET S |-> IF s = {} THEN 0 ELSE f[Pick(s)] + g[s \ {Pick(s)}]]

Sum(f, S) == SumFunctionOnSet(f, S)

\* A nonempty set has an element to be taken first.
LEMMA PickIn == ASSUME NEW S, S # {} PROVE Pick(S) \in S
BY DEF Pick

\* A sum is the value at S of the recursive function the library chooses.
LEMMA SumIsChosen == ASSUME NEW f, NEW S PROVE Sum(f, S) = (CHOOSE g : IsSum(g, f, S))[S]
BY DEF Sum, SumFunctionOnSet, FoldFunctionOnSet, MapThenFoldSet, IsSum, Pick

\* Two such functions agree where both are defined.
LEMMA SumUnique ==
    ASSUME NEW f, NEW S, IsFiniteSet(S), NEW T, IsFiniteSet(T), NEW g, IsSum(g, f, S),
           NEW h, IsSum(h, f, T)
    PROVE  \A s \in SUBSET (S \cap T) : g[s] = h[s]
<1> DEFINE Bad == { s \in SUBSET (S \cap T) : g[s] # h[s] }
<1> SUFFICES ASSUME Bad # {} PROVE FALSE
  OBVIOUS
<1>0. IsFiniteSet(S \cap T)
  BY FS_Intersection
<1>1. PICK m \in Bad : \A t \in SUBSET m : t # m => t \notin Bad
  <2> HIDE DEF Bad
  <2>1. Bad \subseteq SUBSET (S \cap T)
    BY DEF Bad
  <2> QED BY <1>0, <2>1, SmallestSubset
<1>2. m \in SUBSET S /\ m \in SUBSET T
  BY <1>1
<1>3. /\ g[m] = IF m = {} THEN 0 ELSE f[Pick(m)] + g[m \ {Pick(m)}]
      /\ h[m] = IF m = {} THEN 0 ELSE f[Pick(m)] + h[m \ {Pick(m)}]
  <2> HIDE DEF Bad
  <2> QED BY <1>2 DEF IsSum
<1>4. m # {}
  BY <1>1, <1>3
<1>5. Pick(m) \in m
  BY <1>4, PickIn
<1>6. m \ {Pick(m)} \in SUBSET m /\ m \ {Pick(m)} # m
  BY <1>5
<1>7. g[m \ {Pick(m)}] = h[m \ {Pick(m)}]
  BY <1>1, <1>6
<1> QED BY <1>1, <1>3, <1>7

\* The function exists on every finite set.
LEMMA SumExists ==
    ASSUME NEW f, NEW S, IsFiniteSet(S)
    PROVE  \E g : IsSum(g, f, S)
<1> DEFINE Bad == { s \in SUBSET S : ~(\E g : IsSum(g, f, s)) }
<1> SUFFICES ASSUME Bad # {} PROVE FALSE
  OBVIOUS
<1>1. PICK m \in Bad : \A t \in SUBSET m : t # m => t \notin Bad
  <2> HIDE DEF Bad
  <2>1. Bad \subseteq SUBSET S
    BY DEF Bad
  <2> QED BY <2>1, SmallestSubset
<1>2. m \in SUBSET S /\ IsFiniteSet(m)
  BY <1>1, FS_Subset
<1> DEFINE V(t) == (CHOOSE g : IsSum(g, f, t))[t]
           G == [s \in SUBSET m |-> IF s = {} THEN 0 ELSE f[Pick(s)] + V(s \ {Pick(s)})]
<1>3. ASSUME NEW t \in SUBSET m, t # m
      PROVE  IsSum(CHOOSE g : IsSum(g, f, t), f, t) /\ IsFiniteSet(t)
  <2>1. \E g : IsSum(g, f, t)
    BY <1>1, <1>2, <1>3
  <2> QED BY <1>2, <1>3, <2>1, FS_Subset
<1>4. ASSUME NEW t \in SUBSET m, t # m
      PROVE  V(t) = IF t = {} THEN 0 ELSE f[Pick(t)] + V(t \ {Pick(t)})
  <2> DEFINE a == CHOOSE g : IsSum(g, f, t)
             u == t \ {Pick(t)}
             b == CHOOSE g : IsSum(g, f, u)
  <2>1. IsSum(a, f, t) /\ IsFiniteSet(t)
    BY <1>3, <1>4
  <2>2. a[t] = IF t = {} THEN 0 ELSE f[Pick(t)] + a[u]
    <3> HIDE DEF a
    <3> QED BY <2>1 DEF IsSum
  <2>3. CASE t = {}
    BY <2>2, <2>3
  <2>4. CASE t # {}
    <3>1. u \in SUBSET m /\ u # m /\ u \in SUBSET t
      BY <1>4, <2>4, PickIn
    <3>2. IsSum(b, f, u) /\ IsFiniteSet(u)
      BY <1>3, <3>1
    <3>3. a[u] = b[u]
      <4> HIDE DEF a, b, u
      <4>1. u \in SUBSET (t \cap u)
        BY <3>1
      <4> QED BY <2>1, <3>2, <4>1, SumUnique
    <3> QED BY <2>2, <2>4, <3>3
  <2> QED BY <2>3, <2>4
<1>5. ASSUME NEW s \in SUBSET m, s # {} PROVE G[s \ {Pick(s)}] = V(s \ {Pick(s)})
  <2> DEFINE t == s \ {Pick(s)}
  <2>1. t \in SUBSET m /\ t # m
    BY <1>5, PickIn
  <2>2. V(t) = IF t = {} THEN 0 ELSE f[Pick(t)] + V(t \ {Pick(t)})
    BY <1>4, <2>1
  <2> HIDE DEF V, t
  <2>3. G[t] = IF t = {} THEN 0 ELSE f[Pick(t)] + V(t \ {Pick(t)})
    BY <2>1
  <2> QED BY <2>2, <2>3 DEF t
<1>6. IsSum(G, f, m)
  <2> HIDE DEF V
  <2>1. G = [s \in SUBSET m |-> IF s = {} THEN 0 ELSE f[Pick(s)] + V(s \ {Pick(s)})]
    OBVIOUS
  <2> HIDE DEF G
  <2> QED BY <1>5, <2>1 DEF IsSum
<1> QED BY <1>1, <1>6

\* The chosen function is such a function, and any other gives the same sum.
LEMMA SumValue ==
    ASSUME NEW f, NEW S, IsFiniteSet(S), NEW g, IsSum(g, f, S)
    PROVE  Sum(f, S) = g[S]
<1> DEFINE h == CHOOSE k : IsSum(k, f, S)
<1>1. IsSum(h, f, S)
  BY SumExists
<1>2. Sum(f, S) = h[S]
  BY SumIsChosen
<1> HIDE DEF h
<1>3. S \in SUBSET (S \cap S)
  OBVIOUS
<1>4. h[S] = g[S]
  BY <1>1, <1>3, SumUnique
<1> QED BY <1>2, <1>4

\* Nothing adds up to zero.
LEMMA SumEmpty == ASSUME NEW f PROVE Sum(f, {}) = 0
<1>1. IsFiniteSet({})
  BY FS_EmptySet
<1>2. PICK g : IsSum(g, f, {})
  BY <1>1, SumExists
<1> QED BY <1>1, <1>2, SumValue DEF IsSum

\* The element taken first, plus the sum of the others.
LEMMA SumPick ==
    ASSUME NEW f, NEW S, IsFiniteSet(S), S # {}
    PROVE  Sum(f, S) = f[Pick(S)] + Sum(f, S \ {Pick(S)})
<1> DEFINE T == S \ {Pick(S)}
<1>1. PICK g : IsSum(g, f, S)
  BY SumExists
<1>2. IsFiniteSet(T) /\ T \in SUBSET S
  BY FS_RemoveElement
<1>3. PICK h : IsSum(h, f, T)
  BY <1>2, SumExists
<1>4. Sum(f, S) = f[Pick(S)] + g[T]
  <2>1. Sum(f, S) = g[S]
    BY <1>1, SumValue
  <2>2. g[S] = IF S = {} THEN 0 ELSE f[Pick(S)] + g[S \ {Pick(S)}]
    BY <1>1 DEF IsSum
  <2> QED BY <2>1, <2>2
<1>5. Sum(f, T) = h[T]
  BY <1>2, <1>3, SumValue
<1>6. g[T] = h[T]
  <2> HIDE DEF T
  <2>1. T \in SUBSET (S \cap T)
    BY <1>2
  <2> QED BY <1>1, <1>2, <1>3, <2>1, SumUnique
<1> QED BY <1>4, <1>5, <1>6

\* A sum of integers is one.
LEMMA SumType ==
    ASSUME NEW f, NEW S, IsFiniteSet(S), \A x \in S : f[x] \in Int
    PROVE  Sum(f, S) \in Int
<1> DEFINE Bad == { s \in SUBSET S : Sum(f, s) \notin Int }
<1> SUFFICES ASSUME Bad # {} PROVE FALSE
  OBVIOUS
<1>1. PICK m \in Bad : \A t \in SUBSET m : t # m => t \notin Bad
  <2>1. Bad \subseteq SUBSET S
    OBVIOUS
  <2> HIDE DEF Bad
  <2> QED BY <2>1, SmallestSubset
<1>2. m \in SUBSET S /\ IsFiniteSet(m) /\ Sum(f, m) \notin Int
  BY <1>1, FS_Subset
<1>3. m # {}
  BY <1>2, SumEmpty
<1>4. Pick(m) \in m /\ Sum(f, m) = f[Pick(m)] + Sum(f, m \ {Pick(m)})
  BY <1>2, <1>3, SumPick, PickIn
<1>5. m \ {Pick(m)} \in SUBSET m /\ m \ {Pick(m)} # m
  BY <1>4
<1>6. Sum(f, m \ {Pick(m)}) \in Int
  BY <1>1, <1>2, <1>5
<1> QED BY <1>2, <1>4, <1>6

\* The order does not matter: any element may be taken out first.
LEMMA SumRemove ==
    ASSUME NEW f, NEW S, IsFiniteSet(S), \A x \in S : f[x] \in Int, NEW a \in S
    PROVE  Sum(f, S) = f[a] + Sum(f, S \ {a})
<1> DEFINE Bad == { s \in SUBSET S : \E x \in s : Sum(f, s) # f[x] + Sum(f, s \ {x}) }
<1> SUFFICES ASSUME Bad # {} PROVE FALSE
  OBVIOUS
<1>1. PICK m \in Bad : \A t \in SUBSET m : t # m => t \notin Bad
  <2>1. Bad \subseteq SUBSET S
    OBVIOUS
  <2> HIDE DEF Bad
  <2> QED BY <2>1, SmallestSubset
<1>2. PICK x \in m : Sum(f, m) # f[x] + Sum(f, m \ {x})
  BY <1>1
<1>3. m \in SUBSET S /\ IsFiniteSet(m) /\ m # {}
  BY <1>1, <1>2, FS_Subset
<1> DEFINE y == Pick(m)
           t == m \ {y}
           u == m \ {x}
           v == m \ {x, y}
<1>4. y \in m /\ Sum(f, m) = f[y] + Sum(f, t)
  BY <1>3, SumPick, PickIn
<1> HIDE DEF y
<1>5. x # y
  BY <1>2, <1>4
<1>6. t \in SUBSET m /\ t # m /\ u \in SUBSET m /\ u # m /\ x \in t /\ y \in u
  BY <1>2, <1>4, <1>5
<1>7. t \ {x} = v /\ u \ {y} = v
  OBVIOUS
<1>8. Sum(f, t) = f[x] + Sum(f, v)
  <2>1. t \in SUBSET S /\ t \notin Bad
    BY <1>1, <1>3, <1>6
  <2> QED BY <1>6, <1>7, <2>1
<1>9. Sum(f, u) = f[y] + Sum(f, v)
  <2>1. u \in SUBSET S /\ u \notin Bad
    BY <1>1, <1>3, <1>6
  <2> QED BY <1>6, <1>7, <2>1
<1>10. Sum(f, v) \in Int /\ f[x] \in Int /\ f[y] \in Int
  <2>1. v \in SUBSET S
    BY <1>3
  <2>2. IsFiniteSet(v) /\ \A z \in v : f[z] \in Int
    BY <2>1, FS_Subset
  <2> QED BY <1>2, <1>3, <1>4, <2>2, SumType
<1> HIDE DEF t, u, v
<1>11. Sum(f, m) = f[x] + Sum(f, u)
  BY <1>4, <1>8, <1>9, <1>10
<1> QED BY <1>2, <1>11 DEF u

\* A new element adds its value.
LEMMA SumAdd ==
    ASSUME NEW f, NEW S, IsFiniteSet(S), NEW a, a \notin S, \A x \in S \cup {a} : f[x] \in Int
    PROVE  Sum(f, S \cup {a}) = f[a] + Sum(f, S)
<1>1. IsFiniteSet(S \cup {a}) /\ (S \cup {a}) \ {a} = S
  BY FS_AddElement
<1> QED BY <1>1, SumRemove

\* A sum depends on the values of the elements alone.
LEMMA SumSame ==
    ASSUME NEW f, NEW h, NEW S, IsFiniteSet(S), \A x \in S : f[x] = h[x]
    PROVE  Sum(f, S) = Sum(h, S)
<1>1. PICK g : IsSum(g, f, S)
  BY SumExists
<1>2. IsSum(g, h, S)
  <2>1. \A s \in SUBSET S : s # {} => f[Pick(s)] = h[Pick(s)]
    BY PickIn
  <2> QED BY <1>1, <2>1 DEF IsSum
<1> QED BY <1>1, <1>2, SumValue

\* A sum of naturals is one.
LEMMA SumNat ==
    ASSUME NEW f, NEW S, IsFiniteSet(S), \A x \in S : f[x] \in Nat
    PROVE  Sum(f, S) \in Nat
<1> DEFINE Bad == { s \in SUBSET S : Sum(f, s) \notin Nat }
<1> SUFFICES ASSUME Bad # {} PROVE FALSE
  OBVIOUS
<1>1. PICK m \in Bad : \A t \in SUBSET m : t # m => t \notin Bad
  <2>1. Bad \subseteq SUBSET S
    OBVIOUS
  <2> HIDE DEF Bad
  <2> QED BY <2>1, SmallestSubset
<1>2. m \in SUBSET S /\ IsFiniteSet(m) /\ Sum(f, m) \notin Nat
  BY <1>1, FS_Subset
<1>3. m # {}
  BY <1>2, SumEmpty
<1>4. Pick(m) \in m /\ Sum(f, m) = f[Pick(m)] + Sum(f, m \ {Pick(m)})
  BY <1>2, <1>3, SumPick, PickIn
<1>5. m \ {Pick(m)} \in SUBSET m /\ m \ {Pick(m)} # m
  BY <1>4
<1>6. Sum(f, m \ {Pick(m)}) \in Nat
  BY <1>1, <1>2, <1>5
<1> QED BY <1>2, <1>4, <1>6

\* Changing one value by d changes the sum by d.
LEMMA ChangeOne ==
    ASSUME NEW S, IsFiniteSet(S), NEW a \in S, NEW d \in Int, NEW f, NEW g,
           \A x \in S : f[x] \in Int, g[a] = f[a] + d, \A x \in S \ {a} : g[x] = f[x]
    PROVE  Sum(g, S) = Sum(f, S) + d
<1>1. Sum(f, S) = f[a] + Sum(f, S \ {a}) /\ Sum(g, S) = g[a] + Sum(g, S \ {a})
  BY SumRemove
<1>2. IsFiniteSet(S \ {a})
  BY FS_RemoveElement
<1>3. Sum(g, S \ {a}) = Sum(f, S \ {a})
  BY <1>2, SumSame
<1>4. Sum(f, S \ {a}) \in Int
  BY <1>2, SumType
<1> QED BY <1>1, <1>3, <1>4

-----------------------------------------------------------------------------
(* The sums of the models, which map before they add.                      *)

\* SUM(f[x]) for a table that is a function.
LEMMA SumOfValues ==
    ASSUME NEW f, NEW S
    PROVE  MapThenSumSet(LAMBDA x : f[x], S) = Sum(f, S)
BY DEF MapThenSumSet, Sum, SumFunctionOnSet, FoldFunctionOnSet, MapThenFoldSet

Amt(S) == [r \in S |-> r.amt]
Delta(S) == [r \in S |-> r.delta]

\* SUM(amt) over the rows of a table.
LEMMA SumOfAmounts ==
    ASSUME NEW S, IsFiniteSet(S)
    PROVE  MapThenSumSet(LAMBDA r : r.amt, S) = Sum(Amt(S), S)
<1> DEFINE F(g) == g = [s \in SUBSET S |->
                          IF s = {} THEN 0 ELSE Pick(s).amt + g[s \ {Pick(s)}]]
<1>1. MapThenSumSet(LAMBDA r : r.amt, S) = (CHOOSE g : F(g))[S]
  BY DEF MapThenSumSet, MapThenFoldSet, Pick
<1>2. \A s \in SUBSET S : s # {} => Amt(S)[Pick(s)] = Pick(s).amt
  BY PickIn DEF Amt
<1>3. ASSUME NEW g PROVE F(g) <=> IsSum(g, Amt(S), S)
  BY <1>2 DEF IsSum
<1>4. \E g : F(g)
  <2> HIDE DEF F
  <2> QED BY <1>3, SumExists
<1>5. F(CHOOSE g : F(g))
  <2> HIDE DEF F
  <2> QED BY <1>4
<1>6. IsSum(CHOOSE g : F(g), Amt(S), S)
  BY <1>3, <1>5
<1> HIDE DEF F
<1> QED BY <1>1, <1>6, SumValue

\* SUM(delta) over the rows of a table.
LEMMA SumOfDeltas ==
    ASSUME NEW S, IsFiniteSet(S)
    PROVE  MapThenSumSet(LAMBDA r : r.delta, S) = Sum(Delta(S), S)
<1> DEFINE F(g) == g = [s \in SUBSET S |->
                          IF s = {} THEN 0 ELSE Pick(s).delta + g[s \ {Pick(s)}]]
<1>1. MapThenSumSet(LAMBDA r : r.delta, S) = (CHOOSE g : F(g))[S]
  BY DEF MapThenSumSet, MapThenFoldSet, Pick
<1>2. \A s \in SUBSET S : s # {} => Delta(S)[Pick(s)] = Pick(s).delta
  BY PickIn DEF Delta
<1>3. ASSUME NEW g PROVE F(g) <=> IsSum(g, Delta(S), S)
  BY <1>2 DEF IsSum
<1>4. \E g : F(g)
  <2> HIDE DEF F
  <2> QED BY <1>3, SumExists
<1>5. F(CHOOSE g : F(g))
  <2> HIDE DEF F
  <2> QED BY <1>4
<1>6. IsSum(CHOOSE g : F(g), Delta(S), S)
  BY <1>3, <1>5
<1> HIDE DEF F
<1> QED BY <1>1, <1>6, SumValue

\* One more row adds its amount to SUM(amt).
LEMMA AddAmount ==
    ASSUME NEW S, IsFiniteSet(S), NEW a, a \notin S, \A r \in S \cup {a} : r.amt \in Int
    PROVE  Sum(Amt(S \cup {a}), S \cup {a}) = a.amt + Sum(Amt(S), S)
<1>1. Sum(Amt(S \cup {a}), S \cup {a}) = a.amt + Sum(Amt(S \cup {a}), S)
  BY SumAdd DEF Amt
<1>2. Sum(Amt(S \cup {a}), S) = Sum(Amt(S), S)
  BY SumSame DEF Amt
<1> QED BY <1>1, <1>2

\* One more row adds its delta to SUM(delta).
LEMMA AddDelta ==
    ASSUME NEW S, IsFiniteSet(S), NEW a, a \notin S, \A r \in S \cup {a} : r.delta \in Int
    PROVE  Sum(Delta(S \cup {a}), S \cup {a}) = a.delta + Sum(Delta(S), S)
<1>1. Sum(Delta(S \cup {a}), S \cup {a}) = a.delta + Sum(Delta(S \cup {a}), S)
  BY SumAdd DEF Delta
<1>2. Sum(Delta(S \cup {a}), S) = Sum(Delta(S), S)
  BY SumSame DEF Delta
<1> QED BY <1>1, <1>2
=============================================================================
