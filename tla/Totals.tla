------------------------------- MODULE Totals -------------------------------
(***************************************************************************)
(* Sums of a function over a finite set, as FoldFunction and MapThenSumSet  *)
(* compute them: they exist, do not depend on the order in which elements   *)
(* are taken, and follow a change of one value.  Each proof by induction    *)
(* looks at a smallest set for which the claim would fail.                  *)
(***************************************************************************)
EXTENDS Integers, FiniteSetsExt, FiniteSetTheorems, WellFoundedInduction, TLAPS

(* Among finitely many sets one has no smaller one among them.             *)
LEMMA LeastSubset ==
  ASSUME NEW S, IsFiniteSet(S), NEW P, P \subseteq SUBSET S, P # {}
  PROVE  \E T \in P : \A U \in P : U \subseteq T => U = T
<1>1. P \subseteq FiniteSubsetsOf(S)
  BY FS_FiniteSubsetsOfFinite
<1>2. \E T \in P : \A U \in P : ~(<<U, T>> \in StrictSubsetOrdering(S))
  <2> HIDE DEF IsWellFoundedOn, StrictSubsetOrdering, FiniteSubsetsOf
  <2>1. IsWellFoundedOn(StrictSubsetOrdering(S), FiniteSubsetsOf(S))
    BY FS_StrictSubsetOrderingWellFounded
  <2>2. QED BY <1>1, <2>1, WFMin
<1>3. QED BY <1>2 DEF StrictSubsetOrdering

LEMMA LeastNatural ==
  ASSUME NEW T, T \subseteq Nat, T # {} PROVE \E n \in T : \A m \in T : n <= m
<1>1. PICK k \in T : TRUE
  OBVIOUS
<1>2. IsFiniteSet(1..k) /\ k \in Nat
  BY <1>1, FS_Interval
<1> DEFINE P == {1..n : n \in {m \in T : m <= k}}
<1>3. P \subseteq SUBSET (1..k) /\ P # {}
  BY <1>1, <1>2
<1>4. \E U \in P : \A V \in P : V \subseteq U => V = U
  <2> DEFINE I == 1..k
  <2>1. IsFiniteSet(I) /\ P \subseteq SUBSET I /\ P # {}
    BY <1>2, <1>3
  <2> HIDE DEF I, P
  <2>2. QED BY ONLY <2>1, LeastSubset
<1>5. PICK U \in P : \A V \in P : V \subseteq U => V = U
  <2> HIDE DEF P
  <2>1. QED BY <1>4
<1>6. PICK n \in T : n <= k /\ U = 1..n
  BY <1>5
<1>7. ASSUME NEW m \in T, m < n PROVE FALSE
  <2>1. m \in Nat /\ n \in Nat
    OBVIOUS
  <2>2. 1..m \in P /\ 1..m \subseteq U
    BY <1>2, <1>6, <1>7, <2>1
  <2>3. 1..m = 1..n
    BY <1>5, <1>6, <2>2
  <2>4. n \in 1..n
    BY <1>7, <2>1
  <2>5. QED BY <1>7, <2>1, <2>3, <2>4
<1>8. QED BY <1>6, <1>7

(* A bounded set of numbers has a greatest one.                           *)
LEMMA MaxExists ==
  ASSUME NEW T, T \subseteq Nat, T # {}, NEW k \in Nat, \A n \in T : n <= k
  PROVE  \E n \in T : \A m \in T : m <= n
<1> DEFINE D == {k - n : n \in T}
<1>1. D \subseteq Nat /\ D # {}
  <2>1. \A n \in T : k - n \in Nat
    <3>1. \A n, m \in Nat : n <= m => m - n \in Nat
      OBVIOUS
    <3>2. QED BY <3>1
  <2>2. QED BY <2>1
<1>2. \E d \in D : \A e \in D : d <= e
  <2> HIDE DEF D
  <2>1. QED BY <1>1, LeastNatural
<1>3. PICK n \in T : \A e \in D : k - n <= e
  BY <1>2
<1>4. ASSUME NEW m \in T PROVE m <= n
  <2>1. k - n <= k - m /\ m \in Nat /\ n \in Nat
    BY <1>3
  <2>2. QED BY <2>1
<1>5. QED BY <1>4

LEMMA MinIs ==
  ASSUME NEW T, T \subseteq Nat, T # {} PROVE Min(T) \in T /\ \A n \in T : Min(T) <= n
BY LeastNatural DEF Min

-----------------------------------------------------------------------------
(* The sum, and what the two folds of the library are.                     *)

Some(T) == CHOOSE x \in T : TRUE
Adds(f, S, g) ==
  g = [T \in SUBSET S |-> IF T = {} THEN 0 ELSE f[Some(T)] + g[T \ {Some(T)}]]
Sum(f, S) == (CHOOSE g : Adds(f, S, g))[S]

LEMMA SetSumIs == ASSUME NEW f, NEW S PROVE MapThenSumSet(LAMBDA x : f[x], S) = Sum(f, S)
BY DEF Sum, Adds, Some, MapThenSumSet, MapThenFoldSet

LEMMA SomeIn == ASSUME NEW T, T # {} PROVE Some(T) \in T
BY DEF Some

(* Two such functions agree where both are defined.                        *)
LEMMA AddsOnce ==
  ASSUME NEW f, NEW S, NEW T, NEW g, NEW h, IsFiniteSet(S), T \subseteq S,
         Adds(f, S, g), Adds(f, T, h)
  PROVE  \A U \in SUBSET T : g[U] = h[U]
<1> DEFINE P == {U \in SUBSET T : g[U] # h[U]}
<1> SUFFICES ASSUME P # {} PROVE FALSE
  OBVIOUS
<1>1. PICK U \in P : \A V \in P : V \subseteq U => V = U
  <2>1. IsFiniteSet(T)
    BY FS_Subset
  <2>2. P \subseteq SUBSET T
    OBVIOUS
  <2> HIDE DEF P
  <2>3. QED BY <2>1, <2>2, LeastSubset
<1>2. g[U] = (IF U = {} THEN 0 ELSE f[Some(U)] + g[U \ {Some(U)}])
  BY DEF Adds
<1>3. h[U] = (IF U = {} THEN 0 ELSE f[Some(U)] + h[U \ {Some(U)}])
  BY DEF Adds
<1>4. U # {}
  BY <1>2, <1>3
<1>5. U \ {Some(U)} \notin P
  BY <1>1, <1>4, SomeIn
<1>6. g[U \ {Some(U)}] = h[U \ {Some(U)}]
  BY <1>5
<1>7. QED BY <1>2, <1>3, <1>4, <1>6

LEMMA AddsExists == ASSUME NEW f, NEW S, IsFiniteSet(S) PROVE \E g : Adds(f, S, g)
<1> DEFINE P == {T \in SUBSET S : ~\E g : Adds(f, T, g)}
<1> SUFFICES ASSUME P # {} PROVE FALSE
  OBVIOUS
<1>1. PICK T \in P : \A V \in P : V \subseteq T => V = T
  <2>1. P \subseteq SUBSET S
    OBVIOUS
  <2> HIDE DEF P
  <2>2. QED BY <2>1, LeastSubset
<1> DEFINE V(U) == IF U = {} THEN 0 ELSE f[Some(U)] + Sum(f, U \ {Some(U)})
           G == [U \in SUBSET T |-> V(U)]
<1>2. ASSUME NEW U \in SUBSET T, U # T PROVE Sum(f, U) = V(U)
  <2>1. PICK g : Adds(f, U, g) /\ g = (CHOOSE h : Adds(f, U, h))
    BY <1>1, <1>2
  <2>2. Sum(f, U) = g[U]
    BY <2>1 DEF Sum
  <2>3. g[U] = (IF U = {} THEN 0 ELSE f[Some(U)] + g[U \ {Some(U)}])
    BY <2>1 DEF Adds
  <2>4. ASSUME U # {} PROVE g[U \ {Some(U)}] = Sum(f, U \ {Some(U)})
    <3> DEFINE W == U \ {Some(U)}
    <3>1. W # T /\ W \in SUBSET T /\ W \subseteq U
      BY <2>4, SomeIn
    <3>2. PICK h : Adds(f, W, h) /\ h = (CHOOSE k : Adds(f, W, k))
      BY <1>1, <3>1
    <3>3. Sum(f, W) = h[W]
      BY <3>2 DEF Sum
    <3>4. IsFiniteSet(U)
      BY FS_Subset
    <3>5. g[W] = h[W]
      <4> HIDE DEF W
      <4>1. QED BY <2>1, <3>1, <3>2, <3>4, AddsOnce
    <3>6. QED BY <3>3, <3>5
  <2>5. QED BY <2>2, <2>3, <2>4
<1>3. ASSUME NEW U \in SUBSET T, U # {} PROVE G[U \ {Some(U)}] = Sum(f, U \ {Some(U)})
  <2>1. U \ {Some(U)} \in SUBSET T /\ U \ {Some(U)} # T
    BY <1>3, SomeIn
  <2>2. G[U \ {Some(U)}] = V(U \ {Some(U)})
    BY <2>1
  <2> HIDE DEF V, G
  <2>3. QED BY <1>2, <2>1, <2>2
<1>4. Adds(f, T, G)
  <2>1. \A U \in SUBSET T : V(U) = (IF U = {} THEN 0 ELSE f[Some(U)] + G[U \ {Some(U)}])
    BY <1>3
  <2>2. QED BY <2>1 DEF Adds
<1>5. QED BY <1>1, <1>4

LEMMA SumEmpty == ASSUME NEW f PROVE Sum(f, {}) = 0
<1>1. IsFiniteSet({})
  BY FS_EmptySet
<1>2. PICK g : Adds(f, {}, g) /\ g = (CHOOSE h : Adds(f, {}, h))
  BY <1>1, AddsExists
<1>3. QED BY <1>2 DEF Sum, Adds

LEMMA SumUnfold ==
  ASSUME NEW f, NEW S, IsFiniteSet(S), S # {}
  PROVE  Sum(f, S) = f[Some(S)] + Sum(f, S \ {Some(S)})
<1> DEFINE W == S \ {Some(S)}
<1>1. PICK g : Adds(f, S, g) /\ g = (CHOOSE h : Adds(f, S, h))
  BY AddsExists
<1>2. IsFiniteSet(W) /\ W \subseteq S
  BY FS_Subset
<1>3. PICK h : Adds(f, W, h) /\ h = (CHOOSE k : Adds(f, W, k))
  <2> HIDE DEF W
  <2>1. QED BY <1>2, AddsExists
<1>4. g[W] = h[W]
  <2> HIDE DEF W
  <2>1. QED BY <1>1, <1>2, <1>3, AddsOnce
<1>5. Sum(f, S) = g[S] /\ Sum(f, W) = h[W]
  BY <1>1, <1>3 DEF Sum
<1>6. g[S] = f[Some(S)] + g[W]
  BY <1>1 DEF Adds
<1>7. QED BY <1>4, <1>5, <1>6

(* Integers add up to an integer.                                          *)
LEMMA SumInt ==
  ASSUME NEW f, NEW S, IsFiniteSet(S), \A x \in S : f[x] \in Int
  PROVE  Sum(f, S) \in Int
<1> DEFINE P == {T \in SUBSET S : Sum(f, T) \notin Int}
<1> SUFFICES ASSUME P # {} PROVE FALSE
  OBVIOUS
<1>1. PICK T \in P : \A V \in P : V \subseteq T => V = T
  <2>1. P \subseteq SUBSET S
    OBVIOUS
  <2> HIDE DEF P
  <2>2. QED BY <2>1, LeastSubset
<1>2. IsFiniteSet(T)
  BY FS_Subset
<1>3. T # {}
  BY SumEmpty
<1>4. Some(T) \in T
  BY <1>3, SomeIn
<1>5. Sum(f, T \ {Some(T)}) \in Int
  BY <1>1, <1>4
<1>6. Sum(f, T) = f[Some(T)] + Sum(f, T \ {Some(T)})
  BY <1>2, <1>3, SumUnfold
<1>7. f[Some(T)] \in Int
  BY <1>4
<1>8. Sum(f, T) \in Int
  BY <1>5, <1>6, <1>7
<1>9. QED BY <1>8

(* Sums compare as their terms do.                                         *)
LEMMA SumAtMost ==
  ASSUME NEW f, NEW g, NEW S, IsFiniteSet(S),
         \A x \in S : f[x] \in Int /\ g[x] \in Int /\ f[x] <= g[x]
  PROVE  Sum(f, S) <= Sum(g, S)
<1> DEFINE P == {T \in SUBSET S : ~(Sum(f, T) <= Sum(g, T))}
<1> SUFFICES ASSUME P # {} PROVE FALSE
  OBVIOUS
<1>1. PICK T \in P : \A V \in P : V \subseteq T => V = T
  <2>1. P \subseteq SUBSET S
    OBVIOUS
  <2> HIDE DEF P
  <2>2. QED BY <2>1, LeastSubset
<1>2. IsFiniteSet(T)
  BY FS_Subset
<1>3. T # {}
  BY SumEmpty
<1>4. Some(T) \in T
  BY <1>3, SomeIn
<1> DEFINE W == T \ {Some(T)}
<1>5. Sum(f, W) <= Sum(g, W)
  BY <1>1, <1>4
<1>6. Sum(f, T) = f[Some(T)] + Sum(f, W) /\ Sum(g, T) = g[Some(T)] + Sum(g, W)
  BY <1>2, <1>3, SumUnfold
<1>7. f[Some(T)] \in Int /\ g[Some(T)] \in Int /\ f[Some(T)] <= g[Some(T)]
  BY <1>4
<1>8. Sum(f, W) \in Int /\ Sum(g, W) \in Int
  <2>1. IsFiniteSet(W) /\ W \subseteq S
    BY FS_Subset
  <2> HIDE DEF W
  <2>2. QED BY <2>1, SumInt
<1>9. Sum(f, T) <= Sum(g, T)
  <2> HIDE DEF W
  <2>1. QED BY <1>5, <1>6, <1>7, <1>8
<1>10. QED BY <1>9

LEMMA SumSame ==
  ASSUME NEW f, NEW g, NEW S, IsFiniteSet(S), \A x \in S : f[x] = g[x]
  PROVE  Sum(f, S) = Sum(g, S)
<1> DEFINE P == {T \in SUBSET S : Sum(f, T) # Sum(g, T)}
<1> SUFFICES ASSUME P # {} PROVE FALSE
  OBVIOUS
<1>1. PICK T \in P : \A V \in P : V \subseteq T => V = T
  <2>1. P \subseteq SUBSET S
    OBVIOUS
  <2> HIDE DEF P
  <2>2. QED BY <2>1, LeastSubset
<1>2. IsFiniteSet(T)
  BY FS_Subset
<1>3. T # {}
  BY SumEmpty
<1>4. Some(T) \in T
  BY <1>3, SomeIn
<1>5. Sum(f, T \ {Some(T)}) = Sum(g, T \ {Some(T)})
  BY <1>1, <1>4
<1>6. Sum(f, T) = f[Some(T)] + Sum(f, T \ {Some(T)})
  BY <1>2, <1>3, SumUnfold
<1>7. Sum(g, T) = g[Some(T)] + Sum(g, T \ {Some(T)})
  BY <1>2, <1>3, SumUnfold
<1>8. QED BY <1>4, <1>5, <1>6, <1>7

(* A sum of differences.                                                   *)
LEMMA SumMinus ==
  ASSUME NEW f, NEW g, NEW h, NEW S, IsFiniteSet(S),
         \A x \in S : f[x] \in Int /\ g[x] \in Int /\ h[x] = f[x] - g[x]
  PROVE  Sum(h, S) = Sum(f, S) - Sum(g, S)
<1> DEFINE P == {T \in SUBSET S : Sum(h, T) # Sum(f, T) - Sum(g, T)}
<1> SUFFICES ASSUME P # {} PROVE FALSE
  OBVIOUS
<1>1. PICK T \in P : \A V \in P : V \subseteq T => V = T
  <2>1. P \subseteq SUBSET S
    OBVIOUS
  <2> HIDE DEF P
  <2>2. QED BY <2>1, LeastSubset
<1>2. IsFiniteSet(T)
  BY FS_Subset
<1>3. T # {}
  BY SumEmpty
<1>4. Some(T) \in T
  BY <1>3, SomeIn
<1> DEFINE W == T \ {Some(T)}
<1>5. Sum(h, W) = Sum(f, W) - Sum(g, W)
  BY <1>1, <1>4
<1>6. /\ Sum(f, T) = f[Some(T)] + Sum(f, W) /\ Sum(g, T) = g[Some(T)] + Sum(g, W)
      /\ Sum(h, T) = h[Some(T)] + Sum(h, W)
  BY <1>2, <1>3, SumUnfold
<1>7. /\ f[Some(T)] \in Int /\ g[Some(T)] \in Int
      /\ h[Some(T)] = f[Some(T)] - g[Some(T)]
  BY <1>4
<1>8. Sum(f, W) \in Int /\ Sum(g, W) \in Int
  <2>1. IsFiniteSet(W) /\ W \subseteq S
    BY FS_Subset
  <2> HIDE DEF W
  <2>2. QED BY <2>1, SumInt
<1>9. Sum(h, T) = Sum(f, T) - Sum(g, T)
  <2> HIDE DEF W
  <2>1. QED BY <1>5, <1>6, <1>7, <1>8
<1>10. QED BY <1>9

LEMMA SumZero ==
  ASSUME NEW f, NEW S, IsFiniteSet(S), \A x \in S : f[x] = 0
  PROVE  Sum(f, S) = 0
<1> DEFINE P == {T \in SUBSET S : Sum(f, T) # 0}
<1> SUFFICES ASSUME P # {} PROVE FALSE
  OBVIOUS
<1>1. PICK T \in P : \A V \in P : V \subseteq T => V = T
  <2>1. P \subseteq SUBSET S
    OBVIOUS
  <2> HIDE DEF P
  <2>2. QED BY <2>1, LeastSubset
<1>2. IsFiniteSet(T)
  BY FS_Subset
<1>3. T # {}
  BY SumEmpty
<1>4. Some(T) \in T
  BY <1>3, SomeIn
<1>5. Sum(f, T \ {Some(T)}) = 0 /\ f[Some(T)] = 0
  BY <1>1, <1>4
<1>6. Sum(f, T) = f[Some(T)] + Sum(f, T \ {Some(T)})
  BY <1>2, <1>3, SumUnfold
<1>7. Sum(f, T) = 0
  BY <1>5, <1>6
<1>8. QED BY <1>7

(* Any element may be taken first.                                         *)
LEMMA SumWithout ==
  ASSUME NEW f, NEW S, IsFiniteSet(S), \A y \in S : f[y] \in Int, NEW x \in S
  PROVE  Sum(f, S) = f[x] + Sum(f, S \ {x})
<1> DEFINE P == {T \in SUBSET S : \E y \in T : Sum(f, T) # f[y] + Sum(f, T \ {y})}
<1> SUFFICES ASSUME P # {} PROVE FALSE
  OBVIOUS
<1>1. PICK T \in P : \A V \in P : V \subseteq T => V = T
  <2>1. P \subseteq SUBSET S
    OBVIOUS
  <2> HIDE DEF P
  <2>2. QED BY <2>1, LeastSubset
<1>2. PICK y \in T : Sum(f, T) # f[y] + Sum(f, T \ {y})
  OBVIOUS
<1>3. IsFiniteSet(T) /\ Some(T) \in T
  BY FS_Subset, SomeIn
<1> DEFINE z == Some(T)
           W == (T \ {y}) \ {z}
<1>4. Sum(f, T) = f[z] + Sum(f, T \ {z})
  BY <1>3, SumUnfold
<1>5. y # z
  BY <1>2, <1>4
<1>6. T \ {z} \notin P /\ T \ {y} \notin P
  BY <1>1, <1>3
<1>7. (T \ {z}) \ {y} = W
  OBVIOUS
<1>8. Sum(f, T \ {z}) = f[y] + Sum(f, W)
  BY <1>5, <1>6, <1>7
<1>9. Sum(f, T \ {y}) = f[z] + Sum(f, W)
  BY <1>3, <1>5, <1>6
<1>10. f[y] \in Int /\ f[z] \in Int
  BY <1>3
<1>11. Sum(f, W) \in Int
  <2>1. IsFiniteSet(W) /\ W \subseteq S
    BY FS_Subset
  <2> HIDE DEF W
  <2>2. QED BY <2>1, SumInt
<1>12. QED
  <2> HIDE DEF W, z
  <2>1. QED BY <1>2, <1>4, <1>8, <1>9, <1>10, <1>11

(* A change of one value changes the sum by as much.                       *)
LEMMA SumMoves ==
  ASSUME NEW f, NEW g, NEW S, IsFiniteSet(S), NEW x \in S,
         \A y \in S : f[y] \in Int /\ g[y] \in Int,
         \A y \in S : y # x => g[y] = f[y]
  PROVE  Sum(g, S) = Sum(f, S) - f[x] + g[x]
<1> DEFINE W == S \ {x}
<1>1. \A y \in W : g[y] = f[y]
  OBVIOUS
<1>2. (\A y \in S : f[y] \in Int) /\ (\A y \in S : g[y] \in Int) /\ \A y \in W : f[y] \in Int
  OBVIOUS
<1>3. IsFiniteSet(W)
  BY FS_Subset
<1>4. Sum(g, W) = Sum(f, W) /\ Sum(f, W) \in Int
  <2> HIDE DEF W
  <2>1. QED BY <1>1, <1>2, <1>3, SumSame, SumInt
<1>5. Sum(f, S) = f[x] + Sum(f, W) /\ Sum(g, S) = g[x] + Sum(g, W)
  BY <1>2, SumWithout
<1>6. f[x] \in Int /\ g[x] \in Int
  OBVIOUS
<1> HIDE DEF W
<1>7. QED BY <1>4, <1>5, <1>6

(* Naturals add up to a natural.                                           *)
LEMMA SumNat ==
  ASSUME NEW f, NEW S, IsFiniteSet(S), \A x \in S : f[x] \in Nat
  PROVE  Sum(f, S) \in Nat
<1> DEFINE P == {T \in SUBSET S : Sum(f, T) \notin Nat}
<1> SUFFICES ASSUME P # {} PROVE FALSE
  OBVIOUS
<1>1. PICK T \in P : \A V \in P : V \subseteq T => V = T
  <2>1. P \subseteq SUBSET S
    OBVIOUS
  <2> HIDE DEF P
  <2>2. QED BY <2>1, LeastSubset
<1>2. IsFiniteSet(T)
  BY FS_Subset
<1>3. T # {}
  BY SumEmpty
<1>4. Some(T) \in T
  BY <1>3, SomeIn
<1>5. Sum(f, T \ {Some(T)}) \in Nat
  BY <1>1, <1>4
<1>6. Sum(f, T) = f[Some(T)] + Sum(f, T \ {Some(T)})
  BY <1>2, <1>3, SumUnfold
<1>7. Sum(f, T) \in Nat
  BY <1>4, <1>5, <1>6
<1>8. QED BY <1>7

(* No term of a sum of naturals is above the sum.                          *)
LEMMA TermAtMost ==
  ASSUME NEW f, NEW S, IsFiniteSet(S), \A y \in S : f[y] \in Nat, NEW x \in S
  PROVE  Sum(f, S) \in Nat /\ f[x] <= Sum(f, S)
<1> DEFINE W == S \ {x}
<1>1. IsFiniteSet(W) /\ W \subseteq S
  BY FS_Subset
<1>2. Sum(f, S) = f[x] + Sum(f, W)
  BY SumWithout
<1>3. Sum(f, W) \in Nat
  <2> HIDE DEF W
  <2>1. QED BY <1>1, SumNat
<1>4. QED BY <1>2, <1>3
=============================================================================
