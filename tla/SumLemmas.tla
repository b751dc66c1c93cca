------------------------------- MODULE SumLemmas -------------------------------
(***************************************************************************)
(* What SumFunction returns over any finite set of accounts: the facts the *)
(* proofs about money rest on.  A proof by induction on a finite set takes *)
(* a minimal set at which the claim fails, so no lemma here is a schema.   *)
(***************************************************************************)
EXTENDS Integers, Functions, FiniteSets, FiniteSetTheorems,
        WellFoundedInduction, TLAPS

-----------------------------------------------------------------------------
(* Induction over the subsets of a finite set                                *)

\* A family of subsets of S that holds every set all of whose proper subsets
\* it holds is the family of all subsets of S.
LEMMA EverySubset ==
    ASSUME NEW S, IsFiniteSet(S), NEW Good,
           \A T \in SUBSET S :
              (\A U \in SUBSET T : U # T => U \in Good) => T \in Good
    PROVE  \A T \in SUBSET S : T \in Good
<1> DEFINE Bad == {T \in SUBSET S : T \notin Good}
           R == StrictSubsetOrdering(S)
<1> SUFFICES ASSUME Bad # {} PROVE FALSE
  OBVIOUS
<1>1. IsWellFoundedOn(R, SUBSET S)
  <2>1. IsWellFoundedOn(R, FiniteSubsetsOf(S))
    BY FS_StrictSubsetOrderingWellFounded, Zenon
  <2>2. FiniteSubsetsOf(S) = SUBSET S
    BY FS_FiniteSubsetsOfFinite
  <2> QED BY <2>1, <2>2, Zenon
<1>2. \E T \in Bad : \A U \in Bad : ~ (<<U, T>> \in R)
  <2> HIDE DEF R
  <2>1. Bad \subseteq SUBSET S
    OBVIOUS
  <2> HIDE DEF Bad
  <2> QED BY <1>1, <2>1, WFMin
<1>3. PICK T \in Bad : \A U \in Bad : ~ (<<U, T>> \in R)
  BY <1>2
<1>4. ASSUME NEW U \in SUBSET T, U # T PROVE U \in Good
  <2>1. U \in SUBSET S /\ T \in SUBSET S
    OBVIOUS
  <2>2. <<U, T>> \in R
    BY <1>4, <2>1 DEF StrictSubsetOrdering
  <2> QED BY <1>3, <2>1, <2>2
<1> QED BY <1>4

-----------------------------------------------------------------------------
(* The recursive function inside a sum                                       *)

Pick(s) == CHOOSE x \in s : TRUE

AddsUp(f, S, g) ==
    g = [s \in SUBSET S |-> IF s = {} THEN 0 ELSE f[Pick(s)] + g[s \ {Pick(s)}]]

Totals(f, S) == CHOOSE g : AddsUp(f, S, g)

\* The sum that the community module folds is the last entry of the totals.
LEMMA SumIsTotal ==
    ASSUME NEW f, NEW S
    PROVE  SumFunctionOnSet(f, S) = Totals(f, S)[S]
BY DEF SumFunctionOnSet, FoldFunctionOnSet, MapThenFoldSet, Totals, AddsUp, Pick

\* A picked element is one of the set.
LEMMA PickIn == ASSUME NEW s, s # {} PROVE Pick(s) \in s
BY DEF Pick

\* Two tables of totals agree on every set both have.
LEMMA TotalsAgree ==
    ASSUME NEW f, NEW S, IsFiniteSet(S), NEW U, NEW g, NEW h,
           AddsUp(f, S, g), AddsUp(f, U, h)
    PROVE  \A s \in SUBSET S : s \in SUBSET U => g[s] = h[s]
<1> DEFINE Good == {s \in SUBSET S : s \in SUBSET U => g[s] = h[s]}
<1>1. ASSUME NEW T \in SUBSET S,
             \A W \in SUBSET T : W # T => W \in Good
      PROVE  T \in Good
  <2> SUFFICES ASSUME T \in SUBSET U PROVE g[T] = h[T]
    OBVIOUS
  <2> DEFINE rest == T \ {Pick(T)}
  <2>1. g[T] = IF T = {} THEN 0 ELSE f[Pick(T)] + g[rest]
    BY DEF AddsUp
  <2>2. h[T] = IF T = {} THEN 0 ELSE f[Pick(T)] + h[rest]
    BY DEF AddsUp
  <2>3. T # {} => g[rest] = h[rest]
    <3> SUFFICES ASSUME T # {} PROVE g[rest] = h[rest]
      OBVIOUS
    <3>1. Pick(T) \in T
      BY PickIn
    <3>2. rest \in SUBSET T /\ rest # T
      BY <3>1
    <3>3. rest \in Good
      BY <1>1, <3>2
    <3> QED BY <3>3
  <2> QED BY <2>1, <2>2, <2>3
<1> HIDE DEF Good
<1>2. \A T \in SUBSET S : T \in Good
  BY <1>1, EverySubset
<1> QED BY <1>2 DEF Good

\* Totals exist over every finite set.
LEMMA TotalsExist ==
    ASSUME NEW f, NEW S, IsFiniteSet(S)
    PROVE  AddsUp(f, S, Totals(f, S))
<1> DEFINE Good == {T \in SUBSET S : \E g : AddsUp(f, T, g)}
<1>1. ASSUME NEW T \in SUBSET S,
             \A W \in SUBSET T : W # T => W \in Good
      PROVE  T \in Good
  <2> DEFINE rest(s) == s \ {Pick(s)}
             g == [s \in SUBSET T |->
                     IF s = {} THEN 0
                     ELSE f[Pick(s)] + Totals(f, rest(s))[rest(s)]]
  <2>1. ASSUME NEW W \in SUBSET T, W # T
        PROVE  AddsUp(f, W, Totals(f, W))
    <3>1. W \in Good
      BY <1>1, <2>1
    <3>2. \E h : AddsUp(f, W, h)
      BY <3>1
    <3> QED BY <3>2 DEF Totals
  <2>2. ASSUME NEW W \in SUBSET T, W # T
        PROVE  g[W] = Totals(f, W)[W]
    <3>1. AddsUp(f, W, Totals(f, W))
      BY <2>1, <2>2
    <3>2. Totals(f, W)[W] = IF W = {} THEN 0
                            ELSE f[Pick(W)] + Totals(f, W)[rest(W)]
      BY <3>1 DEF AddsUp
    <3>3. W # {} => Totals(f, W)[rest(W)] = Totals(f, rest(W))[rest(W)]
      <4> SUFFICES ASSUME W # {}
                   PROVE  Totals(f, W)[rest(W)] = Totals(f, rest(W))[rest(W)]
        OBVIOUS
      <4>1. rest(W) \in SUBSET T /\ rest(W) # T /\ rest(W) \in SUBSET W
        BY PickIn, <2>2
      <4>2. AddsUp(f, rest(W), Totals(f, rest(W)))
        BY <4>1, <2>1
      <4>3. IsFiniteSet(W)
        BY FS_Subset
      <4> HIDE DEF rest
      <4> QED BY <3>1, <4>1, <4>2, <4>3, TotalsAgree
    <3> QED BY <3>2, <3>3
  <2>3. AddsUp(f, T, g)
    <3>1. ASSUME NEW s \in SUBSET T, s # {}
          PROVE  g[rest(s)] = Totals(f, rest(s))[rest(s)]
      <4>1. rest(s) \in SUBSET T /\ rest(s) # T
        BY <3>1, PickIn
      <4> QED BY <4>1, <2>2
    <3> QED BY <3>1 DEF AddsUp
  <2> QED BY <2>3
<1> HIDE DEF Good
<1>2. \A T \in SUBSET S : T \in Good
  BY <1>1, EverySubset
<1>3. \E g : AddsUp(f, S, g)
  BY <1>2 DEF Good
<1> QED BY <1>3 DEF Totals

-----------------------------------------------------------------------------
(* What a sum is                                                             *)

Sum(f, S) == SumFunctionOnSet(f, S)

\* Nothing adds up to nothing, and a sum is its picked element and the rest.
LEMMA SumUnfolds ==
    ASSUME NEW f, NEW S, IsFiniteSet(S)
    PROVE  Sum(f, S) = IF S = {} THEN 0
                       ELSE f[Pick(S)] + Sum(f, S \ {Pick(S)})
<1> DEFINE rest == S \ {Pick(S)}
<1>1. Totals(f, S)[S] = IF S = {} THEN 0 ELSE f[Pick(S)] + Totals(f, S)[rest]
  <2>1. AddsUp(f, S, Totals(f, S))
    BY TotalsExist
  <2> QED BY <2>1 DEF AddsUp
<1>2. Totals(f, S)[rest] = Totals(f, rest)[rest]
  <2>1. IsFiniteSet(rest) /\ rest \in SUBSET S
    BY FS_Subset
  <2>2. AddsUp(f, rest, Totals(f, rest)) /\ AddsUp(f, S, Totals(f, S))
    BY <2>1, TotalsExist
  <2>3. \A s \in SUBSET S :
           s \in SUBSET rest => Totals(f, S)[s] = Totals(f, rest)[s]
    <3> DEFINE g == Totals(f, S)
               h == Totals(f, rest)
    <3>1. AddsUp(f, S, g) /\ AddsUp(f, rest, h)
      BY <2>2
    <3> HIDE DEF rest, g, h
    <3>2. \A s \in SUBSET S : s \in SUBSET rest => g[s] = h[s]
      BY <3>1, TotalsAgree
    <3> QED BY <3>2 DEF g, h
  <2> HIDE DEF rest
  <2> QED BY <2>1, <2>3
<1> QED BY <1>1, <1>2, SumIsTotal DEF Sum

\* A sum of integers is an integer.
LEMMA SumInt ==
    ASSUME NEW S, IsFiniteSet(S), NEW f, \A x \in S : f[x] \in Int
    PROVE  Sum(f, S) \in Int
<1> DEFINE Good == {T \in SUBSET S : Sum(f, T) \in Int}
<1>1. ASSUME NEW T \in SUBSET S,
             \A W \in SUBSET T : W # T => W \in Good
      PROVE  T \in Good
  <2>1. IsFiniteSet(T)
    BY FS_Subset
  <2>2. CASE T = {}
    <3>1. Sum(f, T) = 0
      BY <2>1, <2>2, SumUnfolds
    <3> QED BY <3>1
  <2>3. CASE T # {}
    <3>1. Pick(T) \in T
      BY <2>3, PickIn
    <3>2. T \ {Pick(T)} \in Good
      BY <3>1, <1>1
    <3>3. Sum(f, T) = f[Pick(T)] + Sum(f, T \ {Pick(T)})
      BY <2>1, <2>3, SumUnfolds
    <3>4. Sum(f, T \ {Pick(T)}) \in Int /\ f[Pick(T)] \in Int
      BY <3>1, <3>2
    <3> QED BY <3>3, <3>4
  <2> QED BY <2>2, <2>3
<1> HIDE DEF Good
<1>2. \A T \in SUBSET S : T \in Good
  BY <1>1, EverySubset
<1> QED BY <1>2 DEF Good

\* Any element may be taken out of a sum first.
LEMMA SumTakes ==
    ASSUME NEW S, IsFiniteSet(S), NEW f, \A x \in S : f[x] \in Int
    PROVE  \A T \in SUBSET S : \A x \in T : Sum(f, T) = f[x] + Sum(f, T \ {x})
<1> DEFINE Good == {T \in SUBSET S :
                      \A x \in T : Sum(f, T) = f[x] + Sum(f, T \ {x})}
<1>1. ASSUME NEW T \in SUBSET S,
             \A W \in SUBSET T : W # T => W \in Good
      PROVE  T \in Good
  <2> SUFFICES ASSUME NEW x \in T
               PROVE  Sum(f, T) = f[x] + Sum(f, T \ {x})
    OBVIOUS
  <2> DEFINE p == Pick(T)
  <2>1. IsFiniteSet(T) /\ IsFiniteSet(T \ {p, x}) /\ IsFiniteSet(T \ {x})
    BY FS_Subset
  <2>2. p \in T
    BY PickIn
  <2>3. Sum(f, T) = f[p] + Sum(f, T \ {p})
    BY <2>1, SumUnfolds
  <2>4. CASE p = x
    BY <2>3, <2>4
  <2>5. CASE p # x
    <3>1. T \ {p} \in Good /\ T \ {x} \in Good
      BY <2>2, <1>1
    <3>2. (T \ {p}) \ {x} = T \ {p, x} /\ (T \ {x}) \ {p} = T \ {p, x}
      OBVIOUS
    <3>3. Sum(f, T \ {p}) = f[x] + Sum(f, T \ {p, x})
      BY <3>1, <3>2, <2>5
    <3>4. Sum(f, T \ {x}) = f[p] + Sum(f, T \ {p, x})
      BY <3>1, <3>2, <2>2, <2>5
    <3>5. Sum(f, T \ {p, x}) \in Int /\ f[x] \in Int /\ f[p] \in Int
      BY <2>1, <2>2, SumInt
    <3> HIDE DEF p
    <3> QED BY <2>3, <3>3, <3>4, <3>5, SMT
  <2> QED BY <2>4, <2>5
<1> HIDE DEF Good
<1>2. \A T \in SUBSET S : T \in Good
  BY <1>1, EverySubset
<1> QED BY <1>2 DEF Good

\* Two functions that agree on a set have one sum over it.
LEMMA SumSame ==
    ASSUME NEW S, IsFiniteSet(S), NEW f, NEW g, \A x \in S : f[x] = g[x]
    PROVE  Sum(f, S) = Sum(g, S)
<1> DEFINE Good == {T \in SUBSET S : Sum(f, T) = Sum(g, T)}
<1>1. ASSUME NEW T \in SUBSET S,
             \A W \in SUBSET T : W # T => W \in Good
      PROVE  T \in Good
  <2>1. IsFiniteSet(T)
    BY FS_Subset
  <2>2. CASE T = {}
    BY <2>1, <2>2, SumUnfolds
  <2>3. CASE T # {}
    <3>1. Pick(T) \in T
      BY <2>3, PickIn
    <3>2. T \ {Pick(T)} \in Good
      BY <3>1, <1>1
    <3> QED BY <2>1, <2>3, <3>1, <3>2, SumUnfolds
  <2> QED BY <2>2, <2>3
<1> HIDE DEF Good
<1>2. \A T \in SUBSET S : T \in Good
  BY <1>1, EverySubset
<1> QED BY <1>2 DEF Good

\* What is less entry by entry adds up to less.
LEMMA SumLess ==
    ASSUME NEW S, IsFiniteSet(S), NEW f, NEW g, \A x \in S : f[x] \in Int /\ g[x] \in Int /\ f[x] <= g[x]
    PROVE  Sum(f, S) <= Sum(g, S)
<1> DEFINE Good == {T \in SUBSET S : Sum(f, T) <= Sum(g, T)}
<1>1. ASSUME NEW T \in SUBSET S,
             \A W \in SUBSET T : W # T => W \in Good
      PROVE  T \in Good
  <2>1. IsFiniteSet(T) /\ \A U \in SUBSET T : IsFiniteSet(U)
    BY FS_Subset
  <2>2. CASE T = {}
    <3>1. Sum(f, T) = 0 /\ Sum(g, T) = 0
      BY <2>1, <2>2, SumUnfolds
    <3> QED BY <3>1
  <2>3. CASE T # {}
    <3>1. Pick(T) \in T
      BY <2>3, PickIn
    <3>2. PICK x \in T : x = Pick(T)
      BY <3>1
    <3> DEFINE rest == T \ {x}
    <3>3. Sum(f, rest) <= Sum(g, rest)
      BY <1>1
    <3>4. Sum(f, rest) \in Int /\ Sum(g, rest) \in Int
      BY <2>1, SumInt
    <3>5. Sum(f, T) = f[x] + Sum(f, rest) /\ Sum(g, T) = g[x] + Sum(g, rest)
      BY <2>1, <2>3, <3>2, SumUnfolds
    <3> HIDE DEF rest
    <3>6. Sum(f, T) <= Sum(g, T)
      BY <3>3, <3>4, <3>5
    <3> QED BY <3>6
  <2> QED BY <2>2, <2>3
<1> HIDE DEF Good
<1>2. \A T \in SUBSET S : T \in Good
  BY <1>1, EverySubset
<1> QED BY <1>2 DEF Good

\* What holds nothing adds nothing.
LEMMA SumDropsZeros ==
    ASSUME NEW S, IsFiniteSet(S), NEW f, \A x \in S : f[x] \in Int, NEW R \in SUBSET S, \A x \in S \ R : f[x] = 0
    PROVE  Sum(f, S) = Sum(f, R)
<1> DEFINE Good == {T \in SUBSET S : Sum(f, T) = Sum(f, T \intersect R)}
<1>1. ASSUME NEW T \in SUBSET S,
             \A W \in SUBSET T : W # T => W \in Good
      PROVE  T \in Good
  <2>1. IsFiniteSet(T) /\ \A U \in SUBSET T : IsFiniteSet(U)
    BY FS_Subset
  <2>2. CASE T = {}
    <3>1. T \intersect R = T
      BY <2>2
    <3> QED BY <3>1
  <2>3. CASE T # {}
    <3>1. Pick(T) \in T
      BY <2>3, PickIn
    <3>2. PICK x : x = Pick(T)
      OBVIOUS
    <3> DEFINE rest == T \ {x}
    <3>3. Sum(f, rest) = Sum(f, rest \intersect R)
      BY <3>1, <3>2, <1>1
    <3>4. Sum(f, T) = f[x] + Sum(f, rest)
      BY <2>1, <2>3, <3>2, SumUnfolds
    <3>5. Sum(f, rest) \in Int /\ IsFiniteSet(T \intersect R)
      BY <2>1, SumInt
    <3>6. CASE x \in R
      <4>1. (T \intersect R) \ {x} = rest \intersect R /\ x \in T \intersect R
        BY <3>1, <3>2, <3>6
      <4>2. Sum(f, T \intersect R) = f[x] + Sum(f, (T \intersect R) \ {x})
        BY <3>5, <4>1, SumTakes
      <4>3. Sum(f, T) = Sum(f, T \intersect R)
        BY <3>3, <3>4, <4>1, <4>2, Zenon
      <4> QED BY <4>3
    <3>7. CASE x \notin R
      <4>1. T \intersect R = rest \intersect R /\ f[x] = 0
        BY <3>1, <3>2, <3>7
      <4>2. Sum(f, T) = Sum(f, rest)
        BY <3>4, <3>5, <4>1
      <4>3. Sum(f, T) = Sum(f, T \intersect R)
        BY <3>3, <4>1, <4>2, Zenon
      <4> QED BY <4>3
    <3> QED BY <3>6, <3>7
  <2> QED BY <2>2, <2>3
<1> HIDE DEF Good
<1>2. \A T \in SUBSET S : T \in Good
  BY <1>1, EverySubset
<1>3. S \intersect R = R
  OBVIOUS
<1> QED BY <1>2, <1>3 DEF Good

\* Multiples add up to a multiple.
LEMMA SumOfMultiples ==
    ASSUME NEW S, IsFiniteSet(S), NEW f, NEW w \in Int, \A x \in S : \E m \in Int : f[x] = m * w
    PROVE  \E m \in Int : Sum(f, S) = m * w
<1> DEFINE Good == {T \in SUBSET S : \E m \in Int : Sum(f, T) = m * w}
<1>1. ASSUME NEW T \in SUBSET S,
             \A W \in SUBSET T : W # T => W \in Good
      PROVE  T \in Good
  <2>1. IsFiniteSet(T)
    BY FS_Subset
  <2>2. CASE T = {}
    <3>1. Sum(f, T) = 0 * w
      BY <2>1, <2>2, SumUnfolds
    <3> QED BY <3>1
  <2>3. CASE T # {}
    <3>1. PICK x \in T : x = Pick(T)
      BY <2>3, PickIn
    <3> DEFINE rest == T \ {x}
    <3>2. PICK m \in Int : Sum(f, rest) = m * w
      BY <1>1
    <3>3. PICK n \in Int : f[x] = n * w
      OBVIOUS
    <3>4. Sum(f, T) = f[x] + Sum(f, rest)
      BY <2>1, <2>3, <3>1, SumUnfolds
    <3> HIDE DEF rest
    <3>5. Sum(f, T) = (n + m) * w
      BY <3>2, <3>3, <3>4
    <3> QED BY <3>5
  <2> QED BY <2>2, <2>3
<1> HIDE DEF Good
<1>2. \A T \in SUBSET S : T \in Good
  BY <1>1, EverySubset
<1> QED BY <1>2 DEF Good

\* A function has a least value on a finite set.
LEMMA LeastEntry ==
    ASSUME NEW S, IsFiniteSet(S), NEW f, \A x \in S : f[x] \in Int, S # {}
    PROVE  \E x \in S : \A y \in S : f[x] <= f[y]
<1> DEFINE Good == {T \in SUBSET S : T = {} \/ \E x \in T : \A y \in T : f[x] <= f[y]}
<1>1. ASSUME NEW T \in SUBSET S,
             \A W \in SUBSET T : W # T => W \in Good
      PROVE  T \in Good
  <2>1. CASE T = {}
    BY <2>1
  <2>2. CASE T # {}
    <3>1. PICK z \in T : TRUE
      BY <2>2
    <3>2. CASE T = {z}
      <4>1. \A y \in T : f[z] <= f[y]
        BY <3>2
      <4> QED BY <4>1
    <3>3. CASE T # {z}
      <4> DEFINE rest == T \ {z}
      <4>1. rest # {} /\ rest \in Good
        BY <1>1, <3>3
      <4>2. PICK x \in rest : \A y \in rest : f[x] <= f[y]
        BY <4>1
      <4>3. CASE f[x] <= f[z]
        <5>1. \A y \in T : f[x] <= f[y]
          BY <4>2, <4>3
        <5> QED BY <5>1
      <4>4. CASE ~(f[x] <= f[z])
        <5>1. \A y \in T : f[z] <= f[y]
          BY <4>2, <4>4
        <5> QED BY <5>1
      <4> QED BY <4>3, <4>4
    <3> QED BY <3>2, <3>3
  <2> QED BY <2>1, <2>2
<1> HIDE DEF Good
<1>2. S \in Good
  BY <1>1, EverySubset
<1> QED BY <1>2 DEF Good

-----------------------------------------------------------------------------
(* What the proofs about money cite                                          *)

\* A table of zeros adds up to zero.
LEMMA SumOfZeros ==
    ASSUME NEW S, IsFiniteSet(S)
    PROVE  SumFunction([x \in S |-> 0]) = 0
<1> DEFINE f == [x \in S |-> 0]
           Good == {T \in SUBSET S : Sum(f, T) = 0}
<1>1. ASSUME NEW T \in SUBSET S,
             \A W \in SUBSET T : W # T => W \in Good
      PROVE  T \in Good
  <2>1. IsFiniteSet(T)
    BY FS_Subset
  <2>2. CASE T = {}
    BY <2>1, <2>2, SumUnfolds
  <2>3. CASE T # {}
    <3>1. Pick(T) \in T
      BY <2>3, PickIn
    <3>2. T \ {Pick(T)} \in Good
      BY <3>1, <1>1
    <3>3. Sum(f, T) = f[Pick(T)] + Sum(f, T \ {Pick(T)})
      BY <2>1, <2>3, SumUnfolds
    <3>4. f[Pick(T)] = 0
      BY <3>1
    <3> QED BY <3>2, <3>3, <3>4
  <2> QED BY <2>2, <2>3
<1> HIDE DEF Good
<1>2. \A T \in SUBSET S : T \in Good
  BY <1>1, EverySubset
<1> QED BY <1>2 DEF Good, SumFunction, Sum

\* The sum of a table of integers is an integer.
LEMMA TableInt ==
    ASSUME NEW S, IsFiniteSet(S), NEW f \in [S -> Int]
    PROVE  SumFunction(f) \in Int
BY SumInt DEF SumFunction, Sum

\* Changing one entry of a table changes its sum by as much.
LEMMA TableEntry ==
    ASSUME NEW S, IsFiniteSet(S), NEW f \in [S -> Int],
           NEW x \in S, NEW v \in Int
    PROVE  SumFunction([f EXCEPT ![x] = v]) = SumFunction(f) + (v - f[x])
<1> DEFINE g == [f EXCEPT ![x] = v]
           rest == S \ {x}
<1>1. IsFiniteSet(rest)
  BY FS_Subset
<1>2. g \in [S -> Int] /\ g[x] = v /\ \A y \in rest : f[y] = g[y]
  OBVIOUS
<1>3. Sum(f, S) = f[x] + Sum(f, rest)
  BY SumTakes
<1>4. Sum(g, S) = v + Sum(g, rest)
  <2> HIDE DEF g
  <2> QED BY <1>2, SumTakes
<1>5. Sum(f, rest) = Sum(g, rest)
  <2> HIDE DEF g, rest
  <2> QED BY <1>1, <1>2, SumSame
<1>6. Sum(f, rest) \in Int /\ f[x] \in Int
  <2>1. \A y \in rest : f[y] \in Int
    OBVIOUS
  <2> HIDE DEF rest
  <2> QED BY <1>1, <2>1, SumInt
<1>7. SumFunction(f) = Sum(f, S) /\ SumFunction(g) = Sum(g, S)
  BY <1>2 DEF SumFunction, Sum
<1> HIDE DEF g, rest
<1> QED BY <1>3, <1>4, <1>5, <1>6, <1>7 DEF g

\* A table with one entry more adds up to that entry more.
LEMMA TableGrows ==
    ASSUME NEW S, IsFiniteSet(S), NEW x, x \notin S, NEW f \in [S -> Int],
           NEW g \in [S \union {x} -> Int], \A y \in S : g[y] = f[y]
    PROVE  SumFunction(g) = SumFunction(f) + g[x]
<1> DEFINE all == S \union {x}
<1>1. IsFiniteSet(all)
  BY FS_AddElement
<1>2. x \in all /\ S = all \ {x} /\ \A y \in all : g[y] \in Int
  OBVIOUS
<1>3. Sum(g, all) = g[x] + Sum(g, all \ {x})
  <2> HIDE DEF all
  <2> QED BY <1>1, <1>2, SumTakes
<1>4. Sum(g, S) = Sum(f, S)
  BY SumSame
<1>5. SumFunction(f) = Sum(f, S) /\ SumFunction(g) = Sum(g, all)
  BY DEF SumFunction, Sum
<1>6. Sum(f, S) \in Int
  BY SumInt
<1>7. g[x] \in Int
  OBVIOUS
<1>8. Sum(g, all) = g[x] + Sum(f, S)
  BY <1>2, <1>3, <1>4, Zenon
<1> HIDE DEF all
<1> QED BY <1>5, <1>6, <1>7, <1>8

=============================================================================
