-------------------------- MODULE PlannerSumsProofs --------------------------
(***************************************************************************)
(* Proofs about what the planner sums up: the cubes of baby food in the    *)
(* freezer and the family's money.                                         *)
(***************************************************************************)
EXTENDS PlannerStoreProofs

-----------------------------------------------------------------------------
(***************************************************************************)
(* Sums over finite sets.  SumOver is defined by recursion over the        *)
(* subsets of its set, always taking the element CHOOSE picks.             *)
(***************************************************************************)

SumStep(iter, h, s) == IF s = {} THEN 0 ELSE LET x == CHOOSE x \in s : TRUE IN h[x] + iter[s \ {x}]
SumsOver(iter, h, T) == iter = [s \in T |-> SumStep(iter, h, s)]
AtMost(S, k) == {s \in SUBSET S : Cardinality(s) <= k}

\* A subset with an element less is one smaller.
LEMMA Smaller ==
  ASSUME NEW S, IsFiniteSet(S), NEW s \in SUBSET S
  PROVE  /\ IsFiniteSet(s) /\ Cardinality(s) \in Nat /\ Cardinality(s) <= Cardinality(S)
         /\ Cardinality(s) = 0 <=> s = {}
         /\ \A x \in s : s \ {x} \in SUBSET S /\ Cardinality(s \ {x}) = Cardinality(s) - 1
<1>1. IsFiniteSet(s) /\ Cardinality(s) \in Nat /\ Cardinality(s) <= Cardinality(S)
  BY FS_Subset, FS_CardinalityType
<1>2. Cardinality(s) = 0 <=> s = {}
  BY <1>1, FS_EmptySet
<1>3. ASSUME NEW x \in s PROVE s \ {x} \in SUBSET S /\ Cardinality(s \ {x}) = Cardinality(s) - 1
  BY <1>1, FS_RemoveElement
<1> QED BY <1>1, <1>2, <1>3

LEMMA SumUnfolds ==
  ASSUME NEW S, IsFiniteSet(S), NEW h
  PROVE  \E f : SumsOver(f, h, SUBSET S) /\ Food!SumOver(h, S) = f[S]
<1> DEFINE n == Cardinality(S)
           K == {k \in 0..n : \E f : SumsOver(f, h, AtMost(S, k))}
<1>0. n \in Nat
  BY FS_CardinalityType
<1>1. 0 \in K
  <2> DEFINE f == [s \in AtMost(S, 0) |-> 0]
  <2>1. ASSUME NEW s \in AtMost(S, 0) PROVE s = {}
    BY Smaller DEF AtMost
  <2>2. f = [s \in AtMost(S, 0) |-> SumStep(f, h, s)]
    BY <2>1 DEF SumStep
  <2> QED BY <1>0, <2>2 DEF SumsOver
<1>2. ASSUME NEW k \in 0..(n - 1), k \in K PROVE k + 1 \in K
  <2>1. PICK f : SumsOver(f, h, AtMost(S, k))
    BY <1>2
  <2> DEFINE g == [s \in AtMost(S, k + 1) |-> SumStep(f, h, s)]
  <2>2. ASSUME NEW s \in AtMost(S, k + 1) PROVE SumStep(f, h, s) = SumStep(g, h, s)
    <3> SUFFICES ASSUME s # {} PROVE SumStep(f, h, s) = SumStep(g, h, s)
      BY DEF SumStep
    <3> DEFINE x == CHOOSE x \in s : TRUE
               t == s \ {x}
    <3>1. x \in s
      OBVIOUS
    <3>2. t \in AtMost(S, k) /\ t \in AtMost(S, k + 1)
      <4>1. s \in SUBSET S /\ Cardinality(s) <= k + 1
        BY DEF AtMost
      <4>2. t \in SUBSET S /\ Cardinality(t) = Cardinality(s) - 1 /\ Cardinality(s) \in Nat
        <5> HIDE DEF x
        <5> QED BY <3>1, <4>1, Smaller
      <4>3. Cardinality(t) <= k /\ Cardinality(t) <= k + 1
        BY <1>0, <4>1, <4>2
      <4> QED BY <4>2, <4>3 DEF AtMost
    <3>3. f[t] = SumStep(f, h, t)
      BY <2>1, <3>2 DEF SumsOver
    <3>4. g[t] = SumStep(f, h, t)
      BY <3>2
    <3> QED BY <3>3, <3>4 DEF SumStep
  <2>3. g = [s \in AtMost(S, k + 1) |-> SumStep(g, h, s)]
    BY <2>2
  <2>4. SumsOver(g, h, AtMost(S, k + 1))
    BY <2>3 DEF SumsOver
  <2> QED BY <1>0, <2>4
<1>3. 0..n \subseteq K
  <2> HIDE DEF K, n
  <2> QED BY <1>0, <1>1, <1>2, Induction
<1>4. AtMost(S, n) = SUBSET S
  BY <1>0, Smaller DEF AtMost
<1>5. PICK p : SumsOver(p, h, SUBSET S)
  <2>1. n \in K
    BY <1>0, <1>3
  <2> QED BY <1>4, <2>1
<1> DEFINE g == CHOOSE f : SumsOver(f, h, SUBSET S)
<1>6. SumsOver(g, h, SUBSET S)
  BY <1>5
<1>7. Food!SumOver(h, S) = g[S]
  BY DEF Food!SumOver, Food!MapThenSumSet, Food!MapThenFoldSet, SumsOver, SumStep
<1> QED BY <1>6, <1>7

\* The recursion has one solution, whichever set it is taken over, and only the
\* values on the set matter.
Solves(f, h, S) == IsFiniteSet(S) /\ SumsOver(f, h, SUBSET S)
SameOn(S, h, g) == \A x \in S : h[x] = g[x]

LEMMA SumsAgree ==
  ASSUME NEW S, NEW U, S \subseteq U, NEW h, NEW g, SameOn(S, h, g), NEW p, Solves(p, h, S), NEW q, Solves(q, g, U)
  PROVE  p[S] = q[S]
<1> USE DEF Solves, SameOn
<1> DEFINE n == Cardinality(S)
           K == {k \in 0..n : \A s \in AtMost(S, k) : p[s] = q[s]}
<1>0. IsFiniteSet(S) /\ n \in Nat
  BY FS_Subset, FS_CardinalityType
<1>1. 0 \in K
  <2>1. ASSUME NEW s \in AtMost(S, 0) PROVE p[s] = q[s]
    <3>1. s = {} /\ s \in SUBSET S /\ s \in SUBSET U
      BY <1>0, Smaller DEF AtMost
    <3> QED BY <3>1 DEF SumsOver, SumStep
  <2> QED BY <1>0, <2>1
<1>2. ASSUME NEW k \in 0..(n - 1), k \in K PROVE k + 1 \in K
  <2>1. ASSUME NEW s \in AtMost(S, k + 1) PROVE p[s] = q[s]
    <3>1. s \in SUBSET S /\ s \in SUBSET U /\ Cardinality(s) <= k + 1
      BY DEF AtMost
    <3>2. p[s] = SumStep(p, h, s) /\ q[s] = SumStep(q, g, s)
      BY <3>1 DEF SumsOver
    <3>3. CASE s = {}
      BY <3>2, <3>3 DEF SumStep
    <3>4. CASE s # {}
      <4> DEFINE x == CHOOSE x \in s : TRUE
                 t == s \ {x}
      <4>1. x \in s
        BY <3>4
      <4>2. t \in SUBSET S /\ Cardinality(t) = Cardinality(s) - 1 /\ Cardinality(s) \in Nat
        <5> HIDE DEF x
        <5> QED BY <1>0, <3>1, <4>1, Smaller
      <4>3. t \in AtMost(S, k)
        BY <1>0, <3>1, <4>2 DEF AtMost
      <4>4. p[t] = q[t] /\ h[x] = g[x]
        BY <1>2, <3>1, <4>1, <4>3
      <4> QED BY <3>2, <3>4, <4>4 DEF SumStep
    <3> QED BY <3>3, <3>4
  <2> QED BY <1>0, <2>1
<1>3. 0..n \subseteq K
  <2> HIDE DEF K, n
  <2> QED BY <1>0, <1>1, <1>2, Induction
<1>4. S \in AtMost(S, n)
  BY <1>0 DEF AtMost
<1> QED BY <1>0, <1>3, <1>4

\* Only the values on the set matter.
LEMMA SumSame ==
  ASSUME NEW S, IsFiniteSet(S), NEW h, NEW g, \A x \in S : h[x] = g[x]
  PROVE  Food!SumOver(h, S) = Food!SumOver(g, S)
<1>1. PICK p : SumsOver(p, h, SUBSET S) /\ Food!SumOver(h, S) = p[S]
  BY SumUnfolds
<1>2. PICK q : SumsOver(q, g, SUBSET S) /\ Food!SumOver(g, S) = q[S]
  BY SumUnfolds
<1>3. p[S] = q[S]
  <2>1. Solves(p, h, S) /\ Solves(q, g, S) /\ SameOn(S, h, g) /\ S \subseteq S
    BY <1>1, <1>2 DEF Solves, SameOn
  <2> QED BY ONLY <2>1, SumsAgree
<1> QED BY <1>1, <1>2, <1>3

\* A sum of integers is one, and an element more adds its value.
LEMMA SumAdds ==
  ASSUME NEW S, IsFiniteSet(S), NEW h, \A x \in S : h[x] \in Int
  PROVE  /\ Food!SumOver(h, {}) = 0
         /\ Food!SumOver(h, S) \in Int
         /\ \A x \in S : Food!SumOver(h, S) = h[x] + Food!SumOver(h, S \ {x})
<1>0. IsFiniteSet({}) /\ {} \subseteq S /\ SUBSET {} = {{}}
  BY FS_EmptySet
<1>1. Food!SumOver(h, {}) = 0
  <2>1. PICK p : SumsOver(p, h, SUBSET {}) /\ Food!SumOver(h, {}) = p[{}]
    BY <1>0, SumUnfolds
  <2> QED BY <1>0, <2>1 DEF SumsOver, SumStep
<1>2. PICK q : SumsOver(q, h, SUBSET S) /\ Food!SumOver(h, S) = q[S]
  BY SumUnfolds
<1>3. ASSUME NEW s \in SUBSET S PROVE Food!SumOver(h, s) = q[s]
  <2>1. IsFiniteSet(s)
    BY FS_Subset
  <2>2. PICK p : SumsOver(p, h, SUBSET s) /\ Food!SumOver(h, s) = p[s]
    BY <2>1, SumUnfolds
  <2>3. p[s] = q[s]
    <3>1. Solves(p, h, s) /\ Solves(q, h, S) /\ SameOn(s, h, h) /\ s \subseteq S
      BY <1>2, <2>1, <2>2 DEF Solves, SameOn
    <3> QED BY ONLY <3>1, SumsAgree
  <2> QED BY <2>2, <2>3
<1> DEFINE n == Cardinality(S)
           Joins(s) == /\ q[s] \in Int
                      /\ \A x \in s : q[s] = h[x] + q[s \ {x}]
           K == {k \in 0..n : \A s \in AtMost(S, k) : Joins(s)}
<1>4. n \in Nat
  BY FS_CardinalityType
<1>5. 0 \in K
  <2>1. ASSUME NEW s \in AtMost(S, 0) PROVE Joins(s)
    <3>1. s = {}
      BY Smaller DEF AtMost
    <3>2. q[s] = 0
      BY <1>2, <3>1 DEF SumsOver, SumStep
    <3> QED BY <3>1, <3>2
  <2> HIDE DEF Joins
  <2> QED BY <1>4, <2>1
<1>6. ASSUME NEW k \in 0..(n - 1), k \in K PROVE k + 1 \in K
  <2>0. \A s \in AtMost(S, k) : Joins(s)
    BY <1>6
  <2>1. ASSUME NEW s \in AtMost(S, k + 1) PROVE Joins(s)
    <3>1. s \in SUBSET S /\ Cardinality(s) <= k + 1 /\ Cardinality(s) \in Nat
      BY Smaller DEF AtMost
    <3>2. q[s] = SumStep(q, h, s)
      BY <1>2, <3>1 DEF SumsOver
    <3>3. CASE s = {}
      <4>1. q[s] = 0
        BY <3>2, <3>3 DEF SumStep
      <4> QED BY <3>3, <4>1
    <3>4. CASE s # {}
      <4>1. PICK x \in s : q[s] = h[x] + q[s \ {x}]
        BY <3>2, <3>4 DEF SumStep
      <4>2. ASSUME NEW y \in s PROVE s \ {y} \in AtMost(S, k)
        <5>1. s \ {y} \in SUBSET S /\ Cardinality(s \ {y}) = Cardinality(s) - 1
          BY <3>1, Smaller
        <5>2. Cardinality(s \ {y}) <= k
          BY <1>4, <3>1, <5>1
        <5> QED BY <5>1, <5>2 DEF AtMost
      <4>3. \A y \in s : Joins(s \ {y})
        BY <2>0, <4>2
      <4>4. ASSUME NEW y \in s PROVE q[s] = h[y] + q[s \ {y}]
        <5>1. CASE y = x
          BY <4>1, <5>1
        <5>2. CASE y # x
          <6>1. y \in s \ {x} /\ x \in s \ {y} /\ (s \ {x}) \ {y} = (s \ {y}) \ {x}
            BY <5>2
          <6> DEFINE r == (s \ {x}) \ {y}
          <6>2. q[s \ {x}] = h[y] + q[r] /\ q[s \ {y}] = h[x] + q[r]
            BY <4>3, <6>1
          <6>3. x \in S /\ y \in S /\ r \in SUBSET S /\ q[r] \in Int
            <7>1. r \in AtMost(S, k)
              <8>1. s \ {x} \in SUBSET S /\ s \ {x} \in AtMost(S, k)
                BY <3>1, <4>2
              <8>2. r \in SUBSET S /\ Cardinality(r) = Cardinality(s \ {x}) - 1 /\ Cardinality(s \ {x}) \in Nat
                BY <6>1, <8>1, Smaller
              <8>3. Cardinality(s \ {x}) <= k
                BY <8>1 DEF AtMost
              <8>4. Cardinality(r) <= k
                BY <1>4, <8>2, <8>3
              <8> QED BY <8>2, <8>4 DEF AtMost
            <7> QED BY <2>0, <3>1, <7>1
          <6>4. h[x] \in Int /\ h[y] \in Int
            BY <6>3
          <6> HIDE DEF r
          <6> QED BY <4>1, <6>2, <6>3, <6>4
        <5> QED BY <5>1, <5>2
      <4>5. q[s] \in Int
        <5>1. h[x] \in Int /\ q[s \ {x}] \in Int
          BY <3>1, <4>3
        <5> QED BY <4>1, <5>1
      <4> QED BY <4>4, <4>5
    <3> QED BY <3>3, <3>4
  <2> HIDE DEF Joins
  <2> QED BY <1>4, <2>1
<1>7. 0..n \subseteq K
  <2> HIDE DEF K, n
  <2> QED BY <1>4, <1>5, <1>6, Induction
<1>8. Joins(S)
  <2>1. n \in K /\ S \in AtMost(S, n)
    BY <1>4, <1>7 DEF AtMost
  <2> HIDE DEF Joins
  <2> QED BY <2>1
<1>9. ASSUME NEW x \in S PROVE Food!SumOver(h, S \ {x}) = q[S \ {x}]
  BY <1>3
<1> QED BY <1>1, <1>2, <1>8, <1>9

\* Elements whose value is 0 do not count.
LEMMA SumZero ==
  ASSUME NEW S, IsFiniteSet(S), NEW T, T \subseteq S, NEW h, \A x \in S : h[x] \in Int, \A x \in S \ T : h[x] = 0
  PROVE  Food!SumOver(h, S) = Food!SumOver(h, T)
<1> DEFINE n == Cardinality(S)
           Same(s) == T \subseteq s => Food!SumOver(h, s) = Food!SumOver(h, T)
           K == {k \in 0..n : \A s \in AtMost(S, k) : Same(s)}
<1>0. n \in Nat
  BY FS_CardinalityType
<1>1. 0 \in K
  <2>1. ASSUME NEW s \in AtMost(S, 0) PROVE Same(s)
    <3>1. s = {}
      BY Smaller DEF AtMost
    <3> QED BY <3>1
  <2> HIDE DEF Same
  <2> QED BY <1>0, <2>1
<1>2. ASSUME NEW k \in 0..(n - 1), k \in K PROVE k + 1 \in K
  <2>0. \A s \in AtMost(S, k) : Same(s)
    BY <1>2
  <2>1. ASSUME NEW s \in AtMost(S, k + 1), T \subseteq s PROVE Food!SumOver(h, s) = Food!SumOver(h, T)
    <3>1. s \in SUBSET S /\ Cardinality(s) <= k + 1 /\ Cardinality(s) \in Nat /\ IsFiniteSet(s)
      BY Smaller DEF AtMost
    <3>2. SUFFICES ASSUME s # T PROVE Food!SumOver(h, s) = Food!SumOver(h, T)
      OBVIOUS
    <3>3. PICK x \in s : x \notin T
      BY <2>1, <3>2
    <3> DEFINE t == s \ {x}
    <3>4. t \in AtMost(S, k)
      <4>1. t \in SUBSET S /\ Cardinality(t) = Cardinality(s) - 1
        BY <3>1, Smaller
      <4>2. Cardinality(t) <= k
        BY <1>0, <3>1, <4>1
      <4> QED BY <4>1, <4>2 DEF AtMost
    <3>5. Food!SumOver(h, t) = Food!SumOver(h, T)
      BY <2>0, <2>1, <3>3, <3>4
    <3>6. Food!SumOver(h, s) = h[x] + Food!SumOver(h, t) /\ h[x] = 0
      <4>1. \A y \in s : h[y] \in Int
        BY <3>1
      <4>2. \A y \in s : Food!SumOver(h, s) = h[y] + Food!SumOver(h, s \ {y})
        BY <3>1, <4>1, SumAdds
      <4> QED BY <3>1, <3>3, <4>2
    <3>7. Food!SumOver(h, t) \in Int
      <4>1. t \in SUBSET S /\ IsFiniteSet(t)
        BY <3>1, FS_Subset
      <4>2. \A y \in t : h[y] \in Int
        BY <4>1
      <4> HIDE DEF t
      <4> QED BY <4>1, <4>2, SumAdds
    <3> HIDE DEF t
    <3> QED BY <3>5, <3>6, <3>7
  <2> QED BY <1>0, <2>1
<1>3. 0..n \subseteq K
  <2> HIDE DEF K, n
  <2> QED BY <1>0, <1>1, <1>2, Induction
<1>4. n \in K /\ S \in AtMost(S, n)
  BY <1>0, <1>3 DEF AtMost
<1> QED BY <1>4

-----------------------------------------------------------------------------
(***************************************************************************)
(* Baby food: the cubes of a food that plans and batches name.             *)
(***************************************************************************)

FoodMeal == [base : Foods, toppings : Seq(Foods), src : Seq(Foods) \ {<<>>}, skipped : BOOLEAN]
FoodBatch == [food : Foods, qty : Int]
FoodPlan(p) == DOMAIN p \subseteq Nat /\ IsFiniteSet(DOMAIN p) /\ \A d \in DOMAIN p : p[d] \in Seq(FoodMeal)

\* The cubes of f the plan p takes after day c and before day b, and those that
\* batches after the first k added.
DaysBetween(p, c, b) == {d \in DOMAIN p : d > c /\ d < b}
CubesBetween(p, f, c, b) ==
  Food!SumOver([d \in DaysBetween(p, c, b) |-> Food!UsesOn(p, f, d)], DaysBetween(p, c, b))
BatchesSince(bs, f, k) == {b \in DOMAIN bs : bs[b].food = f /\ b > k}
CubesMade(bs, f, k) == Food!SumOver([b \in BatchesSince(bs, f, k) |-> bs[b].qty], BatchesSince(bs, f, k))

LEMMA FoodCount == \A S : Food!Cardinality(S) = Cardinality(S)
BY DEF Food!Cardinality, Cardinality

LEMMA FiniteDomain == ASSUME NEW A, NEW s \in Seq(A) PROVE IsFiniteSet(DOMAIN s)
<1>1. DOMAIN s = 1..Len(s) /\ Len(s) \in Nat
  OBVIOUS
<1> QED BY <1>1, FS_Interval

LEMMA UsesTyped ==
  ASSUME NEW p, FoodPlan(p), NEW f, NEW d
  PROVE  Food!UsesOn(p, f, d) \in Int
<1> SUFFICES ASSUME d \in DOMAIN p PROVE Food!UsesOn(p, f, d) \in Int
  BY DEF Food!UsesOn
<1> DEFINE h == [i \in DOMAIN p[d] |-> IF p[d][i].skipped THEN 0 ELSE Food!Portions(f, Food!ItemsOf(p[d][i]))]
<1>1. p[d] \in Seq(FoodMeal)
  BY DEF FoodPlan
<1>2. IsFiniteSet(DOMAIN p[d])
  BY <1>1, FiniteDomain
<1>3. ASSUME NEW i \in DOMAIN p[d] PROVE h[i] \in Int
  <2> DEFINE s == Food!ItemsOf(p[d][i])
  <2>1. p[d][i] \in FoodMeal
    BY <1>1
  <2>2. s \in Seq(Foods)
    BY <2>1 DEF Food!ItemsOf, FoodMeal
  <2>3. IsFiniteSet({j \in DOMAIN s : s[j] = f})
    <3>1. IsFiniteSet(DOMAIN s)
      <4> HIDE DEF s
      <4> QED BY <2>2, FiniteDomain
    <3> QED BY <3>1, FS_Subset
  <2>4. Food!Portions(f, s) \in Nat
    BY <2>3, FoodCount, FS_CardinalityType DEF Food!Portions
  <2> QED BY <2>4
<1>4. Food!UsesOn(p, f, d) = Food!SumOver(h, DOMAIN p[d])
  BY DEF Food!UsesOn
<1>5. Food!SumOver(h, DOMAIN p[d]) \in Int
  <2> HIDE DEF h
  <2> QED BY <1>2, <1>3, SumAdds
<1> QED BY <1>4, <1>5

LEMMA BetweenTyped ==
  ASSUME NEW p, FoodPlan(p), NEW f, NEW c, NEW b
  PROVE  /\ IsFiniteSet(DaysBetween(p, c, b))
         /\ CubesBetween(p, f, c, b) \in Int
<1> DEFINE D == DaysBetween(p, c, b)
           h == [d \in D |-> Food!UsesOn(p, f, d)]
<1>1. IsFiniteSet(D)
  <2>1. D \in SUBSET DOMAIN p
    BY DEF DaysBetween
  <2> QED BY <2>1, FS_Subset DEF FoodPlan
<1>2. \A d \in D : h[d] \in Int
  BY UsesTyped
<1>3. Food!SumOver(h, D) \in Int
  <2> HIDE DEF h, D
  <2> QED BY <1>1, <1>2, SumAdds
<1> QED BY <1>1, <1>3 DEF CubesBetween

\* A plan with the same uses on those days takes as many cubes, if days are
\* only added.
LEMMA BetweenSame ==
  ASSUME NEW p, FoodPlan(p), NEW q, FoodPlan(q), DOMAIN p \subseteq DOMAIN q, NEW f, NEW c, NEW b,
         \A d \in DaysBetween(q, c, b) : Food!UsesOn(p, f, d) = Food!UsesOn(q, f, d)
  PROVE  CubesBetween(p, f, c, b) = CubesBetween(q, f, c, b)
<1> DEFINE P == DaysBetween(p, c, b)
           Q == DaysBetween(q, c, b)
           g == [d \in P |-> Food!UsesOn(p, f, d)]
           h == [d \in Q |-> Food!UsesOn(q, f, d)]
<1>1. P \subseteq Q /\ P = Q \cap DOMAIN p
  BY DEF DaysBetween
<1>2. IsFiniteSet(P) /\ IsFiniteSet(Q)
  BY BetweenTyped
<1>3. \A d \in P : g[d] = h[d]
  BY <1>1
<1>4. \A d \in Q : h[d] \in Int
  BY UsesTyped
<1>5. \A d \in Q \ P : h[d] = 0
  BY <1>1 DEF Food!UsesOn
<1>6. Food!SumOver(g, P) = Food!SumOver(h, P)
  <2> HIDE DEF P, Q, g, h
  <2> QED BY <1>2, <1>3, SumSame
<1>7. Food!SumOver(h, Q) = Food!SumOver(h, P)
  <2> HIDE DEF P, Q, g, h
  <2> QED BY <1>1, <1>2, <1>4, <1>5, SumZero
<1> QED BY <1>6, <1>7 DEF CubesBetween

\* A day more.
LEMMA BetweenNext ==
  ASSUME NEW p, FoodPlan(p), NEW f, NEW c \in Nat, NEW b \in Nat
  PROVE  /\ c < b => CubesBetween(p, f, c, b + 1) = CubesBetween(p, f, c, b) + Food!UsesOn(p, f, b)
         /\ c >= b => CubesBetween(p, f, c, b + 1) = 0 /\ CubesBetween(p, f, c, b) = 0
<1> DEFINE P == DaysBetween(p, c, b)
           Q == DaysBetween(p, c, b + 1)
           g == [d \in P |-> Food!UsesOn(p, f, d)]
           h == [d \in Q |-> Food!UsesOn(p, f, d)]
<1>0. DOMAIN p \subseteq Nat
  BY DEF FoodPlan
<1>1. IsFiniteSet(P) /\ IsFiniteSet(Q)
  BY BetweenTyped
<1>2. \A d \in Q : h[d] \in Int
  BY UsesTyped
<1>3. CASE c >= b
  <2>1. P = {} /\ Q = {}
    BY <1>0, <1>3 DEF DaysBetween
  <2>2. Food!SumOver(g, {}) = 0 /\ Food!SumOver(h, {}) = 0
    <3>1. IsFiniteSet({}) /\ (\A d \in {} : g[d] \in Int) /\ \A d \in {} : h[d] \in Int
      BY FS_EmptySet
    <3> HIDE DEF g, h
    <3> QED BY <3>1, SumAdds
  <2>3. CubesBetween(p, f, c, b) = Food!SumOver(g, P) /\ CubesBetween(p, f, c, b + 1) = Food!SumOver(h, Q)
    BY DEF CubesBetween
  <2>4. CubesBetween(p, f, c, b + 1) = 0 /\ CubesBetween(p, f, c, b) = 0
    <3> HIDE DEF g, h, P, Q
    <3> QED BY <2>1, <2>2, <2>3
  <2> QED BY <1>3, <2>4
<1>4. CASE c < b /\ b \notin DOMAIN p
  <2>1. P = Q
    BY <1>0, <1>4 DEF DaysBetween
  <2>2. Food!UsesOn(p, f, b) = 0
    BY <1>4 DEF Food!UsesOn
  <2>3. CubesBetween(p, f, c, b) \in Int /\ CubesBetween(p, f, c, b + 1) = CubesBetween(p, f, c, b)
    BY <2>1, BetweenTyped DEF CubesBetween
  <2> QED BY <1>4, <2>2, <2>3
<1>5. CASE c < b /\ b \in DOMAIN p
  <2>1. b \in Q /\ P = Q \ {b}
    BY <1>0, <1>5 DEF DaysBetween
  <2>2. h[b] = Food!UsesOn(p, f, b) /\ \A d \in P : g[d] = h[d]
    BY <2>1
  <2>3. Food!SumOver(g, P) = Food!SumOver(h, P)
    <3> HIDE DEF P, Q, g, h
    <3> QED BY <1>1, <2>2, SumSame
  <2>4. Food!SumOver(h, Q) = h[b] + Food!SumOver(h, P)
    <3> HIDE DEF P, Q, g, h
    <3> QED BY <1>1, <1>2, <2>1, SumAdds
  <2>5. Food!UsesOn(p, f, b) \in Int /\ CubesBetween(p, f, c, b) \in Int
    BY UsesTyped, BetweenTyped
  <2> QED BY <1>5, <2>2, <2>3, <2>4, <2>5 DEF CubesBetween
<1> QED BY <1>3, <1>4, <1>5


LEMMA MadeTyped ==
  ASSUME NEW bs \in Seq(FoodBatch), NEW f, NEW k
  PROVE  /\ IsFiniteSet(BatchesSince(bs, f, k))
         /\ \A b \in BatchesSince(bs, f, k) : bs[b].qty \in Int
         /\ CubesMade(bs, f, k) \in Int
<1> DEFINE D == BatchesSince(bs, f, k)
           h == [b \in D |-> bs[b].qty]
<1>1. IsFiniteSet(D)
  <2>1. IsFiniteSet(DOMAIN bs) /\ D \in SUBSET DOMAIN bs
    BY FiniteDomain DEF BatchesSince
  <2> QED BY <2>1, FS_Subset
<1>2. ASSUME NEW b \in D PROVE bs[b].qty \in Int
  <2>1. bs[b] \in FoodBatch
    BY DEF BatchesSince
  <2> QED BY <2>1 DEF FoodBatch
<1>3. Food!SumOver(h, D) \in Int
  <2>1. \A b \in D : h[b] \in Int
    BY <1>2
  <2> HIDE DEF h, D
  <2> QED BY <1>1, <2>1, SumAdds
<1> QED BY <1>1, <1>2, <1>3 DEF CubesMade

\* More batches, at most one of which is of f: the i-th of the new ones.
LEMMA MadeMore ==
  ASSUME NEW bs \in Seq(FoodBatch), NEW cs \in Seq(FoodBatch), NEW f, NEW k \in Nat, k <= Len(bs)
  PROVE  /\ bs \o cs \in Seq(FoodBatch)
         /\ (\A j \in DOMAIN cs : cs[j].food # f) => CubesMade(bs \o cs, f, k) = CubesMade(bs, f, k)
         /\ \A i \in DOMAIN cs :
              (\A j \in DOMAIN cs : cs[j].food = f <=> j = i)
                => CubesMade(bs \o cs, f, k) = CubesMade(bs, f, k) + cs[i].qty
<1> DEFINE ds == bs \o cs
           n == Len(bs)
           R == BatchesSince(bs, f, k)
           Q == BatchesSince(ds, f, k)
           h == [b \in Q |-> ds[b].qty]
<1>1. /\ ds \in Seq(FoodBatch) /\ Len(ds) = n + Len(cs) /\ n \in Nat /\ Len(cs) \in Nat
      /\ DOMAIN ds = 1..Len(ds) /\ DOMAIN bs = 1..n /\ DOMAIN cs = 1..Len(cs)
      /\ \A j \in 1..Len(ds) : ds[j] = IF j <= n THEN bs[j] ELSE cs[j - n]
  OBVIOUS
<1> HIDE DEF ds, n
<1>2. R \subseteq DOMAIN ds /\ \A b \in R : ds[b] = bs[b]
  BY <1>1 DEF BatchesSince
<1>3. /\ IsFiniteSet(R) /\ IsFiniteSet(Q) /\ CubesMade(bs, f, k) \in Int
      /\ \A b \in Q : ds[b].qty \in Int
  BY <1>1, MadeTyped
<1>4. Food!SumOver(h, R) = CubesMade(bs, f, k)
  <2> DEFINE g == [b \in R |-> bs[b].qty]
  <2>1. \A b \in R : h[b] = g[b]
    BY <1>2 DEF BatchesSince
  <2>2. Food!SumOver(h, R) = Food!SumOver(g, R)
    <3> HIDE DEF g, h, R
    <3> QED BY <1>3, <2>1, SumSame
  <2> QED BY <2>2 DEF CubesMade
<1>5. CubesMade(ds, f, k) = Food!SumOver(h, Q)
  BY DEF CubesMade
<1>6. ASSUME \A j \in DOMAIN cs : cs[j].food # f PROVE CubesMade(ds, f, k) = CubesMade(bs, f, k)
  <2>1. Q = R
    <3>1. ASSUME NEW b \in Q PROVE b \in R
      <4>1. b \in 1..Len(ds) /\ ds[b].food = f /\ b > k
        BY <1>1 DEF BatchesSince
      <4>2. b <= n
        <5>1. SUFFICES ASSUME b > n PROVE FALSE
          BY <1>1, <4>1
        <5>2. b - n \in DOMAIN cs /\ ds[b] = cs[b - n]
          BY <1>1, <4>1, <5>1
        <5> QED BY <1>6, <4>1, <5>2
      <4>3. b \in DOMAIN bs /\ ds[b] = bs[b]
        BY <1>1, <4>1, <4>2
      <4> QED BY <4>1, <4>3 DEF BatchesSince
    <3>2. R \subseteq Q
      BY <1>2 DEF BatchesSince
    <3> QED BY <3>1, <3>2
  <2> QED BY <1>4, <1>5, <2>1
<1>7. ASSUME NEW i \in DOMAIN cs, \A j \in DOMAIN cs : cs[j].food = f <=> j = i
      PROVE  CubesMade(ds, f, k) = CubesMade(bs, f, k) + cs[i].qty
  <2>0. i \in 1..Len(cs) /\ n + i \in 1..Len(ds) /\ n + i > n /\ (n + i) - n = i
    BY <1>1
  <2>1. ds[n + i] = cs[i] /\ n + i \in DOMAIN ds /\ n + i \notin DOMAIN bs /\ n + i > k /\ cs[i].food = f
    <3>1. ~(n + i <= n)
      BY <1>1, <2>0
    <3>2. ds[n + i] = cs[(n + i) - n]
      BY <1>1, <2>0, <3>1
    <3>3. n + i > k /\ n + i \notin 1..n
      BY <1>1, <2>0 DEF n
    <3> QED BY <1>1, <1>7, <2>0, <3>2, <3>3
  <2>2. n + i \in Q
    BY <2>1 DEF BatchesSince
  <2>3. Q \ {n + i} = R
    <3>1. ASSUME NEW b \in Q, b # n + i PROVE b \in R
      <4>1. b \in 1..Len(ds) /\ ds[b].food = f /\ b > k
        BY <1>1 DEF BatchesSince
      <4>2. b <= n
        <5>1. SUFFICES ASSUME b > n PROVE FALSE
          BY <1>1, <4>1
        <5>2. b - n \in DOMAIN cs /\ ds[b] = cs[b - n] /\ b - n # i
          BY <1>1, <2>0, <3>1, <4>1, <5>1
        <5> QED BY <1>7, <4>1, <5>2
      <4>3. b \in DOMAIN bs /\ ds[b] = bs[b]
        BY <1>1, <4>1, <4>2
      <4> QED BY <4>1, <4>3 DEF BatchesSince
    <3>2. R \subseteq Q
      BY <1>2 DEF BatchesSince
    <3>3. n + i \notin R
      BY <2>1 DEF BatchesSince
    <3> QED BY <3>1, <3>2, <3>3
  <2>4. Food!SumOver(h, Q) = h[n + i] + Food!SumOver(h, Q \ {n + i}) /\ h[n + i] = cs[i].qty /\ cs[i].qty \in Int
    <3>1. \A b \in Q : h[b] \in Int
      BY <1>3
    <3>2. h[n + i] = cs[i].qty /\ cs[i].qty \in Int
      BY <1>3, <2>1, <2>2
    <3>3. Food!SumOver(h, Q) = h[n + i] + Food!SumOver(h, Q \ {n + i})
      <4> HIDE DEF h, Q
      <4> QED BY <1>3, <2>2, <3>1, SumAdds
    <3> QED BY <3>2, <3>3
  <2>5. Food!SumOver(h, Q) = cs[i].qty + CubesMade(bs, f, k)
    BY ONLY <1>4, <2>3, <2>4
  <2> QED BY ONLY <1>3, <1>5, <2>4, <2>5
<1> QED BY <1>1, <1>6, <1>7 DEF ds

\* No batch since the last one.
LEMMA MadeNone ==
  ASSUME NEW bs \in Seq(FoodBatch), NEW f
  PROVE  CubesMade(bs, f, Len(bs)) = 0
<1> DEFINE R == BatchesSince(bs, f, Len(bs))
           h == [b \in R |-> bs[b].qty]
<1>1. R = {}
  BY DEF BatchesSince
<1>2. Food!SumOver(h, {}) = 0
  <2>1. IsFiniteSet({}) /\ \A b \in {} : h[b] \in Int
    BY FS_EmptySet
  <2> HIDE DEF h
  <2> QED BY <2>1, SumAdds
<1>3. CubesMade(bs, f, Len(bs)) = Food!SumOver(h, R)
  BY DEF CubesMade
<1> HIDE DEF h, R
<1> QED BY <1>1, <1>2, <1>3

\* A list of a finite set has each of its elements once.
LEMMA ListedOnce ==
  ASSUME NEW S, IsFiniteSet(S)
  PROVE  LET s == Food!SetToSeq(S)
         IN  /\ s \in Seq(S)
             /\ \A x \in S : \E i \in DOMAIN s : s[i] = x /\ \A j \in DOMAIN s : s[j] = x <=> j = i
<1> DEFINE n == Cardinality(S)
<1>1. n \in Nat /\ ExistsBijection(1..n, S)
  BY FS_CardinalityType
<1>2. \E f \in [1..n -> S] : Food!IsInjective(f)
  BY <1>1 DEF ExistsBijection, Bijection, Injection, IsInjective, Food!IsInjective
<1> DEFINE s == Food!SetToSeq(S)
<1>3. s = CHOOSE f \in [1..n -> S] : Food!IsInjective(f)
  BY FoodCount DEF Food!SetToSeq
<1>4. s \in [1..n -> S] /\ Food!IsInjective(s)
  <2> HIDE DEF s, n
  <2> QED BY <1>2, <1>3
<1>5. s \in Injection(1..n, S)
  <2> HIDE DEF s, n
  <2> QED BY <1>4 DEF Injection, IsInjective, Food!IsInjective
<1>6. s \in Surjection(1..n, S)
  <2>1. Cardinality(1..n) = n
    <3> HIDE DEF n
    <3> QED BY <1>1, FS_Interval
  <2> HIDE DEF s
  <2> QED BY <1>1, <1>5, <2>1, FS_Injection
<1> HIDE DEF s, n
<1>7. s \in Seq(S) /\ DOMAIN s = 1..n
  BY <1>1, <1>4
<1>8. ASSUME NEW x \in S PROVE \E i \in DOMAIN s : s[i] = x /\ \A j \in DOMAIN s : s[j] = x <=> j = i
  <2>1. PICK i \in 1..n : s[i] = x
    BY <1>6 DEF Surjection
  <2> QED BY <1>4, <1>7, <2>1 DEF Food!IsInjective
<1> QED BY <1>7, <1>8 DEF s


-----------------------------------------------------------------------------
\* A count i of the food f explains the cubes there are: the plan p, the batches
\* bs, the day d and whether it is evening.
FoodCounts == [qty : Int, dday : Nat, batch : Nat, late : BOOLEAN]
Counted(i, bs, d) == i \in FoodCounts /\ i.batch <= Len(bs) /\ i.dday <= d
Explains(i, f, p, bs, cubes, d, e) ==
  i.qty - CubesBetween(p, f, i.dday, d) + CubesMade(bs, f, i.batch)
    = cubes + (IF e /\ i.dday < d THEN Food!UsesOn(p, f, d) ELSE 0)

LEMMA ExplainsCount ==
  ASSUME NEW bs \in Seq(FoodBatch), NEW p, FoodPlan(p), NEW f, NEW d \in Nat, NEW q \in Int, NEW e, NEW l \in BOOLEAN
  PROVE  LET i == [qty |-> q, dday |-> d, batch |-> Len(bs), late |-> l]
         IN  Counted(i, bs, d) /\ Explains(i, f, p, bs, q, d, e)
<1> DEFINE i == [qty |-> q, dday |-> d, batch |-> Len(bs), late |-> l]
<1>1. Len(bs) \in Nat /\ CubesMade(bs, f, Len(bs)) = 0 /\ CubesBetween(p, f, d, d) = 0
  BY MadeNone, BetweenNext
<1>2. i \in FoodCounts /\ i.qty = q /\ i.dday = d /\ i.batch = Len(bs)
  BY <1>1 DEF FoodCounts
<1> HIDE DEF i
<1>3. Counted(i, bs, d) /\ Explains(i, f, p, bs, q, d, e)
  BY <1>1, <1>2 DEF Counted, Explains
<1> QED BY <1>3 DEF i

LEMMA ExplainsEvening ==
  ASSUME NEW bs \in Seq(FoodBatch), NEW p, FoodPlan(p), NEW f, NEW d \in Nat, NEW cubes \in Int,
         NEW i, Counted(i, bs, d), i.dday # d, Explains(i, f, p, bs, cubes, d, FALSE)
  PROVE  Explains(i, f, p, bs, cubes - Food!UsesOn(p, f, d), d, TRUE)
<1>1. i.qty \in Int /\ i.dday \in Nat /\ i.dday < d
  BY DEF Counted, FoodCounts
<1>2. CubesBetween(p, f, i.dday, d) \in Int /\ CubesMade(bs, f, i.batch) \in Int /\ Food!UsesOn(p, f, d) \in Int
  BY BetweenTyped, MadeTyped, UsesTyped
<1> QED BY <1>1, <1>2 DEF Explains

LEMMA ExplainsMorning ==
  ASSUME NEW bs \in Seq(FoodBatch), NEW p, FoodPlan(p), NEW f, NEW d \in Nat, NEW cubes \in Int,
         NEW i, Counted(i, bs, d), Explains(i, f, p, bs, cubes, d, TRUE)
  PROVE  Explains(i, f, p, bs, cubes, d + 1, FALSE)
<1>1. i.qty \in Int /\ i.dday \in Nat /\ i.dday <= d
  BY DEF Counted, FoodCounts
<1>2. CubesBetween(p, f, i.dday, d) \in Int /\ CubesMade(bs, f, i.batch) \in Int /\ Food!UsesOn(p, f, d) \in Int
  BY BetweenTyped, MadeTyped, UsesTyped
<1>3. /\ i.dday < d => CubesBetween(p, f, i.dday, d + 1) = CubesBetween(p, f, i.dday, d) + Food!UsesOn(p, f, d)
      /\ i.dday >= d => CubesBetween(p, f, i.dday, d + 1) = 0 /\ CubesBetween(p, f, i.dday, d) = 0
  BY <1>1, BetweenNext
<1>4. CASE i.dday < d
  BY <1>1, <1>2, <1>3, <1>4 DEF Explains
<1>5. CASE i.dday = d
  <2>1. ~(i.dday < d) /\ CubesBetween(p, f, i.dday, d + 1) = CubesBetween(p, f, i.dday, d)
    BY <1>1, <1>3, <1>5
  <2>2. /\ (IF TRUE /\ i.dday < d THEN Food!UsesOn(p, f, d) ELSE 0) = 0
        /\ (IF FALSE /\ i.dday < d + 1 THEN Food!UsesOn(p, f, d + 1) ELSE 0) = 0
    BY <2>1
  <2>3. i.qty - CubesBetween(p, f, i.dday, d) + CubesMade(bs, f, i.batch) = cubes + 0
    BY <2>2, Zenon DEF Explains
  <2>4. i.qty - CubesBetween(p, f, i.dday, d + 1) + CubesMade(bs, f, i.batch) = cubes + 0
    BY <2>1, <2>3, Zenon
  <2> QED BY <2>2, <2>4, Zenon DEF Explains
<1>6. i.dday < d \/ i.dday = d
  BY <1>1
<1> QED BY <1>4, <1>5, <1>6, Zenon

LEMMA ExplainsPlan ==
  ASSUME NEW bs \in Seq(FoodBatch), NEW p, FoodPlan(p), NEW q, FoodPlan(q), DOMAIN p \subseteq DOMAIN q,
         NEW f, NEW d \in Nat, NEW e \in BOOLEAN, NEW cubes, NEW i, Counted(i, bs, d),
         \A x \in DOMAIN q : (x < d \/ (x = d /\ e)) => Food!UsesOn(q, f, x) = Food!UsesOn(p, f, x),
         Explains(i, f, p, bs, cubes, d, e)
  PROVE  Explains(i, f, q, bs, cubes, d, e)
<1>1. \A x \in DaysBetween(q, i.dday, d) : Food!UsesOn(p, f, x) = Food!UsesOn(q, f, x)
  BY DEF DaysBetween
<1>2. CubesBetween(q, f, i.dday, d) = CubesBetween(p, f, i.dday, d)
  BY <1>1, BetweenSame
<1>3. e => Food!UsesOn(q, f, d) = Food!UsesOn(p, f, d)
  <2>1. CASE d \in DOMAIN q
    BY <2>1
  <2>2. CASE d \notin DOMAIN q
    BY <2>2 DEF Food!UsesOn
  <2> QED BY <2>1, <2>2
<1> QED BY <1>2, <1>3 DEF Explains

LEMMA ExplainsBatches ==
  ASSUME NEW bs \in Seq(FoodBatch), NEW cs \in Seq(FoodBatch), NEW p, FoodPlan(p), NEW f, NEW d \in Nat, NEW e \in BOOLEAN,
         NEW cubes \in Int, NEW i, Counted(i, bs, d), Explains(i, f, p, bs, cubes, d, e)
  PROVE  /\ bs \o cs \in Seq(FoodBatch) /\ Counted(i, bs \o cs, d)
         /\ (\A j \in DOMAIN cs : cs[j].food # f) => Explains(i, f, p, bs \o cs, cubes, d, e)
         /\ \A k \in DOMAIN cs :
              (\A j \in DOMAIN cs : cs[j].food = f <=> j = k) => Explains(i, f, p, bs \o cs, cubes + cs[k].qty, d, e)
<1>1. i.qty \in Int /\ i.dday \in Nat /\ i.batch \in Nat /\ i.batch <= Len(bs) /\ i \in FoodCounts /\ i.dday <= d
  BY DEF Counted, FoodCounts
<1>2. CubesBetween(p, f, i.dday, d) \in Int /\ CubesMade(bs, f, i.batch) \in Int /\ Food!UsesOn(p, f, d) \in Int
  BY BetweenTyped, MadeTyped, UsesTyped
<1>3. /\ bs \o cs \in Seq(FoodBatch)
      /\ (\A j \in DOMAIN cs : cs[j].food # f) => CubesMade(bs \o cs, f, i.batch) = CubesMade(bs, f, i.batch)
      /\ \A k \in DOMAIN cs :
              (\A j \in DOMAIN cs : cs[j].food = f <=> j = k)
                => CubesMade(bs \o cs, f, i.batch) = CubesMade(bs, f, i.batch) + cs[k].qty
  BY <1>1, MadeMore
<1>4. Counted(i, bs \o cs, d)
  <2>1. Len(bs \o cs) >= Len(bs) /\ Len(bs \o cs) \in Nat /\ Len(bs) \in Nat
    OBVIOUS
  <2> QED BY <1>1, <2>1 DEF Counted
<1>5. ASSUME \A j \in DOMAIN cs : cs[j].food # f PROVE Explains(i, f, p, bs \o cs, cubes, d, e)
  BY <1>3, <1>5 DEF Explains
<1>6. ASSUME NEW k \in DOMAIN cs, \A j \in DOMAIN cs : cs[j].food = f <=> j = k
      PROVE  Explains(i, f, p, bs \o cs, cubes + cs[k].qty, d, e)
  <2>1. CubesMade(bs \o cs, f, i.batch) = CubesMade(bs, f, i.batch) + cs[k].qty
    BY <1>3, <1>6
  <2>2. cs[k].qty \in Int
    <3>1. cs[k] \in FoodBatch
      OBVIOUS
    <3> QED BY <3>1 DEF FoodBatch
  <2> DEFINE m == CubesMade(bs \o cs, f, i.batch)
             t == IF e /\ i.dday < d THEN Food!UsesOn(p, f, d) ELSE 0
  <2>3. t \in Int /\ i.qty - CubesBetween(p, f, i.dday, d) + CubesMade(bs, f, i.batch) = cubes + t
    BY <1>2 DEF Explains
  <2>4. i.qty - CubesBetween(p, f, i.dday, d) + m = cubes + cs[k].qty + t
    <3>1. m = CubesMade(bs, f, i.batch) + cs[k].qty
      BY <2>1
    <3> HIDE DEF t, m
    <3>2. PICK q \in Int, b \in Int, n \in Int, x \in Int, y \in Int :
            /\ q = i.qty /\ b = CubesBetween(p, f, i.dday, d) /\ n = CubesMade(bs, f, i.batch)
            /\ x = cs[k].qty /\ y = t
      BY <1>1, <1>2, <2>2, <2>3, Zenon
    <3>3. q - b + n = cubes + y /\ m = n + x
      BY <2>3, <3>1, <3>2, Zenon
    <3>4. q - b + m = cubes + x + y
      BY ONLY <3>3, cubes \in Int, q \in Int, b \in Int, n \in Int, x \in Int, y \in Int
    <3> QED BY ONLY <3>2, <3>4, Zenon
  <2> QED BY <2>4 DEF Explains
<1> QED BY <1>3, <1>4, <1>5, <1>6

-----------------------------------------------------------------------------
FoodType ==
  /\ dday \in Nat /\ evening \in BOOLEAN /\ FoodPlan(plan)
  /\ batches \in Seq(FoodBatch) /\ freezer \in [Foods -> Int]
  /\ DOMAIN ingredients \subseteq Foods
  /\ DOMAIN edit = Editors
  /\ \A e \in Editors :
       edit[e].pc = "meal" => edit[e].day \in DOMAIN plan /\ edit[e].items \in Seq(Foods) \ {<<>>}

\* A count that came after the meals of its day explains the freezer, unless meals
\* were rewritten since.
StockInv ==
  \A f \in DOMAIN ingredients :
    LET i == ingredients[f]
    IN  /\ Counted(i, batches, dday)
        /\ i.late => /\ i.dday = dday => evening
                     /\ f \notin amended => Explains(i, f, plan, batches, freezer[f], dday, evening)

\* Neither the rows nor what a request has read of them contradicts itself.
TagRow(t) == t \in [reaction : BOOLEAN, liked : BOOLEAN, disliked : BOOLEAN] /\ ~(t.liked /\ t.disliked)
TagsInv ==
  /\ \A k \in DOMAIN tags : TagRow(tags[k])
  /\ \A e \in Editors : edit[e].pc = "tag" => TagRow(edit[e].tag)

FoodInv == FoodType /\ StockInv /\ TagsInv

\* What no action but those on tags touches.
LEMMA TagsFrame ==
  ASSUME FoodInv, UNCHANGED tags, \A e \in Editors : edit'[e].pc = "tag" => edit'[e] = edit[e]
  PROVE  TagsInv'
BY DEF FoodInv, TagsInv

LEMMA EditFrame ==
  ASSUME FoodInv, DOMAIN plan \subseteq DOMAIN plan', DOMAIN edit' = Editors,
         \A e \in Editors : edit'[e].pc = "meal" => edit'[e] = edit[e]
  PROVE  /\ DOMAIN edit' = Editors
         /\ \A e \in Editors :
              edit'[e].pc = "meal" => edit'[e].day \in DOMAIN plan' /\ edit'[e].items \in Seq(Foods) \ {<<>>}
BY DEF FoodInv, FoodType

LEMMA FoodInvInit == Food!FoodInit => FoodInv
<1> SUFFICES ASSUME Food!FoodInit PROVE FoodInv
  OBVIOUS
<1>1. DOMAIN <<>> = {} /\ <<>> \in Seq(FoodBatch)
  OBVIOUS
<1>2. FoodType
  <2>1. FoodPlan(plan)
    BY <1>1, FS_EmptySet DEF Food!FoodInit, FoodPlan
  <2>2. dday \in Nat /\ batches \in Seq(FoodBatch) /\ freezer \in [Foods -> Int]
    BY <1>1, SMT DEF Food!FoodInit
  <2>5. evening \in BOOLEAN
    BY Zenon DEF Food!FoodInit
  <2>3. DOMAIN edit = Editors /\ \A e \in Editors : edit[e].pc # "meal"
    BY DEF Food!FoodInit, Food!Free
  <2>4. DOMAIN ingredients \subseteq Foods
    BY <1>1 DEF Food!FoodInit
  <2> QED BY <2>1, <2>2, <2>3, <2>4, <2>5 DEF FoodType
<1>3. StockInv
  BY <1>1 DEF Food!FoodInit, StockInv
<1>4. TagsInv
  BY <1>1 DEF Food!FoodInit, TagsInv, Food!Free
<1> QED BY <1>2, <1>3, <1>4 DEF FoodInv

LEMMA EatInv == FoodInv /\ Food!Eat => FoodInv'
<1> SUFFICES ASSUME FoodInv, Food!Eat PROVE FoodInv'
  OBVIOUS
<1>1. /\ ~evening /\ evening' = TRUE /\ freezer' = [f \in Foods |-> freezer[f] - Food!UsesOn(plan, f, dday)]
      /\ UNCHANGED <<dday, plan, ingredients, batches, tags, amended, edit>>
  BY DEF Food!Eat
<1>2. FoodType'
  <2>1. freezer' \in [Foods -> Int]
    BY <1>1, UsesTyped DEF FoodInv, FoodType
  <2> QED BY <1>1, <2>1 DEF FoodInv, FoodType
<1>3. StockInv'
  <2> SUFFICES ASSUME NEW f \in DOMAIN ingredients
               PROVE  /\ Counted(ingredients[f], batches, dday)
                      /\ ingredients[f].late /\ f \notin amended =>
                           Explains(ingredients[f], f, plan, batches, freezer'[f], dday, TRUE)
    BY <1>1 DEF StockInv
  <2>1. Counted(ingredients[f], batches, dday) /\ f \in Foods /\ evening = FALSE
    BY <1>1 DEF FoodInv, StockInv, FoodType
  <2>2. ASSUME ingredients[f].late, f \notin amended
        PROVE  Explains(ingredients[f], f, plan, batches, freezer'[f], dday, TRUE)
    <3>1. ingredients[f].dday # dday /\ Explains(ingredients[f], f, plan, batches, freezer[f], dday, FALSE)
      BY <1>1, <2>1, <2>2 DEF FoodInv, StockInv
    <3>2. Explains(ingredients[f], f, plan, batches, freezer[f] - Food!UsesOn(plan, f, dday), dday, TRUE)
      BY <2>1, <3>1, ExplainsEvening DEF FoodInv, FoodType
    <3> QED BY <1>1, <2>1, <3>2
  <2> QED BY <2>1, <2>2
<1>4. TagsInv'
  BY <1>1, TagsFrame
<1> QED BY <1>2, <1>3, <1>4 DEF FoodInv

LEMMA NextFoodDayInv == FoodInv /\ Food!NextFoodDay => FoodInv'
<1> SUFFICES ASSUME FoodInv, Food!NextFoodDay PROVE FoodInv'
  OBVIOUS
<1>1. /\ evening /\ dday' = dday + 1 /\ evening' = FALSE
      /\ UNCHANGED <<plan, ingredients, batches, tags, freezer, amended, edit>>
  BY DEF Food!NextFoodDay
<1>2. FoodType'
  <2>1. dday' \in Nat
    BY <1>1 DEF FoodInv, FoodType
  <2>2. evening' \in BOOLEAN
    BY <1>1, Zenon
  <2>3. UNCHANGED <<plan, ingredients, batches, freezer, edit>>
    BY <1>1
  <2> QED BY <2>1, <2>2, <2>3 DEF FoodInv, FoodType
<1>3. StockInv'
  <2> SUFFICES ASSUME NEW f \in DOMAIN ingredients
               PROVE  /\ Counted(ingredients[f], batches, dday + 1) /\ ingredients[f].dday # dday + 1
                      /\ ingredients[f].late /\ f \notin amended =>
                           Explains(ingredients[f], f, plan, batches, freezer[f], dday + 1, FALSE)
    BY <1>1 DEF StockInv
  <2>1. Counted(ingredients[f], batches, dday) /\ f \in Foods /\ evening = TRUE /\ dday \in Nat
    BY <1>1 DEF FoodInv, StockInv, FoodType
  <2>2. ASSUME ingredients[f].late, f \notin amended
        PROVE  Explains(ingredients[f], f, plan, batches, freezer[f], dday + 1, FALSE)
    <3>1. Explains(ingredients[f], f, plan, batches, freezer[f], dday, TRUE)
      BY <2>1, <2>2 DEF FoodInv, StockInv
    <3> QED BY <2>1, <3>1, ExplainsMorning DEF FoodInv, FoodType
  <2>3. Counted(ingredients[f], batches, dday + 1) /\ ingredients[f].dday # dday + 1
    BY <2>1 DEF Counted, FoodCounts
  <2> QED BY <2>2, <2>3
<1>4. TagsInv'
  BY <1>1, TagsFrame
<1> QED BY <1>2, <1>3, <1>4 DEF FoodInv


\* Foods that are seen for the first time are put on the list uncounted.
LEMMA ListedCounts ==
  ASSUME FoodInv, NEW fs, fs \subseteq Foods, ingredients' = Food!Listed(fs)
  PROVE  /\ DOMAIN ingredients' \subseteq Foods
         /\ \A f \in DOMAIN ingredients' :
              \/ f \in DOMAIN ingredients /\ ingredients'[f] = ingredients[f]
              \/ ~ingredients'[f].late /\ Counted(ingredients'[f], batches, dday)
<1>1. DOMAIN ingredients' = DOMAIN ingredients \cup fs
  BY DEF Food!Listed
<1>2. Len(batches) \in Nat /\ dday \in Nat
  BY DEF FoodInv, FoodType
<1>3. Food!Uncounted \in FoodCounts /\ Food!Uncounted.late = FALSE /\ Food!Uncounted.batch = 0 /\ Food!Uncounted.dday = 0
  BY DEF Food!Uncounted, FoodCounts
<1>4. Counted(Food!Uncounted, batches, dday)
  BY <1>2, <1>3 DEF Counted
<1>5. \A f \in DOMAIN ingredients' : ingredients'[f] = IF f \in DOMAIN ingredients THEN ingredients[f] ELSE Food!Uncounted
  BY DEF Food!Listed
<1> QED BY <1>1, <1>3, <1>4, <1>5 DEF FoodInv, FoodType

\* Meals are rewritten: a food whose meals so far change is amended.
LEMMA MealsInv ==
  ASSUME FoodInv, FoodPlan(plan)', DOMAIN plan \subseteq DOMAIN plan',
         NEW fs, fs \subseteq Foods, ingredients' = Food!Listed(fs),
         UNCHANGED <<dday, evening, batches, freezer>>, amended \subseteq amended',
         \A f \in Foods \ amended' : \A x \in DOMAIN plan' :
           Food!Over(x) => Food!UsesOn(plan', f, x) = Food!UsesOn(plan, f, x)
  PROVE  DOMAIN ingredients' \subseteq Foods /\ StockInv'
<1>1. /\ DOMAIN ingredients' \subseteq Foods
      /\ \A f \in DOMAIN ingredients' :
              \/ f \in DOMAIN ingredients /\ ingredients'[f] = ingredients[f]
              \/ ~ingredients'[f].late /\ Counted(ingredients'[f], batches, dday)
  BY ListedCounts
<1>2. PICK q : q = plan'
  OBVIOUS
<1>3. FoodPlan(q) /\ FoodPlan(plan) /\ DOMAIN plan \subseteq DOMAIN q /\ batches \in Seq(FoodBatch) /\ dday \in Nat /\ evening \in BOOLEAN
  BY <1>2 DEF FoodInv, FoodType
<1>4. ASSUME NEW f \in DOMAIN ingredients'
      PROVE  LET i == ingredients'[f]
             IN  /\ Counted(i, batches, dday)
                 /\ i.late => /\ i.dday = dday => evening
                              /\ f \notin amended' => Explains(i, f, q, batches, freezer[f], dday, evening)
  <2>1. CASE ~ingredients'[f].late /\ Counted(ingredients'[f], batches, dday)
    BY <2>1
  <2>2. CASE f \in DOMAIN ingredients /\ ingredients'[f] = ingredients[f]
    <3> DEFINE i == ingredients[f]
    <3>1. /\ Counted(i, batches, dday)
          /\ i.late => /\ i.dday = dday => evening
                       /\ f \notin amended => Explains(i, f, plan, batches, freezer[f], dday, evening)
      BY <2>2 DEF FoodInv, StockInv
    <3>2. ASSUME i.late, f \notin amended' PROVE Explains(i, f, q, batches, freezer[f], dday, evening)
      <4>1. Explains(i, f, plan, batches, freezer[f], dday, evening)
        BY <3>1, <3>2
      <4>2. f \in Foods
        BY <1>1, <2>2
      <4>3. \A x \in DOMAIN q : (x < dday \/ (x = dday /\ evening)) => Food!UsesOn(q, f, x) = Food!UsesOn(plan, f, x)
        BY <1>2, <3>2, <4>2 DEF Food!Over
      <4> HIDE DEF i
      <4> QED BY <1>3, <3>1, <4>1, <4>3, ExplainsPlan
    <3> QED BY <2>2, <3>1, <3>2
  <2> QED BY <1>1, <2>1, <2>2
<1>5. StockInv'
  BY <1>2, <1>4 DEF StockInv
<1> QED BY <1>1, <1>5

LEMMA FreeIsIdle == Food!Free.pc # "meal" /\ Food!Free.pc # "tag"
BY DEF Food!Free

\* The same stock, whatever else is done.
LEMMA StockFrame ==
  ASSUME FoodInv, UNCHANGED <<dday, evening, plan, ingredients, batches, freezer, amended>>
  PROVE  StockInv'
BY DEF FoodInv, StockInv

LEMMA BFImportInv ==
  ASSUME FoodInv, NEW x \in FoodPlans, NEW r, NEW from, Food!BFImport(x, r, from)
  PROVE  FoodInv'
<1> DEFINE writes == {d \in DOMAIN x : d >= from /\ (r \/ d \notin DOMAIN plan)}
           meal(m) == [base |-> m.base, toppings |-> m.toppings, src |-> Food!ItemsOf(m), skipped |-> FALSE]
           new == [d \in DOMAIN plan \cup writes |->
                     IF d \in writes THEN [i \in DOMAIN x[d] |-> meal(x[d][i])] ELSE plan[d]]
           seen == UNION {Food!ToSet(Food!ItemsOf(x[y[1]][y[2]])) : y \in {z \in writes \X (1..3) : z[2] \in DOMAIN x[z[1]]}}
<1>1. /\ plan' = new /\ ingredients' = Food!Listed(seen)
      /\ amended' = amended \cup
          {f \in Foods : \E d \in writes : Food!Over(d) /\ Food!UsesOn(new, f, d) # Food!UsesOn(plan, f, d)}
      /\ \/ UNCHANGED edit
         \/ edit' = [e \in Editors |-> IF edit[e].pc = "meal" /\ edit[e].day \in writes THEN Food!Free ELSE edit[e]]
      /\ UNCHANGED <<dday, evening, batches, tags, freezer>>
  BY DEF Food!BFImport
<1>2. /\ DOMAIN x \subseteq Nat /\ IsFiniteSet(DOMAIN x) /\ IsFiniteSet(Foods)
      /\ \A d \in DOMAIN x : x[d] \in Seq([base : Foods, toppings : Seq(Foods)])
  BY FoodAssumption
<1>3. ASSUME NEW d \in DOMAIN x, NEW i \in DOMAIN x[d]
      PROVE  /\ Food!ItemsOf(x[d][i]) \in Seq(Foods) \ {<<>>}
             /\ meal(x[d][i]) \in FoodMeal
  <2>0. x[d] \in Seq([base : Foods, toppings : Seq(Foods)])
    BY <1>2
  <2>1. x[d][i] \in [base : Foods, toppings : Seq(Foods)]
    <3> DEFINE A == [base : Foods, toppings : Seq(Foods)]
               s == x[d]
    <3>1. s \in Seq(A) /\ i \in DOMAIN s
      BY <2>0
    <3> HIDE DEF A, s
    <3>2. s[i] \in A
      BY ONLY <3>1
    <3> QED BY <3>2 DEF A, s
  <2> DEFINE m == x[d][i]
  <2>2. m.base \in Foods /\ m.toppings \in Seq(Foods)
    BY <2>1
  <2> HIDE DEF m
  <2>3. Food!ItemsOf(m) \in Seq(Foods) /\ Len(Food!ItemsOf(m)) = 1 + Len(m.toppings) /\ Len(m.toppings) \in Nat
    BY <2>2 DEF Food!ItemsOf
  <2>4. Food!ItemsOf(m) # <<>>
    <3>1. Len(<<>>) = 0
      OBVIOUS
    <3> QED BY <2>3, <3>1
  <2>5. meal(m) \in FoodMeal
    BY <2>2, <2>3, <2>4 DEF FoodMeal
  <2> QED BY <2>3, <2>4, <2>5 DEF m
<1>4. writes \subseteq Nat /\ IsFiniteSet(writes)
  <2>1. writes \in SUBSET DOMAIN x
    OBVIOUS
  <2> QED BY <1>2, <2>1, FS_Subset
<1>5. FoodPlan(new)
  <2>1. DOMAIN new \subseteq Nat /\ IsFiniteSet(DOMAIN new)
    <3>1. DOMAIN plan \subseteq Nat /\ IsFiniteSet(DOMAIN plan)
      BY DEF FoodInv, FoodType, FoodPlan
    <3>2. DOMAIN new = DOMAIN plan \cup writes
      OBVIOUS
    <3> HIDE DEF new, writes
    <3> QED BY <1>4, <3>1, <3>2, FS_Union
  <2>2. ASSUME NEW d \in DOMAIN new PROVE new[d] \in Seq(FoodMeal)
    <3>1. CASE d \in writes
      <4>1. new[d] = [i \in DOMAIN x[d] |-> meal(x[d][i])] /\ d \in DOMAIN x
        BY <3>1
      <4>2. DOMAIN x[d] = 1..Len(x[d]) /\ Len(x[d]) \in Nat
        BY <1>2, <4>1
      <4>3. \A i \in 1..Len(x[d]) : new[d][i] \in FoodMeal
        BY <1>3, <4>1, <4>2
      <4> HIDE DEF new
      <4>4. new[d] \in [1..Len(x[d]) -> FoodMeal]
        BY <4>1, <4>2, <4>3
      <4> QED BY <4>2, <4>4
    <3>2. CASE d \notin writes
      <4>1. d \in DOMAIN plan /\ new[d] = plan[d]
        BY <3>2
      <4> QED BY <4>1 DEF FoodInv, FoodType, FoodPlan
    <3> QED BY <3>1, <3>2
  <2> HIDE DEF new
  <2> QED BY <2>1, <2>2 DEF FoodPlan
<1>6. seen \subseteq Foods
  <2> SUFFICES ASSUME NEW y \in {z \in writes \X (1..3) : z[2] \in DOMAIN x[z[1]]}
               PROVE  Food!ToSet(Food!ItemsOf(x[y[1]][y[2]])) \subseteq Foods
    OBVIOUS
  <2>1. y[1] \in DOMAIN x /\ y[2] \in DOMAIN x[y[1]]
    OBVIOUS
  <2>2. Food!ItemsOf(x[y[1]][y[2]]) \in Seq(Foods)
    BY <1>3, <2>1
  <2> QED BY <2>2 DEF Food!ToSet
<1>7. \A f \in Foods \ amended' : \A d \in DOMAIN plan' :
           Food!Over(d) => Food!UsesOn(plan', f, d) = Food!UsesOn(plan, f, d)
  <2> SUFFICES ASSUME NEW f \in Foods \ amended', NEW d \in DOMAIN new, Food!Over(d)
               PROVE  Food!UsesOn(new, f, d) = Food!UsesOn(plan, f, d)
    BY <1>1, Zenon
  <2>1. CASE d \in writes
    BY <1>1, <2>1
  <2>2. CASE d \notin writes
    <3>1. d \in DOMAIN plan /\ d \in DOMAIN new /\ new[d] = plan[d]
      BY <2>2
    <3> HIDE DEF new
    <3> QED BY <3>1 DEF Food!UsesOn
  <2> QED BY <2>1, <2>2
<1>8. DOMAIN plan \subseteq DOMAIN plan' /\ FoodPlan(plan)' /\ amended \subseteq amended'
  <2>1. DOMAIN new = DOMAIN plan \cup writes
    OBVIOUS
  <2> HIDE DEF new, writes
  <2> QED BY <1>1, <1>5, <2>1
<1>9. DOMAIN ingredients' \subseteq Foods /\ StockInv'
  <2> HIDE DEF new, writes, seen
  <2> QED BY <1>1, <1>6, <1>7, <1>8, MealsInv
<1>10. /\ DOMAIN edit' = Editors
       /\ \A e \in Editors : edit'[e] = edit[e] \/ edit'[e] = Food!Free
  BY <1>1 DEF FoodInv, FoodType
<1>11. \A e \in Editors : (edit'[e].pc = "meal" \/ edit'[e].pc = "tag") => edit'[e] = edit[e]
  <2> HIDE DEF new, writes, seen
  <2> QED BY ONLY <1>10, FreeIsIdle
<1>12. FoodType'
  <2>1. /\ DOMAIN edit' = Editors
        /\ \A e \in Editors :
              edit'[e].pc = "meal" => edit'[e].day \in DOMAIN plan' /\ edit'[e].items \in Seq(Foods) \ {<<>>}
    BY <1>8, <1>10, <1>11, EditFrame
  <2> HIDE DEF new, writes, seen
  <2> QED BY <1>1, <1>8, <1>9, <2>1 DEF FoodInv, FoodType
<1>13. TagsInv'
  BY <1>1, <1>11, TagsFrame
<1> QED BY <1>9, <1>12, <1>13 DEF FoodInv


LEMMA MealReadInv ==
  ASSUME FoodInv, NEW e \in Editors, NEW d \in DOMAIN plan, NEW n \in DOMAIN plan[d], Food!MealRead(e, d, n)
  PROVE  FoodInv'
<1> DEFINE items == Food!ItemsOf(plan[d][n])
<1>1. /\ edit' = [edit EXCEPT ![e] = [Food!Free EXCEPT !.pc = "meal", !.day = d, !.n = n, !.items = items]]
      /\ UNCHANGED <<dday, evening, plan, ingredients, batches, tags, freezer, amended>>
  BY DEF Food!MealRead
<1>2. items \in Seq(Foods) \ {<<>>}
  <2> DEFINE m == plan[d][n]
  <2>1. plan[d] \in Seq(FoodMeal)
    BY DEF FoodInv, FoodType, FoodPlan
  <2>2. m \in FoodMeal
    BY ONLY <2>1, n \in DOMAIN plan[d]
  <2>3. m.base \in Foods /\ m.toppings \in Seq(Foods)
    <3> HIDE DEF m
    <3> QED BY <2>2 DEF FoodMeal
  <2> HIDE DEF m
  <2>4. Food!ItemsOf(m) \in Seq(Foods) /\ Len(Food!ItemsOf(m)) = 1 + Len(m.toppings) /\ Len(m.toppings) \in Nat
    BY <2>3 DEF Food!ItemsOf
  <2>5. Food!ItemsOf(m) # <<>>
    <3>1. Len(<<>>) = 0
      OBVIOUS
    <3> QED BY <2>4, <3>1
  <2> QED BY <2>4, <2>5 DEF m
<1> HIDE DEF items
<1>3. DOMAIN edit = Editors
  BY DEF FoodInv, FoodType
<1>4. edit'[e].pc = "meal" /\ edit'[e].day = d /\ edit'[e].items = items
  BY <1>1, <1>3 DEF Food!Free
<1>5. DOMAIN edit' = Editors /\ \A x \in Editors : x # e => edit'[x] = edit[x]
  BY <1>1, <1>3
<1>6. FoodType'
  <2>1. \A x \in Editors :
          edit'[x].pc = "meal" => edit'[x].day \in DOMAIN plan /\ edit'[x].items \in Seq(Foods) \ {<<>>}
    BY <1>2, <1>4, <1>5 DEF FoodInv, FoodType
  <2> QED BY <1>1, <1>5, <2>1 DEF FoodInv, FoodType
<1>7. StockInv'
  BY <1>1, StockFrame
<1>8. TagsInv'
  <2>1. \A x \in Editors : edit'[x].pc = "tag" => edit'[x] = edit[x]
    BY <1>4, <1>5
  <2> QED BY <1>1, <2>1, TagsFrame
<1> QED BY <1>6, <1>7, <1>8 DEF FoodInv

LEMMA BFUpdateMealInv ==
  ASSUME FoodInv, NEW e \in Editors, NEW items \in Seq(Foods) \ {<<>>}, NEW skipped \in BOOLEAN,
         Food!BFUpdateMeal(e, items, skipped)
  PROVE  FoodInv'
<1> DEFINE d == edit[e].day
           n == edit[e].n
           row == [plan[d][n] EXCEPT !.base = items[1], !.toppings = Tail(items), !.skipped = skipped]
           new == [plan EXCEPT ![d] = [plan[d] EXCEPT ![n] = row]]
<1>1. /\ edit[e].pc = "meal" /\ n \in DOMAIN plan[d]
      /\ plan' = new
      /\ ingredients' = Food!Listed(Food!ToSet(items))
      /\ amended' = amended \cup {f \in Foods : Food!Over(d) /\ Food!UsesOn(new, f, d) # Food!UsesOn(plan, f, d)}
      /\ edit' = [edit EXCEPT ![e] = Food!Free]
      /\ UNCHANGED <<dday, evening, batches, tags, freezer>>
  BY DEF Food!BFUpdateMeal, Food!Amends
<1>2. /\ d \in DOMAIN plan /\ plan[d] \in Seq(FoodMeal) /\ FoodPlan(plan) /\ DOMAIN edit = Editors
  BY <1>1 DEF FoodInv, FoodType, FoodPlan
<1>3. items[1] \in Foods /\ Tail(items) \in Seq(Foods)
  <2>1. items \in Seq(Foods) /\ items # <<>>
    OBVIOUS
  <2> QED BY ONLY <2>1
<1>4. row \in FoodMeal
  <2> DEFINE m == plan[d][n]
  <2>1. m \in FoodMeal
    BY ONLY <1>1, <1>2
  <2> HIDE DEF m
  <2>2. [m EXCEPT !.base = items[1], !.toppings = Tail(items), !.skipped = skipped] \in FoodMeal
    BY ONLY <1>3, <2>1, skipped \in BOOLEAN DEF FoodMeal
  <2> QED BY <2>2 DEF m
<1> HIDE DEF d, n, row
<1>5. [plan[d] EXCEPT ![n] = row] \in Seq(FoodMeal)
  BY ONLY <1>1, <1>2, <1>4
<1>6. DOMAIN new = DOMAIN plan /\ \A x \in DOMAIN new : x # d => new[x] = plan[x]
  OBVIOUS
<1>7. new[d] = [plan[d] EXCEPT ![n] = row]
  BY <1>2
<1> HIDE DEF new
<1>8. FoodPlan(new)
  BY <1>2, <1>5, <1>6, <1>7 DEF FoodPlan
<1>9. \A f \in Foods \ amended' : \A x \in DOMAIN plan' :
           Food!Over(x) => Food!UsesOn(plan', f, x) = Food!UsesOn(plan, f, x)
  <2> SUFFICES ASSUME NEW f \in Foods \ amended', NEW x \in DOMAIN new, Food!Over(x)
               PROVE  Food!UsesOn(new, f, x) = Food!UsesOn(plan, f, x)
    BY <1>1, Zenon
  <2>1. CASE x = d
    BY <1>1, <2>1
  <2>2. CASE x # d
    BY <1>6, <2>2 DEF Food!UsesOn
  <2> QED BY <2>1, <2>2
<1>10. DOMAIN ingredients' \subseteq Foods /\ StockInv'
  <2>1. Food!ToSet(items) \subseteq Foods
    BY DEF Food!ToSet
  <2>2. FoodPlan(plan)' /\ DOMAIN plan \subseteq DOMAIN plan' /\ amended \subseteq amended'
    BY <1>1, <1>6, <1>8
  <2> QED BY <1>1, <1>9, <2>1, <2>2, MealsInv
<1>11. /\ DOMAIN edit' = Editors
       /\ \A x \in Editors : (edit'[x].pc = "meal" \/ edit'[x].pc = "tag") => edit'[x] = edit[x]
  <2>1. DOMAIN edit' = Editors /\ \A x \in Editors : edit'[x] = edit[x] \/ edit'[x] = Food!Free
    BY <1>1, <1>2
  <2> QED BY ONLY <2>1, FreeIsIdle
<1>12. FoodType'
  <2>1. /\ DOMAIN edit' = Editors
        /\ \A x \in Editors :
              edit'[x].pc = "meal" => edit'[x].day \in DOMAIN plan' /\ edit'[x].items \in Seq(Foods) \ {<<>>}
    <3>1. DOMAIN plan \subseteq DOMAIN plan'
      BY <1>1, <1>6
    <3> QED BY <1>11, <3>1, EditFrame
  <2> QED BY <1>1, <1>8, <1>10, <2>1 DEF FoodInv, FoodType
<1>13. TagsInv'
  BY <1>1, <1>11, TagsFrame
<1> QED BY <1>10, <1>12, <1>13 DEF FoodInv

LEMMA MealEditsInv ==
  ASSUME FoodInv, NEW e \in Editors, edit[e].pc = "meal", Food!MealEdits(e)
  PROVE  FoodInv'
<1> DEFINE read == edit[e].items
           m == plan[edit[e].day][edit[e].n]
<1>1. read \in Seq(Foods) \ {<<>>} /\ edit[e].day \in DOMAIN plan
  BY DEF FoodInv, FoodType
<1>2. \/ \E f \in Foods : Food!BFUpdateMeal(e, <<f>> \o Tail(read), m.skipped)
      \/ Food!BFUpdateMeal(e, <<read[1]>>, m.skipped)
      \/ Food!BFUpdateMeal(e, read, ~m.skipped)
      \/ Food!BFUpdateMeal(e, m.src, m.skipped)
  BY DEF Food!MealEdits
<1>3. edit[e].n \in DOMAIN plan[edit[e].day]
  BY <1>2 DEF Food!BFUpdateMeal
<1>4. m \in FoodMeal
  <2>1. plan[edit[e].day] \in Seq(FoodMeal)
    BY <1>1 DEF FoodInv, FoodType, FoodPlan
  <2> QED BY ONLY <1>3, <2>1
<1> HIDE DEF m, read
<1>5. m.src \in Seq(Foods) \ {<<>>} /\ m.skipped \in BOOLEAN
  BY <1>4 DEF FoodMeal
<1>6. (~m.skipped) \in BOOLEAN
  OBVIOUS
<1>7. ASSUME NEW f \in Foods PROVE <<f>> \o Tail(read) \in Seq(Foods) \ {<<>>}
  <2>1. Tail(read) \in Seq(Foods)
    BY <1>1
  <2>2. <<f>> \o Tail(read) \in Seq(Foods) /\ Len(<<f>> \o Tail(read)) = 1 + Len(Tail(read)) /\ Len(Tail(read)) \in Nat
    BY <2>1
  <2>3. Len(<<>>) = 0
    OBVIOUS
  <2> QED BY <2>2, <2>3
<1>8. <<read[1]>> \in Seq(Foods) \ {<<>>}
  <2>1. read[1] \in Foods
    BY <1>1
  <2>2. <<read[1]>> \in Seq(Foods) /\ Len(<<read[1]>>) = 1 /\ Len(<<>>) = 0
    BY <2>1
  <2> QED BY <2>2
<1>9. CASE \E f \in Foods : Food!BFUpdateMeal(e, <<f>> \o Tail(read), m.skipped)
  <2>1. PICK f \in Foods : Food!BFUpdateMeal(e, <<f>> \o Tail(read), m.skipped)
    BY <1>9
  <2> QED BY <1>5, <1>7, <2>1, BFUpdateMealInv
<1>10. CASE Food!BFUpdateMeal(e, <<read[1]>>, m.skipped)
  BY <1>5, <1>8, <1>10, BFUpdateMealInv
<1>11. CASE Food!BFUpdateMeal(e, read, ~m.skipped)
  BY <1>1, <1>6, <1>11, BFUpdateMealInv DEF read
<1>12. CASE Food!BFUpdateMeal(e, m.src, m.skipped)
  BY <1>5, <1>12, BFUpdateMealInv
<1> QED BY <1>2, <1>9, <1>10, <1>11, <1>12


LEMMA FoodBatchLength == \A s : Food!Len(s) = Len(s)
OBVIOUS

LEMMA FoodAppend == ASSUME NEW A, NEW s \in Seq(A), NEW x \in A PROVE Food!Append(s, x) = s \o <<x>>
OBVIOUS

LEMMA BFCountInv ==
  ASSUME FoodInv, NEW f \in Foods, Food!BFCount(f, freezer[f])
  PROVE  FoodInv'
<1> DEFINE i == [qty |-> freezer[f], dday |-> dday, batch |-> Len(batches), late |-> evening]
<1>1. /\ f \in DOMAIN ingredients /\ ingredients' = [ingredients EXCEPT ![f] = i] /\ amended' = amended \ {f}
      /\ UNCHANGED <<dday, evening, plan, batches, tags, freezer, edit>>
  BY FoodBatchLength DEF Food!BFCount
<1>2. /\ freezer[f] \in Int /\ dday \in Nat /\ evening \in BOOLEAN /\ batches \in Seq(FoodBatch) /\ FoodPlan(plan)
      /\ DOMAIN ingredients \subseteq Foods
  BY DEF FoodInv, FoodType
<1>3. Counted(i, batches, dday) /\ Explains(i, f, plan, batches, freezer[f], dday, evening)
  BY <1>2, ExplainsCount
<1>4. i.late = evening
  OBVIOUS
<1> HIDE DEF i
<1>5. DOMAIN ingredients' = DOMAIN ingredients /\ ingredients'[f] = i
      /\ \A g \in DOMAIN ingredients : g # f => ingredients'[g] = ingredients[g]
  BY <1>1
<1>6. FoodType'
  BY <1>1, <1>5 DEF FoodInv, FoodType
<1>7. StockInv'
  <2> SUFFICES ASSUME NEW g \in DOMAIN ingredients
               PROVE  LET j == ingredients'[g]
                      IN  /\ Counted(j, batches, dday)
                          /\ j.late => /\ j.dday = dday => evening
                                       /\ g \notin amended' => Explains(j, g, plan, batches, freezer[g], dday, evening)
    BY <1>1, <1>5 DEF StockInv
  <2>1. CASE g = f
    BY <1>3, <1>4, <1>5, <2>1, Zenon
  <2>2. CASE g # f
    <3>1. ingredients'[g] = ingredients[g] /\ (g \notin amended' => g \notin amended)
      BY <1>1, <1>5, <2>2
    <3> QED BY <3>1 DEF FoodInv, StockInv
  <2> QED BY <2>1, <2>2
<1>8. TagsInv'
  BY <1>1, TagsFrame
<1> QED BY <1>6, <1>7, <1>8 DEF FoodInv

\* Batches are added and the freezer takes them: at most one of each food.
LEMMA CookedInv ==
  ASSUME FoodInv, NEW cs \in Seq(FoodBatch), batches' = batches \o cs, freezer' \in [Foods -> Int],
         UNCHANGED <<dday, evening, plan, amended>>,
         \A f \in Foods :
           \/ (\A j \in DOMAIN cs : cs[j].food # f) /\ freezer'[f] = freezer[f]
           \/ \E k \in DOMAIN cs : /\ \A j \in DOMAIN cs : cs[j].food = f <=> j = k
                                   /\ freezer'[f] = freezer[f] + cs[k].qty,
         DOMAIN ingredients' \subseteq Foods,
         \A f \in DOMAIN ingredients' :
           \/ f \in DOMAIN ingredients /\ ingredients'[f] = ingredients[f]
           \/ ~ingredients'[f].late /\ Counted(ingredients'[f], batches, dday)
  PROVE  batches' \in Seq(FoodBatch) /\ StockInv'
<1>1. PICK bs : bs = batches \o cs
  OBVIOUS
<1>2. /\ batches \in Seq(FoodBatch) /\ FoodPlan(plan) /\ dday \in Nat /\ evening \in BOOLEAN /\ freezer \in [Foods -> Int]
  BY DEF FoodInv, FoodType
<1>3. bs \in Seq(FoodBatch) /\ Len(bs) >= Len(batches) /\ Len(bs) \in Nat /\ Len(batches) \in Nat
  BY <1>1, <1>2
<1>4. ASSUME NEW f \in DOMAIN ingredients'
      PROVE  LET i == ingredients'[f]
             IN  /\ Counted(i, bs, dday)
                 /\ i.late => /\ i.dday = dday => evening
                              /\ f \notin amended => Explains(i, f, plan, bs, freezer'[f], dday, evening)
  <2>1. CASE ~ingredients'[f].late /\ Counted(ingredients'[f], batches, dday)
    BY <1>3, <2>1 DEF Counted, FoodCounts
  <2>2. CASE f \in DOMAIN ingredients /\ ingredients'[f] = ingredients[f]
    <3> DEFINE i == ingredients[f]
    <3>1. /\ Counted(i, batches, dday)
          /\ i.late => /\ i.dday = dday => evening
                       /\ f \notin amended => Explains(i, f, plan, batches, freezer[f], dday, evening)
      BY <2>2 DEF FoodInv, StockInv
    <3>2. Counted(i, bs, dday)
      BY <1>3, <3>1 DEF Counted, FoodCounts
    <3>3. ASSUME i.late, f \notin amended PROVE Explains(i, f, plan, bs, freezer'[f], dday, evening)
      <4>1. Explains(i, f, plan, batches, freezer[f], dday, evening) /\ f \in Foods /\ freezer[f] \in Int
        BY <1>2, <3>1, <3>3
      <4> HIDE DEF i
      <4>2. /\ (\A j \in DOMAIN cs : cs[j].food # f) => Explains(i, f, plan, batches \o cs, freezer[f], dday, evening)
            /\ \A k \in DOMAIN cs : (\A j \in DOMAIN cs : cs[j].food = f <=> j = k)
                                      => Explains(i, f, plan, batches \o cs, freezer[f] + cs[k].qty, dday, evening)
        BY ONLY <1>2, <3>1, <4>1, ExplainsBatches, cs \in Seq(FoodBatch)
      <4>3. CASE (\A j \in DOMAIN cs : cs[j].food # f) /\ freezer'[f] = freezer[f]
        BY <1>1, <4>2, <4>3
      <4>4. CASE \E k \in DOMAIN cs : /\ \A j \in DOMAIN cs : cs[j].food = f <=> j = k
                                      /\ freezer'[f] = freezer[f] + cs[k].qty
        <5>1. PICK k \in DOMAIN cs : /\ \A j \in DOMAIN cs : cs[j].food = f <=> j = k
                                     /\ freezer'[f] = freezer[f] + cs[k].qty
          BY <4>4
        <5>2. Explains(i, f, plan, batches \o cs, freezer[f] + cs[k].qty, dday, evening)
          BY <4>2, <5>1
        <5> QED BY <1>1, <5>1, <5>2
      <4> QED BY <4>1, <4>3, <4>4
    <3> QED BY <2>2, <3>1, <3>2, <3>3
  <2> QED BY <2>1, <2>2
<1>5. StockInv'
  BY <1>1, <1>4 DEF StockInv
<1> QED BY <1>1, <1>3, <1>5

LEMMA BFAddBatchInv ==
  ASSUME FoodInv, NEW f \in Foods, NEW q \in Int, Food!BFAddBatch(f, q)
  PROVE  FoodInv'
<1> DEFINE b == [food |-> f, qty |-> q]
           cs == <<b>>
<1>1. /\ batches' = Food!Append(batches, b) /\ freezer' = [freezer EXCEPT ![f] = freezer[f] + q]
      /\ ingredients' = Food!Listed({f})
      /\ UNCHANGED <<dday, evening, plan, tags, amended, edit>>
  BY DEF Food!BFAddBatch
<1>2. freezer \in [Foods -> Int] /\ batches \in Seq(FoodBatch)
  BY DEF FoodInv, FoodType
<1>3. freezer' \in [Foods -> Int] /\ freezer'[f] = freezer[f] + q /\ \A g \in Foods : g # f => freezer'[g] = freezer[g]
  BY <1>1, <1>2
<1>4. b \in FoodBatch /\ b.food = f /\ b.qty = q
  BY DEF FoodBatch
<1> HIDE DEF b
<1>5. cs \in Seq(FoodBatch) /\ DOMAIN cs = {1} /\ cs[1] = b
  BY <1>4
<1>6. batches' = batches \o cs
  BY <1>1, <1>2, <1>4, FoodAppend
<1> HIDE DEF cs
<1>7. \A g \in Foods :
           \/ (\A j \in DOMAIN cs : cs[j].food # g) /\ freezer'[g] = freezer[g]
           \/ \E k \in DOMAIN cs : /\ \A j \in DOMAIN cs : cs[j].food = g <=> j = k
                                   /\ freezer'[g] = freezer[g] + cs[k].qty
  BY <1>3, <1>4, <1>5
<1>8. /\ DOMAIN ingredients' \subseteq Foods
      /\ \A g \in DOMAIN ingredients' :
           \/ g \in DOMAIN ingredients /\ ingredients'[g] = ingredients[g]
           \/ ~ingredients'[g].late /\ Counted(ingredients'[g], batches, dday)
  BY <1>1, ListedCounts
<1>9. batches' \in Seq(FoodBatch) /\ StockInv'
  BY <1>1, <1>3, <1>5, <1>6, <1>7, <1>8, CookedInv
<1>10. FoodType'
  BY <1>1, <1>3, <1>8, <1>9 DEF FoodInv, FoodType
<1>11. TagsInv'
  BY <1>1, TagsFrame
<1> QED BY <1>9, <1>10, <1>11 DEF FoodInv


LEMMA MakeTyped ==
  ASSUME FoodInv, NEW f \in DOMAIN ingredients
  PROVE  Food!Make(f) \in Nat
<1> DEFINE days == {d \in DOMAIN plan : d >= dday /\ d < dday + Horizon}
           h == [d \in days |-> Food!UsesOn(plan, f, d)]
           i == ingredients[f]
<1>1. FoodPlan(plan) /\ batches \in Seq(FoodBatch) /\ Counted(i, batches, dday)
  BY DEF FoodInv, FoodType, StockInv
<1>2. Food!Need(f) \in Int
  <2>1. days \in SUBSET DOMAIN plan /\ IsFiniteSet(DOMAIN plan)
    BY <1>1 DEF FoodPlan
  <2>2. IsFiniteSet(days)
    <3> HIDE DEF days
    <3> QED BY <2>1, FS_Subset
  <2>3. \A d \in days : h[d] \in Int
    BY <1>1, UsesTyped
  <2>4. Food!Need(f) = Food!SumOver(h, days)
    BY DEF Food!Need, Food!UsesIn
  <2> HIDE DEF h, days
  <2> QED BY <2>2, <2>3, <2>4, SumAdds
<1>3. Food!Stock(f) = i.qty - CubesBetween(plan, f, i.dday, dday) + CubesMade(batches, f, i.batch)
  BY DEF Food!Stock, Food!Used, Food!UsesIn, Food!Made, CubesBetween, CubesMade, DaysBetween, BatchesSince
<1>4. i.qty \in Int /\ CubesBetween(plan, f, i.dday, dday) \in Int /\ CubesMade(batches, f, i.batch) \in Int
  <2>1. i.qty \in Int
    BY <1>1 DEF Counted, FoodCounts
  <2> QED BY <1>1, <2>1, BetweenTyped, MadeTyped
<1>5. Food!Stock(f) \in Int
  <2> HIDE DEF i
  <2> QED BY <1>3, <1>4
<1> QED BY <1>2, <1>5 DEF Food!Make

LEMMA CookShoppingInv ==
  ASSUME FoodInv, Food!CookShopping
  PROVE  FoodInv'
<1> DEFINE T == {f \in DOMAIN ingredients : Food!Make(f) > 0}
           todo == Food!SetToSeq(T)
           cs == [i \in DOMAIN todo |-> [food |-> todo[i], qty |-> Food!Make(todo[i])]]
<1>1. /\ batches' = batches \o cs
      /\ freezer' = [f \in Foods |-> IF f \in DOMAIN ingredients THEN freezer[f] + Food!Make(f) ELSE freezer[f]]
      /\ UNCHANGED <<dday, evening, plan, ingredients, tags, amended, edit>>
  BY DEF Food!CookShopping
<1>2. /\ freezer \in [Foods -> Int] /\ batches \in Seq(FoodBatch) /\ DOMAIN ingredients \subseteq Foods
      /\ IsFiniteSet(Foods)
  BY FoodAssumption DEF FoodInv, FoodType
<1>3. freezer' \in [Foods -> Int]
  BY <1>1, <1>2, MakeTyped
<1>4. T \subseteq DOMAIN ingredients /\ \A f \in DOMAIN ingredients \ T : Food!Make(f) = 0
  BY MakeTyped
<1>5. IsFiniteSet(T)
  <2>1. T \in SUBSET Foods
    BY <1>2
  <2> HIDE DEF T
  <2> QED BY <1>2, <2>1, FS_Subset
<1>6. /\ todo \in Seq(T)
      /\ \A x \in T : \E i \in DOMAIN todo : todo[i] = x /\ \A j \in DOMAIN todo : todo[j] = x <=> j = i
  <2> HIDE DEF T
  <2> QED BY <1>5, ListedOnce
<1> HIDE DEF todo, T
<1>7. DOMAIN cs = DOMAIN todo /\ \A i \in DOMAIN cs : cs[i].food = todo[i] /\ cs[i].qty = Food!Make(todo[i]) /\ todo[i] \in T
  BY <1>6
<1>8. cs \in Seq(FoodBatch)
  <2>1. DOMAIN todo = 1..Len(todo) /\ Len(todo) \in Nat
    BY <1>6
  <2>2. ASSUME NEW i \in DOMAIN todo PROVE cs[i] \in FoodBatch
    <3>1. PICK f \in T : f = todo[i]
      BY <1>7
    <3>2. f \in DOMAIN ingredients /\ f \in Foods
      BY <1>2, <1>4
    <3>3. Food!Make(f) \in Nat
      BY <3>2, MakeTyped
    <3>4. [food |-> f, qty |-> Food!Make(f)] \in FoodBatch
      BY <3>2, <3>3 DEF FoodBatch
    <3> QED BY <3>1, <3>4
  <2>3. cs \in [1..Len(todo) -> FoodBatch]
    BY <2>1, <2>2
  <2> HIDE DEF cs
  <2> QED BY <2>1, <2>3
<1> HIDE DEF cs
<1>9. ASSUME NEW f \in Foods
      PROVE  \/ (\A j \in DOMAIN cs : cs[j].food # f) /\ freezer'[f] = freezer[f]
             \/ \E k \in DOMAIN cs : /\ \A j \in DOMAIN cs : cs[j].food = f <=> j = k
                                     /\ freezer'[f] = freezer[f] + cs[k].qty
  <2>1. CASE f \in T
    <3>1. PICK k \in DOMAIN todo : todo[k] = f /\ \A j \in DOMAIN todo : todo[j] = f <=> j = k
      BY <1>6, <2>1
    <3>2. freezer'[f] = freezer[f] + Food!Make(f)
      BY <1>1, <1>4, <2>1
    <3>3. k \in DOMAIN cs /\ (\A j \in DOMAIN cs : cs[j].food = f <=> j = k) /\ cs[k].qty = Food!Make(f)
      BY <1>7, <3>1
    <3> QED BY <3>2, <3>3
  <2>2. CASE f \notin T
    <3>1. freezer'[f] = freezer[f]
      <4>1. CASE f \in DOMAIN ingredients
        <5>1. Food!Make(f) = 0 /\ freezer'[f] = freezer[f] + Food!Make(f) /\ freezer[f] \in Int
          BY <1>1, <1>2, <1>4, <2>2, <4>1
        <5> QED BY <5>1
      <4>2. CASE f \notin DOMAIN ingredients
        BY <1>1, <4>2
      <4> QED BY <4>1, <4>2
    <3>2. \A j \in DOMAIN cs : cs[j].food # f
      BY <1>7, <2>2
    <3> QED BY <3>1, <3>2
  <2> QED BY <2>1, <2>2
<1>10. /\ DOMAIN ingredients' \subseteq Foods
       /\ \A g \in DOMAIN ingredients' : g \in DOMAIN ingredients /\ ingredients'[g] = ingredients[g]
  BY <1>1, <1>2
<1>11. batches' \in Seq(FoodBatch) /\ StockInv'
  BY <1>1, <1>3, <1>8, <1>9, <1>10, CookedInv
<1>12. FoodType'
  BY <1>1, <1>3, <1>11 DEF FoodInv, FoodType
<1>13. TagsInv'
  BY <1>1, TagsFrame
<1> QED BY <1>11, <1>12, <1>13 DEF FoodInv

-----------------------------------------------------------------------------
LEMMA TaggedRow ==
  ASSUME NEW t, TagRow(t), NEW field \in {"reaction", "liked", "disliked"}, NEW on \in BOOLEAN
  PROVE  TagRow(Food!Tagged(t, field, on))
<1>0. t \in [reaction : BOOLEAN, liked : BOOLEAN, disliked : BOOLEAN] /\ ~(t.liked /\ t.disliked)
  BY DEF TagRow
<1>1. CASE field = "reaction"
  BY <1>0, <1>1 DEF TagRow, Food!Tagged
<1>2. CASE field = "liked"
  BY <1>0, <1>2 DEF TagRow, Food!Tagged
<1>3. CASE field = "disliked"
  BY <1>0, <1>3 DEF TagRow, Food!Tagged
<1> QED BY <1>1, <1>2, <1>3

LEMMA NoTagRow == TagRow(Food!NoTag)
BY DEF Food!NoTag, TagRow

\* Reading and writing tags leaves the stock alone.
LEMMA TagStep ==
  ASSUME FoodInv, UNCHANGED <<dday, evening, plan, ingredients, batches, freezer, amended>>,
         DOMAIN edit' = Editors, \A e \in Editors : edit'[e].pc = "meal" => edit'[e] = edit[e],
         TagsInv'
  PROVE  FoodInv'
<1>1. FoodType'
  <2>1. /\ DOMAIN edit' = Editors
        /\ \A e \in Editors :
              edit'[e].pc = "meal" => edit'[e].day \in DOMAIN plan' /\ edit'[e].items \in Seq(Foods) \ {<<>>}
    BY EditFrame
  <2> QED BY <2>1 DEF FoodInv, FoodType
<1>2. StockInv'
  BY StockFrame
<1> QED BY <1>1, <1>2 DEF FoodInv

LEMMA TagReadInv ==
  ASSUME FoodInv, NEW e \in Editors, NEW d, NEW f, Food!TagRead(e, d, f)
  PROVE  FoodInv'
<1> DEFINE t == IF <<d, f>> \in DOMAIN tags THEN tags[<<d, f>>] ELSE Food!NoTag
<1>1. /\ edit' = [edit EXCEPT ![e] = [Food!Free EXCEPT !.pc = "tag", !.day = d, !.food = f, !.tag = t]]
      /\ UNCHANGED <<dday, evening, plan, ingredients, batches, tags, freezer, amended>>
  BY DEF Food!TagRead
<1>2. TagRow(t)
  BY NoTagRow DEF FoodInv, TagsInv
<1> HIDE DEF t
<1>3. DOMAIN edit = Editors
  BY DEF FoodInv, FoodType
<1>4. edit'[e].pc = "tag" /\ edit'[e].tag = t
  BY <1>1, <1>3 DEF Food!Free
<1>5. DOMAIN edit' = Editors /\ \A x \in Editors : x # e => edit'[x] = edit[x]
  BY <1>1, <1>3
<1>6. TagsInv'
  BY <1>1, <1>2, <1>4, <1>5 DEF FoodInv, TagsInv
<1>7. \A x \in Editors : edit'[x].pc = "meal" => edit'[x] = edit[x]
  BY <1>4, <1>5
<1> QED BY <1>1, <1>5, <1>6, <1>7, TagStep

LEMMA BFSetLogInv ==
  ASSUME FoodInv, NEW e \in Editors, NEW field \in {"reaction", "liked", "disliked"}, NEW on \in BOOLEAN,
         Food!BFSetLog(e, field, on)
  PROVE  FoodInv'
<1> DEFINE k == <<edit[e].day, edit[e].food>>
           t == Food!Tagged(edit[e].tag, field, on)
<1>1. /\ edit[e].pc = "tag"
      /\ tags' = IF t = Food!NoTag THEN [x \in DOMAIN tags \ {k} |-> tags[x]] ELSE Food!With(tags, k, t)
      /\ edit' = [edit EXCEPT ![e] = Food!Free]
      /\ UNCHANGED <<dday, evening, plan, ingredients, batches, freezer, amended>>
  BY DEF Food!BFSetLog
<1>2. TagRow(t)
  BY <1>1, TaggedRow DEF FoodInv, TagsInv
<1> HIDE DEF k, t
<1>3. \A x \in DOMAIN tags' : TagRow(tags'[x])
  <2>1. CASE t = Food!NoTag
    BY <1>1, <2>1 DEF FoodInv, TagsInv
  <2>2. CASE t # Food!NoTag
    BY <1>1, <1>2, <2>2 DEF FoodInv, TagsInv, Food!With
  <2> QED BY <2>1, <2>2
<1>4. /\ DOMAIN edit' = Editors
      /\ \A x \in Editors : (edit'[x].pc = "meal" \/ edit'[x].pc = "tag") => edit'[x] = edit[x]
  <2>1. DOMAIN edit' = Editors /\ \A x \in Editors : edit'[x] = edit[x] \/ edit'[x] = Food!Free
    BY <1>1 DEF FoodInv, FoodType
  <2> QED BY ONLY <2>1, FreeIsIdle
<1>5. TagsInv'
  BY <1>3, <1>4 DEF FoodInv, TagsInv
<1> QED BY <1>1, <1>4, <1>5, TagStep

\* What no property speaks about.
LEMMA FoodFrame ==
  ASSUME FoodInv, UNCHANGED <<dday, evening, plan, ingredients, batches, tags, freezer, amended, edit>>
  PROVE  FoodInv'
BY DEF FoodInv, FoodType, StockInv, TagsInv

LEMMA FoodInvNext == ASSUME FoodInv, Food!FoodNext PROVE FoodInv'
<1>1. CASE Food!Eat
  BY <1>1, EatInv
<1>2. CASE Food!NextFoodDay
  BY <1>2, NextFoodDayInv
<1>3. CASE Food!BFRemoveChild \/ Food!BFAddChild
  BY <1>3, FoodFrame DEF Food!BFRemoveChild, Food!BFAddChild
<1>4. ASSUME NEW x \in FoodPlans, NEW r \in BOOLEAN, NEW from \in {0, dday}, Food!BFImport(x, r, from) PROVE FoodInv'
  BY <1>4, BFImportInv
<1>5. ASSUME NEW e \in Editors, NEW d \in DOMAIN plan, NEW n \in DOMAIN plan[d], Food!MealRead(e, d, n) PROVE FoodInv'
  BY <1>5, MealReadInv
<1>6. ASSUME NEW e \in Editors, edit[e].pc = "meal", Food!MealEdits(e) PROVE FoodInv'
  BY <1>6, MealEditsInv
<1>7. ASSUME NEW d \in DOMAIN plan, NEW f \in Foods, Food!BFUpdateDay(d, f) PROVE FoodInv'
  BY <1>7, FoodFrame DEF Food!BFUpdateDay
<1>8. ASSUME NEW f \in Foods, Food!BFCount(f, freezer[f]) PROVE FoodInv'
  BY <1>8, BFCountInv
<1>9. ASSUME NEW f \in Foods, NEW q \in 1..MaxQty, Food!BFAddBatch(f, q) PROVE FoodInv'
  <2>1. q \in Int
    OBVIOUS
  <2> QED BY <1>9, <2>1, BFAddBatchInv
<1>10. CASE Food!CookShopping
  BY <1>10, CookShoppingInv
<1>11. ASSUME NEW e \in Editors, NEW d \in 1..dday, NEW f \in Foods, Food!TagRead(e, d, f) PROVE FoodInv'
  BY <1>11, TagReadInv
<1>12. ASSUME NEW e \in Editors, NEW field \in {"reaction", "liked", "disliked"}, NEW on \in BOOLEAN,
              Food!BFSetLog(e, field, on)
       PROVE  FoodInv'
  BY <1>12, BFSetLogInv
<1> QED BY <1>1, <1>2, <1>3, <1>4, <1>5, <1>6, <1>7, <1>8, <1>9, <1>10, <1>11, <1>12 DEF Food!FoodNext

\* The stock shown is what the freezer holds, whatever is cooked, eaten, imported
\* and edited since the count, for any foods, plans, requests and days, and no
\* food is both liked and disliked however requests overlap (BFStockList,
\* BFSetLog).
THEOREM StockKept == MCSpec => []FoodSound
<1>1. MCInit => FoodInv
  BY FoodInvInit DEF MCInit
<1>2. FoodInv /\ [MCNext]_allVars => FoodInv'
  <2> SUFFICES ASSUME FoodInv, [MCNext]_allVars PROVE FoodInv'
    OBVIOUS
  <2>1. CASE Food!FoodNext
    BY <2>1, FoodInvNext
  <2>2. CASE UNCHANGED foodVars
    <3>1. UNCHANGED <<dday, evening, plan, ingredients, batches, tags, freezer, amended, edit>>
      BY <2>2 DEF foodVars
    <3> QED BY <3>1, FoodFrame
  <2>3. Food!FoodNext \/ UNCHANGED foodVars
    BY DEF MCNext, allVars
  <2> QED BY <2>1, <2>2, <2>3
<1>3. FoodInv => FoodSound
  <2> SUFFICES ASSUME FoodInv PROVE FoodSound
    OBVIOUS
  <2>1. ASSUME NEW f \in DOMAIN ingredients \ amended, ingredients[f].qty >= 0, ingredients[f].late
        PROVE  Food!Stock(f)
                 = freezer[f] + (IF evening /\ ingredients[f].dday < dday THEN Food!UsesOn(plan, f, dday) ELSE 0)
    <3> DEFINE i == ingredients[f]
    <3>1. Food!Stock(f) = i.qty - CubesBetween(plan, f, i.dday, dday) + CubesMade(batches, f, i.batch)
      BY DEF Food!Stock, Food!Used, Food!UsesIn, Food!Made, CubesBetween, CubesMade, DaysBetween, BatchesSince
    <3>2. Explains(i, f, plan, batches, freezer[f], dday, evening)
      BY <2>1 DEF FoodInv, StockInv
    <3> QED BY <3>1, <3>2, Zenon DEF Explains
  <2>2. Food!StockTrue
    BY <2>1, Zenon DEF Food!StockTrue
  <2>3. Food!TagsExclusive
    BY DEF Food!TagsExclusive, FoodInv, TagsInv, TagRow
  <2> QED BY <2>2, <2>3 DEF FoodSound
<1> QED BY <1>1, <1>2, <1>3, PTL DEF MCSpec

-----------------------------------------------------------------------------
(***************************************************************************)
(* Transfers between accounts: finPairs, greedy as it is, pairs as many as *)
(* can be paired.                                                          *)
(***************************************************************************)

LEMMA FinanceCount == \A S : Finance!Cardinality(S) = Cardinality(S)
BY DEF Finance!Cardinality, Cardinality

\* Transfers in the order of time.
Book(R) ==
  /\ IsFiniteSet(R)
  /\ \A r \in R : /\ r.type = "move" /\ r.amount \in {-1, 1} /\ r.at \in Nat
                  /\ r.pos \in Nat /\ 1 <= r.pos /\ r.pos <= Cardinality(R)
  /\ \A n \in Nat : 1 <= n /\ n <= Cardinality(R) => \E r \in R : r.pos = n
  /\ \A r, s \in R : (r.pos = s.pos => r = s) /\ (r.pos <= s.pos => r.at <= s.at)

Fits(i, o) == o.type = "move" /\ o.amount = -i.amount /\ o.at - i.at \in -10..10
FreeFor(R, i, done) == {o \in R : Fits(i, o) /\ \A p \in done : p[2] # o}
PairUp(R, i, done) ==
  IF i.type = "move" /\ i.amount > 0 /\ FreeFor(R, i, done) # {}
    THEN {<<i, Finance!Partner(FreeFor(R, i, done))>>} ELSE {}
Incoming(R, n) == CHOOSE r \in R : r.pos = n
Pairing(f, R, N) ==
  f = [n \in 0..N |-> IF n = 0 THEN {} ELSE f[n - 1] \cup PairUp(R, Incoming(R, n), f[n - 1])]

\* finPairs is what the recursion over the transfers ends in.
LEMMA PairsUnfold ==
  ASSUME NEW R, IsFiniteSet(R)
  PROVE  \E f : Pairing(f, R, Cardinality(R)) /\ Finance!finPairs(R) = f[Cardinality(R)]
<1> DEFINE N == Cardinality(R)
           S == {k \in 0..N : \E f : Pairing(f, R, k)}
<1>0. N \in Nat
  BY FS_CardinalityType
<1>1. 0 \in S
  <2> DEFINE f == [n \in 0..0 |-> {}]
  <2>1. Pairing(f, R, 0)
    BY DEF Pairing
  <2> QED BY <1>0, <2>1
<1>2. ASSUME NEW k \in 0..(N - 1), k \in S PROVE k + 1 \in S
  <2>1. PICK f : Pairing(f, R, k)
    BY <1>2
  <2>2. PICK K \in Nat : K = k
    BY <1>0
  <2> DEFINE g == [n \in 0..(K + 1) |-> IF n = K + 1 THEN f[K] \cup PairUp(R, Incoming(R, K + 1), f[K]) ELSE f[n]]
  <2>3. ASSUME NEW n \in 0..(K + 1)
        PROVE  g[n] = IF n = 0 THEN {} ELSE g[n - 1] \cup PairUp(R, Incoming(R, n), g[n - 1])
    <3>1. CASE n = K + 1
      BY <3>1
    <3>2. CASE n # K + 1
      <4>1. n \in 0..K /\ g[n] = f[n] /\ (n # 0 => g[n - 1] = f[n - 1])
        BY <3>2
      <4>2. f[n] = IF n = 0 THEN {} ELSE f[n - 1] \cup PairUp(R, Incoming(R, n), f[n - 1])
        BY <2>1, <2>2, <4>1 DEF Pairing
      <4> QED BY <4>1, <4>2
    <3> QED BY <3>1, <3>2
  <2>4. g = [n \in 0..(K + 1) |-> g[n]]
    OBVIOUS
  <2> HIDE DEF g
  <2>5. Pairing(g, R, K + 1)
    BY <2>3, <2>4 DEF Pairing
  <2>6. k + 1 \in 0..N
    BY <1>0
  <2> QED BY <2>2, <2>5, <2>6
<1>3. 0..N \subseteq S
  <2> HIDE DEF S, N
  <2> QED BY <1>0, <1>1, <1>2, Induction
<1>4. PICK f : Pairing(f, R, N)
  BY <1>0, <1>3
<1> DEFINE g == CHOOSE h : Pairing(h, R, N)
<1>5. Pairing(g, R, N)
  BY <1>4
<1>6. Finance!finPairs(R) = g[N]
  BY FinanceCount DEF Finance!finPairs, Pairing, PairUp, FreeFor, Fits, Incoming
<1> QED BY <1>5, <1>6

Possible(R) == {p \in R \X R : p[1].amount = 1 /\ p[2].amount = -1 /\ p[2].at - p[1].at \in -10..10}
Matching(m) == \A p, q \in m : p # q => p[1] # q[1] /\ p[2] # q[2]
UpTo(m, n) == {p \in m : p[1].pos <= n}

\* The pairs D of the first n transfers are those of a matching that is as large
\* as any.
Extendable(R, D, n) ==
  /\ D \in SUBSET Possible(R) /\ Matching(D) /\ \A p \in D : p[1].pos <= n
  /\ \A m \in SUBSET Possible(R) : Matching(m) =>
       \E x \in SUBSET Possible(R) : Matching(x) /\ UpTo(x, n) = D /\ Cardinality(m) <= Cardinality(x)

\* A pair for another changes no size.
LEMMA Replaced ==
  ASSUME NEW m, IsFiniteSet(m), NEW p \in m, NEW q, q \notin m
  PROVE  IsFiniteSet((m \ {p}) \cup {q}) /\ Cardinality((m \ {p}) \cup {q}) = Cardinality(m)
<1>1. IsFiniteSet(m \ {p}) /\ Cardinality(m \ {p}) = Cardinality(m) - 1 /\ Cardinality(m) \in Nat
  BY FS_RemoveElement, FS_CardinalityType
<1>2. PICK s : s = m \ {p}
  OBVIOUS
<1>3. IsFiniteSet(s \cup {q}) /\ Cardinality(s \cup {q}) = Cardinality(s) + 1
  <2>1. IsFiniteSet(s) /\ q \notin s
    BY <1>1, <1>2
  <2> QED BY <2>1, FS_AddElement
<1> QED BY <1>1, <1>2, <1>3

LEMMA PossibleFinite ==
  ASSUME NEW R, Book(R), NEW m \in SUBSET Possible(R)
  PROVE  IsFiniteSet(m) /\ Cardinality(m) \in Nat
<1>1. IsFiniteSet(R \X R)
  BY FS_Product DEF Book
<1>2. m \in SUBSET (R \X R)
  BY DEF Possible
<1> QED BY <1>1, <1>2, FS_Subset, FS_CardinalityType

\* The first of those that are free is one of them, and no later than another.
LEMMA FirstFree ==
  ASSUME NEW R, Book(R), NEW F \in SUBSET R, F # {}
  PROVE  Finance!Partner(F) \in F /\ \A q \in F : Finance!Partner(F).pos <= q.pos
<1> DEFINE P == {r.pos : r \in F}
<1>1. PICK x \in P : \A y \in P : x <= y
  <2>1. P \in SUBSET Nat /\ P # {}
    BY DEF Book
  <2> HIDE DEF P
  <2> QED BY <2>1, LeastOne
<1>2. \E r \in F : \A q \in F : r.pos <= q.pos
  BY <1>1
<1>3. PICK o : o = Finance!Partner(F)
  OBVIOUS
<1>4. o \in F /\ \A q \in F : o.pos <= q.pos
  BY <1>2, <1>3, Zenon DEF Finance!Partner, Finance!First
<1> QED BY <1>3, <1>4

\* Taking the first partner that is free does not make the rest worse: what another
\* matching pairs the transfer and that partner with can be paired instead.
Taken(R, D, n, i, o) ==
  /\ i \in R /\ o \in R /\ i.pos = n + 1 /\ i.amount = 1 /\ Fits(i, o)
  /\ \A p \in D : p[2] # o
  /\ \A q \in FreeFor(R, i, D) : o.pos <= q.pos

LEMMA Exchange ==
  ASSUME NEW R, Book(R), NEW n \in Nat, NEW D, NEW i, NEW o, Taken(R, D, n, i, o),
         NEW m \in SUBSET Possible(R), Matching(m), UpTo(m, n) = D
  PROVE  \E x \in SUBSET Possible(R) :
            Matching(x) /\ UpTo(x, n + 1) = D \cup {<<i, o>>} /\ Cardinality(m) <= Cardinality(x)
<1> DEFINE pair == <<i, o>>
           rest == {p \in m : p[1] # i /\ p[2] # o}
<1>1. pair \in Possible(R) /\ pair[1] = i /\ pair[2] = o
  BY DEF Taken, Possible, Fits, Book
<1>2. \A p \in m : p = <<p[1], p[2]>> /\ p[1] \in R /\ p[2] \in R /\ p[1].pos \in Nat
  BY DEF Possible, Book
<1>3. \A p \in m : p[1].pos <= n <=> p \in D
  BY DEF UpTo
<1>4. ASSUME NEW p \in m, p[1].pos <= n + 1, p \notin D PROVE p[1] = i
  <2>1. p[1].pos = n + 1
    BY <1>2, <1>3, <1>4
  <2> QED BY <1>2, <2>1 DEF Taken, Book
<1>5. \A p \in m : p[2] = o => p \notin D
  BY DEF Taken
<1>6. \A p \in m : p[1] = i => p \notin D
  BY <1>3 DEF Taken
<1>7. D \subseteq rest
  BY <1>5, <1>6 DEF UpTo
<1>8. ASSUME NEW X \in SUBSET (rest \cup {pair}), rest \subseteq X, pair \in X
      PROVE  X \in SUBSET Possible(R) /\ Matching(X) /\ UpTo(X, n + 1) = D \cup {pair}
  <2>1. X \in SUBSET Possible(R)
    BY <1>1, <1>8
  <2>2. Matching(X)
    BY <1>1, <1>8 DEF Matching
  <2>3. i.pos <= n + 1
    BY DEF Taken
  <2>4. \A p \in rest : p[1].pos <= n + 1 <=> p \in D
    <3>1. ASSUME NEW p \in rest PROVE p[1].pos <= n + 1 <=> p \in D
      <4>1. p \in m /\ p[1] # i
        OBVIOUS
      <4>2. p[1].pos <= n + 1 => p \in D
        BY <1>4, <4>1
      <4>3. p \in D => p[1].pos <= n + 1
        BY <1>2, <1>3, <4>1
      <4> QED BY <4>2, <4>3
    <3> QED BY <3>1
  <2>5. UpTo(X, n + 1) = D \cup {pair}
    BY <1>1, <1>7, <1>8, <2>3, <2>4 DEF UpTo
  <2> QED BY <2>1, <2>2, <2>5
<1>9. IsFiniteSet(m) /\ Cardinality(m) \in Nat
  BY PossibleFinite
<1>10. CASE pair \in m
  <2>1. m \in SUBSET (rest \cup {pair})
    BY <1>1, <1>2, <1>10 DEF Matching
  <2> QED BY <1>8, <1>9, <1>10, <2>1
<1>11. CASE \A p \in m : p[1] # i /\ p[2] # o
  <2> DEFINE X == m \cup {pair}
  <2>1. rest = m /\ pair \notin m
    BY <1>1, <1>11
  <2>2. Cardinality(X) = Cardinality(m) + 1
    BY <1>9, <2>1, FS_AddElement
  <2>3. X \in SUBSET Possible(R) /\ Matching(X) /\ UpTo(X, n + 1) = D \cup {pair}
    <3>1. X \in SUBSET (rest \cup {pair}) /\ rest \subseteq X /\ pair \in X
      BY <2>1
    <3> HIDE DEF X, rest, pair
    <3> QED BY <1>8, <3>1
  <2>4. Cardinality(m) <= Cardinality(X)
    BY <1>9, <2>2
  <2> HIDE DEF X
  <2> QED BY <2>3, <2>4
<1>12. ASSUME NEW a \in m, a[1] = i \/ a[2] = o, pair \notin m,
              \A p \in m : p[1] = i \/ p[2] = o => p = a
       PROVE  \E x \in SUBSET Possible(R) :
                Matching(x) /\ UpTo(x, n + 1) = D \cup {pair} /\ Cardinality(m) <= Cardinality(x)
  <2> DEFINE X == (m \ {a}) \cup {pair}
  <2>1. Cardinality(X) = Cardinality(m)
    BY <1>9, <1>12, Replaced
  <2>2. X \in SUBSET (rest \cup {pair}) /\ rest \subseteq X /\ pair \in X
    BY <1>12
  <2>3. X \in SUBSET Possible(R) /\ Matching(X) /\ UpTo(X, n + 1) = D \cup {pair}
    <3> HIDE DEF X, rest, pair
    <3> QED BY <1>8, <2>2
  <2>4. Cardinality(m) <= Cardinality(X)
    BY <1>9, <2>1
  <2> HIDE DEF X
  <2> QED BY <2>3, <2>4
<1>13. ASSUME NEW a \in m, NEW b \in m, a[1] = i, b[2] = o, a # b, pair \notin m
       PROVE  \E x \in SUBSET Possible(R) :
                Matching(x) /\ UpTo(x, n + 1) = D \cup {pair} /\ Cardinality(m) <= Cardinality(x)
  <2> DEFINE swap == <<b[1], a[2]>>
             Y == rest \cup {pair}
             X == Y \cup {swap}
  <2>1. /\ \A p \in m : (p[1] = i => p = a) /\ (p[2] = o => p = b)
        /\ b[1] # i /\ a[2] # o
    BY <1>13 DEF Matching
  <2>2. a[2] \in FreeFor(R, i, D)
    <3>1. \A p \in D : p \in m /\ p # a
      BY <1>6, <1>13 DEF UpTo
    <3>2. \A p \in D : p[2] # a[2]
      BY <1>13, <3>1 DEF Matching
    <3>3. a[1].amount = 1 /\ a[2].amount = -1 /\ a[2].at - a[1].at \in -10..10 /\ a[2] \in R
      BY DEF Possible
    <3>4. a[2].type = "move"
      BY <3>3 DEF Book
    <3> QED BY <1>13, <3>2, <3>3, <3>4 DEF FreeFor, Fits
  <2>3. o.pos <= a[2].pos
    BY <2>2 DEF Taken
  <2>4. n < b[1].pos
    BY <1>2, <1>3, <1>5, <1>13
  <2>5. n + 1 < b[1].pos
    <3>1. b[1].pos # n + 1
      BY <1>2, <1>13, <2>1 DEF Taken, Book
    <3> QED BY <1>2, <2>4, <3>1
  <2>6. o.at <= a[2].at /\ i.at <= b[1].at
    <3>1. i.pos <= b[1].pos /\ o \in R /\ i \in R
      BY <1>2, <2>5 DEF Taken
    <3> QED BY <1>2, <2>3, <3>1 DEF Book
  <2>7. swap \in Possible(R)
    <3>1. PICK t1, t2, t3, t4 \in Nat : t1 = i.at /\ t2 = b[1].at /\ t3 = o.at /\ t4 = a[2].at
      BY <1>2 DEF Book, Taken
    <3>2. t4 - t1 \in -10..10 /\ t3 - t2 \in -10..10
      BY <1>13, <3>1 DEF Possible
    <3>3. t3 <= t4 /\ t1 <= t2
      BY <2>6, <3>1
    <3>4. t4 - t2 \in -10..10
      BY ONLY <3>2, <3>3, t1 \in Nat, t2 \in Nat, t3 \in Nat, t4 \in Nat
    <3>5. b[1].amount = 1 /\ a[2].amount = -1 /\ b[1] \in R /\ a[2] \in R
      BY DEF Possible
    <3> QED BY <3>1, <3>4, <3>5 DEF Possible
  <2>8. Y \in SUBSET Possible(R) /\ Matching(Y) /\ UpTo(Y, n + 1) = D \cup {pair}
    <3>1. Y \in SUBSET (rest \cup {pair}) /\ rest \subseteq Y /\ pair \in Y
      OBVIOUS
    <3> HIDE DEF Y, rest, pair
    <3> QED BY <1>8, <3>1
  <2>9. X \in SUBSET Possible(R)
    BY <2>7, <2>8
  <2>10. \A p \in Y : p[1] # b[1] /\ p[2] # a[2]
    <3>1. ASSUME NEW p \in rest PROVE p[1] # b[1] /\ p[2] # a[2]
      <4>1. p \in m /\ p # a /\ p # b
        BY <1>13
      <4> QED BY <1>13, <4>1 DEF Matching
    <3> QED BY <1>1, <2>1, <3>1
  <2>11. Matching(X)
    BY <2>8, <2>10 DEF Matching
  <2>12. UpTo(X, n + 1) = D \cup {pair}
    <3>1. ~(swap[1].pos <= n + 1)
      BY <1>2, <2>5
    <3> HIDE DEF swap, Y, pair
    <3> QED BY <2>8, <3>1 DEF UpTo
  <2>13. Cardinality(X) = Cardinality(m)
    <3> DEFINE Z == (m \ {a}) \cup {pair}
    <3>1. IsFiniteSet(Z) /\ Cardinality(Z) = Cardinality(m)
      BY <1>9, <1>13, Replaced
    <3>2. b \in Z /\ swap \notin Z
      <4>1. swap \notin m
        BY <1>13, <2>1 DEF Matching
      <4> QED BY <1>1, <1>13, <2>1, <4>1
    <3>3. X = (Z \ {b}) \cup {swap}
      <4>1. rest = (m \ {a}) \ {b}
        BY <1>13, <2>1
      <4>2. pair # b
        BY <1>13
      <4> HIDE DEF rest, pair, swap
      <4> QED BY <4>1, <4>2
    <3> HIDE DEF X, Z, swap
    <3> QED BY <3>1, <3>2, <3>3, Replaced
  <2>14. Cardinality(m) <= Cardinality(X)
    BY <1>9, <2>13
  <2> HIDE DEF X
  <2> QED BY <2>9, <2>11, <2>12, <2>14
<1>14. CASE pair \notin m /\ \E p \in m : p[1] = i \/ p[2] = o
  <2>1. PICK p \in m : p[1] = i \/ p[2] = o
    BY <1>14
  <2>2. CASE \A q \in m : q[1] = i \/ q[2] = o => q = p
    BY <1>12, <1>14, <2>1, <2>2
  <2>3. CASE \E q \in m : (q[1] = i \/ q[2] = o) /\ q # p
    <3>1. PICK q \in m : (q[1] = i \/ q[2] = o) /\ q # p
      BY <2>3
    <3>2. (p[1] = i /\ q[2] = o) \/ (q[1] = i /\ p[2] = o)
      BY <2>1, <3>1 DEF Matching
    <3> QED BY <1>13, <1>14, <3>1, <3>2
  <2> QED BY <2>2, <2>3
<1> QED BY <1>10, <1>11, <1>14

LEMMA PairExtends ==
  ASSUME NEW R, Book(R), NEW n \in Nat, n < Cardinality(R), NEW D, Extendable(R, D, n),
         NEW i, i = Incoming(R, n + 1)
  PROVE  Extendable(R, D \cup PairUp(R, i, D), n + 1)
<1>1. i \in R /\ i.pos = n + 1
  <2>1. Cardinality(R) \in Nat
    BY FS_CardinalityType DEF Book
  <2>2. \E r \in R : r.pos = n + 1
    BY <2>1 DEF Book
  <2> QED BY <2>2, Zenon DEF Incoming
<1>2. /\ D \in SUBSET Possible(R) /\ Matching(D) /\ \A p \in D : p[1].pos <= n
      /\ \A m \in SUBSET Possible(R) : Matching(m) =>
           \E x \in SUBSET Possible(R) : Matching(x) /\ UpTo(x, n) = D /\ Cardinality(m) <= Cardinality(x)
  BY DEF Extendable
<1>3. i.type = "move" /\ i.amount \in {-1, 1} /\ i.at \in Nat
  BY <1>1 DEF Book
<1>4. \A p \in Possible(R) : p[1] \in R /\ p[1].pos \in Nat /\ p[1].amount = 1
  BY DEF Possible, Book
<1>5. \A p \in Possible(R) : p[1].pos <= n + 1 <=> p[1].pos <= n \/ p[1] = i
  <2>1. ASSUME NEW p \in Possible(R) PROVE p[1].pos <= n + 1 <=> p[1].pos <= n \/ p[1] = i
    <3>1. p[1].pos = n + 1 <=> p[1] = i
      BY <1>1, <1>4 DEF Book
    <3> QED BY <1>4, <3>1
  <2> QED BY <2>1
<1>6. ASSUME PairUp(R, i, D) = {},
             \A x \in SUBSET Possible(R) : Matching(x) /\ UpTo(x, n) = D => \A p \in x : p[1] # i
      PROVE  Extendable(R, D, n + 1)
  <2>1. \A p \in D : p[1].pos <= n + 1
    BY <1>2, <1>5
  <2>2. ASSUME NEW x \in SUBSET Possible(R), Matching(x), UpTo(x, n) = D PROVE UpTo(x, n + 1) = D
    BY <1>5, <1>6, <2>2 DEF UpTo
  <2> QED BY <1>2, <2>1, <2>2 DEF Extendable
<1>7. CASE i.amount = -1
  <2>1. PairUp(R, i, D) = {}
    BY <1>7 DEF PairUp
  <2>2. \A p \in Possible(R) : p[1] # i
    BY <1>4, <1>7
  <2> QED BY <1>6, <2>1, <2>2
<1>8. CASE i.amount = 1 /\ FreeFor(R, i, D) = {}
  <2>1. PairUp(R, i, D) = {}
    BY <1>8 DEF PairUp
  <2>2. ASSUME NEW x \in SUBSET Possible(R), Matching(x), UpTo(x, n) = D, NEW p \in x, p[1] = i PROVE FALSE
    <3>1. p[2] \in R /\ p[2].amount = -1 /\ p[2].at - i.at \in -10..10
      BY <2>2 DEF Possible
    <3>2. Fits(i, p[2])
      BY <1>8, <3>1 DEF Fits, Book
    <3>3. PICK d \in D : d[2] = p[2]
      BY <1>8, <3>1, <3>2 DEF FreeFor
    <3>4. d \in x /\ d[1].pos <= n
      BY <2>2, <3>3 DEF UpTo
    <3>5. d # p
      BY <1>1, <2>2, <3>4
    <3> QED BY <2>2, <3>3, <3>4, <3>5 DEF Matching
  <2> QED BY <1>6, <2>1, <2>2
<1>9. CASE i.amount = 1 /\ FreeFor(R, i, D) # {}
  <2>1. PICK o : o = Finance!Partner(FreeFor(R, i, D))
    OBVIOUS
  <2>2. o \in FreeFor(R, i, D) /\ \A q \in FreeFor(R, i, D) : o.pos <= q.pos
    <3>1. FreeFor(R, i, D) \in SUBSET R
      BY DEF FreeFor
    <3> QED BY <1>9, <2>1, <3>1, FirstFree
  <2>3. PairUp(R, i, D) = {<<i, o>>}
    BY <1>3, <1>9, <2>1 DEF PairUp
  <2>4. Taken(R, D, n, i, o)
    BY <1>1, <1>9, <2>2 DEF Taken, FreeFor
  <2>5. ASSUME NEW m \in SUBSET Possible(R), Matching(m), UpTo(m, n) = D
        PROVE  \E x \in SUBSET Possible(R) :
                 Matching(x) /\ UpTo(x, n + 1) = D \cup {<<i, o>>} /\ Cardinality(m) <= Cardinality(x)
    BY <2>4, <2>5, Exchange
  <2>6. D \cup {<<i, o>>} \in SUBSET Possible(R)
    BY <1>1, <1>2, <1>9, <2>4 DEF Taken, Fits, Possible, Book
  <2>7. Matching(D \cup {<<i, o>>})
    <3>1. \A p \in D : p[1] # i /\ p[2] # o
      BY <1>1, <1>2, <2>4 DEF Taken
    <3> QED BY <1>2, <3>1 DEF Matching
  <2>8. \A p \in D \cup {<<i, o>>} : p[1].pos <= n + 1
    BY <1>1, <1>2, <1>5
  <2>9. ASSUME NEW m \in SUBSET Possible(R), Matching(m)
        PROVE  \E x \in SUBSET Possible(R) :
                 Matching(x) /\ UpTo(x, n + 1) = D \cup {<<i, o>>} /\ Cardinality(m) <= Cardinality(x)
    <3>1. PICK x \in SUBSET Possible(R) : Matching(x) /\ UpTo(x, n) = D /\ Cardinality(m) <= Cardinality(x)
      BY <1>2, <2>9
    <3>2. PICK y \in SUBSET Possible(R) :
             Matching(y) /\ UpTo(y, n + 1) = D \cup {<<i, o>>} /\ Cardinality(x) <= Cardinality(y)
      BY <2>5, <3>1
    <3>3. Cardinality(m) \in Nat /\ Cardinality(x) \in Nat /\ Cardinality(y) \in Nat
      BY PossibleFinite
    <3>4. Cardinality(m) <= Cardinality(y)
      BY <3>1, <3>2, <3>3
    <3> QED BY <3>2, <3>4
  <2> QED BY <2>3, <2>6, <2>7, <2>8, <2>9 DEF Extendable
<1> QED BY <1>3, <1>6, <1>7, <1>8, <1>9

\* What finPairs finds is a matching, and none is larger.
LEMMA GreedyIsMaximum ==
  ASSUME NEW R, Book(R)
  PROVE  /\ Finance!finPairs(R) \in SUBSET Possible(R) /\ Matching(Finance!finPairs(R))
         /\ \A m \in SUBSET Possible(R) : Matching(m) => Cardinality(m) <= Cardinality(Finance!finPairs(R))
<1>1. PICK N : N = Cardinality(R)
  OBVIOUS
<1>2. N \in Nat /\ IsFiniteSet(R)
  BY <1>1, FS_CardinalityType DEF Book
<1>3. PICK f : Pairing(f, R, N) /\ Finance!finPairs(R) = f[N]
  BY <1>1, <1>2, PairsUnfold
<1> DEFINE S == {n \in 0..N : Extendable(R, f[n], n)}
<1>4. 0 \in S
  <2>1. f[0] = {}
    BY <1>2, <1>3 DEF Pairing
  <2>2. \A x \in SUBSET Possible(R) : UpTo(x, 0) = {}
    BY DEF UpTo, Possible, Book
  <2>3. \A m \in SUBSET Possible(R) : Cardinality(m) <= Cardinality(m)
    BY PossibleFinite
  <2>4. Extendable(R, {}, 0)
    BY <2>2, <2>3 DEF Extendable, Matching
  <2> QED BY <1>2, <2>1, <2>4
<1>5. ASSUME NEW k \in 0..(N - 1), k \in S PROVE k + 1 \in S
  <2>1. PICK n \in Nat : n = k /\ n < N /\ n + 1 \in 0..N /\ n + 1 # 0 /\ (n + 1) - 1 = n
    BY <1>2
  <2>2. f[n + 1] = f[n] \cup PairUp(R, Incoming(R, n + 1), f[n])
    <3>1. f[n + 1] = IF n + 1 = 0 THEN {} ELSE f[(n + 1) - 1] \cup PairUp(R, Incoming(R, n + 1), f[(n + 1) - 1])
      BY <1>3, <2>1 DEF Pairing
    <3> QED BY <2>1, <3>1
  <2>3. Extendable(R, f[n], n)
    BY <1>5, <2>1
  <2>4. Extendable(R, f[n + 1], n + 1)
    BY <1>1, <2>1, <2>2, <2>3, PairExtends
  <2> QED BY <2>1, <2>4
<1>6. Extendable(R, f[N], N)
  <2>1. 0..N \subseteq S
    <3> HIDE DEF S
    <3> QED BY <1>2, <1>4, <1>5, Induction
  <2> QED BY <1>2, <2>1
<1>7. ASSUME NEW x \in SUBSET Possible(R) PROVE UpTo(x, N) = x
  BY <1>1 DEF UpTo, Possible, Book
<1> QED BY <1>3, <1>6, <1>7 DEF Extendable

\* Transfers are written down in the order of time.
LEMMA BookBegins == Book({})
<1>1. IsFiniteSet({}) /\ Cardinality({}) = 0
  BY FS_EmptySet
<1> QED BY <1>1 DEF Book

LEMMA TransferKeepsBook ==
  ASSUME Book(book), Transfer
  PROVE  Book(book')
<1>1. PICK N : N = Cardinality(book)
  OBVIOUS
<1>2. N \in Nat /\ IsFiniteSet(book)
  BY <1>1, FS_CardinalityType DEF Book
<1> DEFINE latest == CHOOSE r \in book : r.pos = Cardinality(book)
           last == IF book = {} THEN 0 ELSE latest.at
<1>4. last \in Nat /\ \A r \in book : r.at <= last
  <2>1. CASE book = {}
    BY <2>1
  <2>2. CASE book # {}
    <3>1. 1 <= N
      <4>1. N # 0
        BY <1>1, <1>2, <2>2, FS_EmptySet
      <4> QED BY <1>2, <4>1
    <3>2. \E r \in book : r.pos = Cardinality(book)
      BY <1>1, <1>2, <3>1 DEF Book
    <3>3. latest \in book /\ latest.pos = Cardinality(book)
      BY <3>2, Zenon
    <3>4. last = latest.at
      BY <2>2
    <3> HIDE DEF last, latest
    <3> QED BY <3>3, <3>4 DEF Book
  <2> QED BY <2>1, <2>2
<1>5. PICK a \in {-1, 1}, after \in {0, 6, 11} :
        book' = book \cup {[pos |-> N + 1, type |-> "move", amount |-> a, at |-> last + after]}
  BY <1>1 DEF Transfer
<1> HIDE DEF last
<1>6. PICK t : t = [pos |-> N + 1, type |-> "move", amount |-> a, at |-> last + after]
  OBVIOUS
<1>7. /\ t.pos = N + 1 /\ t.type = "move" /\ t.amount \in {-1, 1} /\ t.at \in Nat /\ last <= t.at
      /\ book' = book \cup {t}
  BY <1>4, <1>5, <1>6
<1>8. \A r \in book : r.pos \in Nat /\ r.pos <= N /\ r.at \in Nat /\ 1 <= r.pos
  BY <1>1 DEF Book
<1>9. IsFiniteSet(book') /\ Cardinality(book') = N + 1
  <2>1. t \notin book
    BY <1>2, <1>7, <1>8
  <2> QED BY <1>1, <1>2, <1>7, <2>1, FS_AddElement
<1>10. \A r \in book' : /\ r.type = "move" /\ r.amount \in {-1, 1} /\ r.at \in Nat
                        /\ r.pos \in Nat /\ 1 <= r.pos /\ r.pos <= N + 1
  BY <1>2, <1>7, <1>8 DEF Book
<1>11. ASSUME NEW n \in Nat, 1 <= n, n <= N + 1 PROVE \E r \in book' : r.pos = n
  <2>1. CASE n = N + 1
    BY <1>7, <2>1
  <2>2. CASE n # N + 1
    <3>1. n <= N
      BY <1>2, <1>11, <2>2
    <3>2. \E r \in book : r.pos = n
      BY <1>1, <1>11, <3>1 DEF Book
    <3> QED BY <1>7, <3>2
  <2> QED BY <2>1, <2>2
<1>12. ASSUME NEW r \in book', NEW s \in book'
       PROVE  (r.pos = s.pos => r = s) /\ (r.pos <= s.pos => r.at <= s.at)
  <2>1. CASE r \in book /\ s \in book
    BY <2>1 DEF Book
  <2>2. CASE r \in book /\ s = t
    BY <1>2, <1>4, <1>7, <1>8, <2>2
  <2>3. CASE r = t /\ s \in book
    BY <1>2, <1>7, <1>8, <2>3
  <2>4. CASE r = t /\ s = t
    BY <1>7, <2>4
  <2> QED BY <1>7, <2>1, <2>2, <2>3, <2>4
<1> QED BY <1>9, <1>10, <1>11, <1>12 DEF Book

LEMMA BookAlways == MCSpec => []Book(book)
<1>1. MCInit => Book(book)
  BY BookBegins DEF MCInit
<1>2. Book(book) /\ [MCNext]_allVars => Book(book)'
  <2>1. ASSUME Book(book), Transfer PROVE Book(book')
    BY <2>1, TransferKeepsBook
  <2>2. ASSUME Book(book), UNCHANGED book PROVE Book(book')
    BY <2>2
  <2> QED BY <2>1, <2>2 DEF MCNext, allVars
<1> QED BY <1>1, <1>2, PTL DEF MCSpec

LEMMA BookPairs == Book(book) => PairsMaximum
<1> SUFFICES ASSUME Book(book) PROVE PairsMaximum
  OBVIOUS
<1> QED BY GreedyIsMaximum DEF PairsMaximum, Possible, Matching

LEMMA FinanceSum == \A h, S : Finance!SumOver(h, S) = Food!SumOver(h, S)
BY DEF Finance!SumOver, Finance!MapThenSumSet, Finance!MapThenFoldSet,
       Food!SumOver, Food!MapThenSumSet, Food!MapThenFoldSet

\* The sum over what two sets without a common element hold together.
LEMMA SumUnion ==
  ASSUME NEW S, NEW T, IsFiniteSet(S), IsFiniteSet(T), S \cap T = {}, NEW h, \A x \in S \cup T : h[x] \in Int
  PROVE  Food!SumOver(h, S \cup T) = Food!SumOver(h, S) + Food!SumOver(h, T)
<1> DEFINE n == Cardinality(T)
           Joined(s) == Food!SumOver(h, S \cup s) = Food!SumOver(h, S) + Food!SumOver(h, s)
           K == {k \in 0..n : \A s \in AtMost(T, k) : Joined(s)}
<1>0. n \in Nat /\ Food!SumOver(h, S) \in Int
  BY SumAdds, FS_CardinalityType
<1>1. 0 \in K
  <2>1. ASSUME NEW s \in AtMost(T, 0) PROVE Joined(s)
    <3>1. s = {} /\ S \cup s = S
      BY Smaller DEF AtMost
    <3>2. Food!SumOver(h, {}) = 0
      BY SumAdds
    <3> QED BY <1>0, <3>1, <3>2
  <2> HIDE DEF Joined
  <2> QED BY <1>0, <2>1
<1>2. ASSUME NEW k \in 0..(n - 1), k \in K PROVE k + 1 \in K
  <2>0. \A s \in AtMost(T, k) : Joined(s)
    BY <1>2
  <2>1. ASSUME NEW s \in AtMost(T, k + 1) PROVE Joined(s)
    <3>1. s \in SUBSET T /\ Cardinality(s) <= k + 1 /\ Cardinality(s) \in Nat /\ IsFiniteSet(s)
      BY Smaller DEF AtMost
    <3>2. CASE s = {}
      <4>1. S \cup s = S /\ Food!SumOver(h, s) = 0
        BY <3>2, SumAdds
      <4>2. PICK u \in Int : u = Food!SumOver(h, S)
        BY <1>0
      <4> QED BY <4>1, <4>2
    <3>3. CASE s # {}
      <4>1. PICK x \in s : TRUE
        BY <3>3
      <4>2. PICK t : t = s \ {x}
        OBVIOUS
      <4>3. t \in AtMost(T, k)
        <5>1. t \in SUBSET T /\ Cardinality(t) = Cardinality(s) - 1
          BY <3>1, <4>1, <4>2, Smaller
        <5>2. Cardinality(t) <= k
          <6>1. Cardinality(s) \in Int /\ k \in Int /\ Cardinality(s) <= k + 1
            BY <1>0, <3>1
          <6> QED BY <5>1, <6>1
        <5> QED BY <5>1, <5>2 DEF AtMost
      <4>4. Food!SumOver(h, S \cup t) = Food!SumOver(h, S) + Food!SumOver(h, t)
        BY <2>0, <4>3
      <4>5. Food!SumOver(h, s) = h[x] + Food!SumOver(h, t) /\ Food!SumOver(h, t) \in Int
        <5>1. (\A y \in s : h[y] \in Int) /\ (\A y \in t : h[y] \in Int) /\ IsFiniteSet(t)
          BY <3>1, <4>2, FS_Subset
        <5> QED BY <3>1, <4>1, <4>2, <5>1, SumAdds
      <4>6. Food!SumOver(h, S \cup s) = h[x] + Food!SumOver(h, S \cup t)
        <5>1. (\A y \in S \cup s : h[y] \in Int) /\ IsFiniteSet(S \cup s) /\ x \in S \cup s
          BY <3>1, <4>1, FS_Union
        <5>2. (S \cup s) \ {x} = S \cup t
          BY <3>1, <4>1, <4>2
        <5> QED BY <5>1, <5>2, SumAdds
      <4>7. h[x] \in Int
        BY <3>1, <4>1
      <4> QED BY <1>0, <4>4, <4>5, <4>6, <4>7
    <3> QED BY <3>2, <3>3
  <2> HIDE DEF Joined
  <2> QED BY <1>0, <2>1
<1>3. 0..n \subseteq K
  <2> HIDE DEF K, n
  <2> QED BY <1>0, <1>1, <1>2, Induction
<1>4. Joined(T)
  <2>1. n \in K /\ T \in AtMost(T, n)
    BY <1>0, <1>3 DEF AtMost
  <2> HIDE DEF Joined
  <2> QED BY <2>1
<1> QED BY <1>4

\* The sum of the opposites is the opposite of the sum.
LEMMA SumOpposite ==
  ASSUME NEW S, IsFiniteSet(S), NEW h, NEW g, \A x \in S : h[x] \in Int /\ g[x] = -h[x]
  PROVE  Food!SumOver(g, S) = -Food!SumOver(h, S)
<1> DEFINE n == Cardinality(S)
           Opposite(s) == Food!SumOver(g, s) = -Food!SumOver(h, s)
           K == {k \in 0..n : \A s \in AtMost(S, k) : Opposite(s)}
<1>0. n \in Nat
  BY FS_CardinalityType
<1>1. ASSUME NEW s \in SUBSET S
      PROVE  /\ IsFiniteSet(s) /\ Food!SumOver(h, s) \in Int /\ Food!SumOver(h, {}) = 0 /\ Food!SumOver(g, {}) = 0
             /\ \A x \in s : /\ Food!SumOver(h, s) = h[x] + Food!SumOver(h, s \ {x})
                             /\ Food!SumOver(g, s) = g[x] + Food!SumOver(g, s \ {x})
  <2>1. IsFiniteSet(s) /\ (\A x \in s : h[x] \in Int) /\ (\A x \in s : g[x] \in Int)
    BY FS_Subset
  <2> QED BY <2>1, SumAdds
<1>2. 0 \in K
  <2>1. ASSUME NEW s \in AtMost(S, 0) PROVE Opposite(s)
    <3>1. s = {}
      BY Smaller DEF AtMost
    <3>2. Food!SumOver(h, {}) = 0 /\ Food!SumOver(g, {}) = 0
      BY <1>1
    <3> QED BY <3>1, <3>2
  <2> HIDE DEF Opposite
  <2> QED BY <1>0, <2>1
<1>3. ASSUME NEW k \in 0..(n - 1), k \in K PROVE k + 1 \in K
  <2>0. \A s \in AtMost(S, k) : Opposite(s)
    BY <1>3
  <2>1. ASSUME NEW s \in AtMost(S, k + 1) PROVE Opposite(s)
    <3>1. s \in SUBSET S /\ Cardinality(s) <= k + 1 /\ Cardinality(s) \in Nat
      BY Smaller DEF AtMost
    <3>2. CASE s = {}
      BY <1>1, <3>2
    <3>3. CASE s # {}
      <4>1. PICK x \in s : TRUE
        BY <3>3
      <4>2. PICK t : t = s \ {x}
        OBVIOUS
      <4>3. t \in AtMost(S, k)
        <5>1. t \in SUBSET S /\ Cardinality(t) = Cardinality(s) - 1
          BY <3>1, <4>1, <4>2, Smaller
        <5>2. Cardinality(t) <= k
          BY <1>0, <3>1, <5>1
        <5> QED BY <5>1, <5>2 DEF AtMost
      <4>4. Food!SumOver(g, t) = -Food!SumOver(h, t)
        BY <2>0, <4>3
      <4>5. Food!SumOver(h, s) = h[x] + Food!SumOver(h, t) /\ Food!SumOver(g, s) = g[x] + Food!SumOver(g, t)
        BY <1>1, <3>1, <4>1, <4>2
      <4>6. Food!SumOver(h, t) \in Int /\ h[x] \in Int /\ g[x] = -h[x]
        BY <1>1, <3>1, <4>1, <4>3 DEF AtMost
      <4> QED BY <4>4, <4>5, <4>6
    <3> QED BY <3>2, <3>3
  <2> HIDE DEF Opposite
  <2> QED BY <1>0, <2>1
<1>4. 0..n \subseteq K
  <2> HIDE DEF K, n
  <2> QED BY <1>0, <1>2, <1>3, Induction
<1>5. Opposite(S)
  <2>1. n \in K /\ S \in AtMost(S, n)
    BY <1>0, <1>4 DEF AtMost
  <2> HIDE DEF Opposite
  <2> QED BY <2>1
<1> QED BY <1>5

-----------------------------------------------------------------------------
(***************************************************************************)
(* What a month's lists show.                                              *)
(***************************************************************************)

\* The rows, as what the overview does with them sees them.
Payments(rows) == IsFiniteSet(rows) /\ \A r \in rows : r.amount \in Int

\* Payments the overview takes for the same are both unexpected or neither.
LEMMA SameIsUnexpected ==
  ASSUME NEW rows, Finance!OneCategory(rows), NEW keys, NEW m,
         NEW r \in rows, r \in Finance!InMonths(Finance!Free(rows, keys), {m}),
         NEW q \in Finance!Unexpected(rows, keys, m), Finance!Listed(r, q)
  PROVE  r \in Finance!Unexpected(rows, keys, m)
<1>1. q \in rows /\ q \in Finance!InMonths(Finance!Free(rows, keys), {m})
  BY DEF Finance!Unexpected, Finance!InMonths, Finance!Free
<1>2. r.key = q.key /\ r.amount = q.amount /\ r.cat = q.cat
  BY <1>1 DEF Finance!Listed, Finance!OneCategory
<1>3. Finance!Has(r.content, "bill") <=> Finance!Has(q.content, "bill")
  BY <1>1 DEF Finance!Listed, Finance!OneCategory
<1> QED BY <1>2, <1>3 DEF Finance!Unexpected

LEMMA ListsOfMonth ==
  ASSUME NEW rows, Payments(rows), Finance!OneCategory(rows), NEW keys, NEW m
  PROVE  Finance!Variable(rows, keys, m)
           = Finance!Total(Finance!Unexpected(rows, keys, m)) + Finance!Total(Finance!Regular(rows, keys, m))
             - Finance!Total({r \in Finance!InMonths(rows, {m}) : r.kind = "spend" /\ r.amount > 0 /\ r.key \notin keys})
<1> DEFINE A == {r \in Finance!InMonths(rows, {m}) : r.kind = "spend" /\ r.key \notin keys}
           U == Finance!Unexpected(rows, keys, m)
           G == Finance!Regular(rows, keys, m)
           R == {r \in Finance!InMonths(rows, {m}) : r.kind = "spend" /\ r.amount > 0 /\ r.key \notin keys}
           h == [r \in A |-> -r.amount]
           Abs(s) == [r \in s |-> IF r.amount < 0 THEN -r.amount ELSE r.amount]
<1>1. \A r \in A : r \in rows /\ r.amount \in Int /\ h[r] = -r.amount
  BY DEF Payments, Finance!InMonths
<1>2. A \in SUBSET rows /\ IsFiniteSet(A)
  <2>1. A \in SUBSET rows
    BY DEF Finance!InMonths
  <2> HIDE DEF A
  <2> QED BY <2>1, FS_Subset DEF Payments
<1>3. \A r : r \in Finance!InMonths(Finance!Free(rows, keys), {m}) <=> r \in A /\ r.amount < 0
  BY DEF Finance!InMonths, Finance!Free
<1>4. U \subseteq A /\ \A r \in U : r.amount < 0
  BY <1>3 DEF Finance!Unexpected, Finance!InMonths
<1>5. G = {r \in A : r.amount < 0 /\ \A q \in U : ~Finance!Listed(r, q)}
  BY <1>3 DEF Finance!Regular
<1>6. R = {r \in A : r.amount > 0}
  OBVIOUS
<1> HIDE DEF A, U, G, R
<1>7. ASSUME NEW r \in A, r.amount < 0 PROVE r \in G <=> r \notin U
  <2>1. r \in U => Finance!Listed(r, r)
    BY DEF Finance!Listed
  <2>2. ASSUME NEW q \in U, Finance!Listed(r, q) PROVE r \in U
    <3>1. r \in rows /\ r \in Finance!InMonths(Finance!Free(rows, keys), {m})
      BY <1>1, <1>3, <1>7
    <3> QED BY <2>2, <3>1, SameIsUnexpected DEF U
  <2> QED BY <1>5, <1>7, <2>1, <2>2
<1>8. /\ U \subseteq A /\ G \subseteq A /\ R \subseteq A /\ U \cap G = {} /\ (U \cup G) \cap R = {}
      /\ \A r \in A \ ((U \cup G) \cup R) : h[r] = 0
  <2>1. U \cap G = {}
    BY <1>4, <1>5, <1>7
  <2>2. (U \cup G) \cap R = {}
    BY <1>1, <1>4, <1>5, <1>6
  <2>3. ASSUME NEW r \in A \ ((U \cup G) \cup R) PROVE h[r] = 0
    <3>1. ~(r.amount < 0) /\ ~(r.amount > 0)
      BY <1>6, <1>7
    <3> QED BY <1>1, <3>1
  <2> HIDE DEF h
  <2> QED BY <1>4, <1>5, <1>6, <2>1, <2>2, <2>3
<1>9. IsFiniteSet(U) /\ IsFiniteSet(G) /\ IsFiniteSet(R) /\ IsFiniteSet(U \cup G) /\ IsFiniteSet((U \cup G) \cup R)
  BY <1>2, <1>8, FS_Subset, FS_Union
<1>10. \A r \in A : h[r] \in Int
  BY <1>1
<1>11. Food!SumOver(h, A) = Food!SumOver(h, U) + Food!SumOver(h, G) + Food!SumOver(h, R)
  <2>1. Food!SumOver(h, A) = Food!SumOver(h, (U \cup G) \cup R)
    <3> HIDE DEF h
    <3>1. (U \cup G) \cup R \subseteq A
      BY <1>8
    <3> QED BY <1>2, <1>8, <1>10, <3>1, SumZero
  <2>2. Food!SumOver(h, (U \cup G) \cup R) = Food!SumOver(h, U \cup G) + Food!SumOver(h, R)
    <3> HIDE DEF h
    <3>1. \A r \in (U \cup G) \cup R : h[r] \in Int
      BY <1>8, <1>10
    <3> QED BY <1>8, <1>9, <3>1, SumUnion
  <2>3. Food!SumOver(h, U \cup G) = Food!SumOver(h, U) + Food!SumOver(h, G)
    <3> HIDE DEF h
    <3>1. \A r \in U \cup G : h[r] \in Int
      BY <1>8, <1>10
    <3> QED BY <1>8, <1>9, <3>1, SumUnion
  <2> QED BY <2>1, <2>2, <2>3
<1>12. Food!SumOver(h, U) = Food!SumOver(Abs(U), U)
  <2>1. \A r \in U : h[r] = Abs(U)[r]
    BY <1>1, <1>4
  <2> HIDE DEF h, Abs
  <2> QED BY <1>9, <2>1, SumSame
<1>13. Food!SumOver(h, G) = Food!SumOver(Abs(G), G)
  <2>1. \A r \in G : h[r] = Abs(G)[r]
    BY <1>1, <1>5
  <2> HIDE DEF h, Abs
  <2> QED BY <1>9, <2>1, SumSame
<1>14. Food!SumOver(h, R) = -Food!SumOver(Abs(R), R) /\ Food!SumOver(Abs(R), R) \in Int
  <2>1. \A r \in R : Abs(R)[r] \in Int /\ h[r] = -Abs(R)[r]
    BY <1>1, <1>6
  <2> HIDE DEF h, Abs
  <2> QED BY <1>9, <2>1, SumOpposite, SumAdds
<1>15. Food!SumOver(Abs(U), U) \in Int /\ Food!SumOver(Abs(G), G) \in Int
  <2>1. (\A r \in U : Abs(U)[r] \in Int) /\ (\A r \in G : Abs(G)[r] \in Int)
    BY <1>1, <1>8
  <2> HIDE DEF Abs
  <2> QED BY <1>9, <2>1, SumAdds
<1>16. Finance!Variable(rows, keys, m) = Food!SumOver(h, A)
  BY FinanceSum DEF Finance!Variable, A
<1>17. \A s : Finance!Total(s) = Food!SumOver(Abs(s), s)
  BY FinanceSum DEF Finance!Total
<1> HIDE DEF h, Abs
<1>18. Food!SumOver(h, A) = Finance!Total(U) + Finance!Total(G) - Finance!Total(R)
  <2>1. PICK u, g, r \in Int : u = Food!SumOver(Abs(U), U) /\ g = Food!SumOver(Abs(G), G) /\ r = Food!SumOver(Abs(R), R)
    BY <1>14, <1>15
  <2>2. Food!SumOver(h, A) = u + g + (-r)
    BY <1>11, <1>12, <1>13, <1>14, <2>1
  <2>3. Finance!Total(U) = u /\ Finance!Total(G) = g /\ Finance!Total(R) = r
    BY <1>17, <2>1
  <2>4. u + g + (-r) = u + g - r
    BY ONLY u \in Int, g \in Int, r \in Int
  <2> QED BY <2>2, <2>3, <2>4
<1> QED BY <1>16, <1>18 DEF U, G, R

\* A set each of whose members a function gives for one of a finite set.
LEMMA ImageFinite ==
  ASSUME NEW S, IsFiniteSet(S), NEW f, NEW T, \A t \in T : \E x \in S : t = f[x]
  PROVE  IsFiniteSet(T)
<1> DEFINE I == {f[x] : x \in S}
           g == [x \in S |-> f[x]]
<1>1. g \in Surjection(S, I)
  BY DEF Surjection
<1>2. T \in SUBSET I
  OBVIOUS
<1> HIDE DEF g, I
<1> QED BY <1>1, <1>2, FS_Surjection, FS_Subset

-----------------------------------------------------------------------------
(***************************************************************************)
(* The ledger: imports that overlap (FinanceImport, finTxHash).            *)
(***************************************************************************)

\* Rows i of export e that are one transaction but for the category, the row as
\* it is stored, and what it is known by.
Copies(e, h) == {i \in DOMAIN e.rows : Finance!Hashed(e.rows[i]) = h}
RowIn(e, i) == [owner |-> e.owner, row |-> e.rows[i], n |-> Finance!finTxHash(e.rows, i)]
HashOf(r) == <<r.owner, Finance!Hashed(r.row), r.n>>

\* What is stored is of an export, once, and all of every export is stored.
LedgerInv ==
  /\ \E n \in Nat : DOMAIN tx \subseteq 1..n
  /\ imported \subseteq FinExports
  /\ \A x \in DOMAIN tx : \E e \in imported : \E i \in DOMAIN e.rows : tx[x] = RowIn(e, i)
  /\ \A x, y \in DOMAIN tx : HashOf(tx[x]) = HashOf(tx[y]) => x = y
  /\ \A e \in imported : \A i \in DOMAIN e.rows : \E x \in DOMAIN tx : HashOf(tx[x]) = HashOf(RowIn(e, i))

\* A use that is written down is of a wallet there is.
UsesInv ==
  /\ IsFiniteSet(DOMAIN uses)
  /\ \A u \in DOMAIN uses : uses[u].wallet \in DOMAIN wallets /\ uses[u].amount \in Int

\* What the assumption says of one export.
LEMMA ExportLines ==
  ASSUME NEW e \in FinExports
  PROVE  \E b \in Nat : DOMAIN e.rows = 1..b /\ \A i \in DOMAIN e.rows : e.rows[i].amount \in Int
<1> DEFINE R == [at : Int, type : {"in", "out", "move"}, content : DOMAIN FinContents,
                 cat : STRING, amount : Int, method : STRING]
<1>1. e.rows \in Seq(R)
  BY FinanceAssumption
<1>2. \A r \in R : r.amount \in Int
  OBVIOUS
<1> HIDE DEF R
<1>3. Len(e.rows) \in Nat /\ DOMAIN e.rows = 1..Len(e.rows) /\ \A i \in DOMAIN e.rows : e.rows[i] \in R
  BY <1>1
<1> QED BY <1>2, <1>3

\* The numbers a file gives the rows that are equal.
LEMMA NumbersOfCopies ==
  ASSUME NEW e \in FinExports, NEW h
  PROVE  /\ IsFiniteSet(Copies(e, h)) /\ Cardinality(Copies(e, h)) \in Nat
         /\ {Finance!finTxHash(e.rows, i) : i \in Copies(e, h)} = 1..Cardinality(Copies(e, h))
<1>1. PICK b \in Nat : DOMAIN e.rows = 1..b
  BY ExportLines
<1>2. PICK I : I = Copies(e, h)
  OBVIOUS
<1>3. I \in SUBSET (1..b) /\ I \in SUBSET Nat
  BY <1>1, <1>2 DEF Copies
<1>4. IsFiniteSet(I) /\ Cardinality(I) \in Nat
  <2>1. IsFiniteSet(1..b)
    BY FS_Interval
  <2> QED BY <1>3, <2>1, FS_Subset, FS_CardinalityType
<1>5. PICK c \in Nat : c = Cardinality(I)
  BY <1>4
<1>6. ASSUME NEW i \in I PROVE Finance!finTxHash(e.rows, i) = RankOf(I, i)
  <2>1. {j \in 1..i : Finance!Hashed(e.rows[j]) = Finance!Hashed(e.rows[i])} = {j \in I : j <= i}
    BY <1>1, <1>2, <1>3 DEF Copies
  <2> QED BY <2>1, FinanceCount DEF Finance!finTxHash, RankOf
<1>7. ASSUME NEW i \in I
      PROVE  /\ RankOf(I, i) \in 1..c
             /\ RankOf(I, i) = Cardinality({j \in I : j < i}) + 1
  <2> DEFINE below == {j \in I : j < i}
             upTo == {j \in I : j <= i}
  <2>0. i \in Nat /\ \A j \in I : j \in Nat /\ (j <= i <=> j < i \/ j = i)
    BY <1>3
  <2>1. upTo = below \cup {i} /\ i \notin below /\ below \in SUBSET I /\ upTo \in SUBSET I
    <3>1. ASSUME NEW j PROVE j \in upTo <=> j \in below \cup {i}
      BY <2>0
    <3>2. i \notin below
      BY <2>0
    <3> HIDE DEF upTo
    <3>3. upTo = below \cup {i}
      BY <3>1
    <3>4. upTo \in SUBSET I /\ below \in SUBSET I
      BY DEF upTo
    <3> QED BY <3>2, <3>3, <3>4
  <2>2. RankOf(I, i) = Cardinality(upTo)
    BY DEF RankOf
  <2> HIDE DEF below, upTo
  <2>3. IsFiniteSet(below) /\ Cardinality(upTo) <= c /\ Cardinality(below) \in Nat
    BY <1>4, <1>5, <2>1, FS_Subset, FS_CardinalityType
  <2>4. Cardinality(upTo) = Cardinality(below) + 1
    BY <2>1, <2>3, FS_AddElement
  <2>5. Cardinality(upTo) \in 1..c
    BY <2>3, <2>4
  <2> QED BY <2>2, <2>4, <2>5 DEF below
<1>8. ASSUME NEW n \in 1..c PROVE \E i \in I : Finance!finTxHash(e.rows, i) = n
  <2>1. n - 1 \in Nat /\ n - 1 < Cardinality(I)
    BY <1>5
  <2>2. PICK i \in I : Cardinality({j \in I : j < i}) = n - 1
    BY <1>3, <1>4, <2>1, RankedMember
  <2>3. Finance!finTxHash(e.rows, i) = n - 1 + 1
    BY <1>6, <1>7, <2>2
  <2>4. n - 1 + 1 = n
    OBVIOUS
  <2> QED BY <2>3, <2>4
<1> QED BY <1>2, <1>4, <1>5, <1>6, <1>7, <1>8

\* A stored row, taken apart.
LEMMA HashParts ==
  ASSUME NEW e, NEW i
  PROVE  /\ RowIn(e, i).owner = e.owner /\ RowIn(e, i).row = e.rows[i]
         /\ RowIn(e, i).n = Finance!finTxHash(e.rows, i)
BY DEF RowIn

\* A table that holds one row for every number up to the highest holds as many
\* as the highest.
LEMMA UnionOfFiles == LedgerInv => Finance!ImportUnion
<1> SUFFICES ASSUME LedgerInv, NEW o \in People,
                    NEW h \in UNION {{Finance!Hashed(e.rows[i]) : i \in DOMAIN e.rows} :
                                      e \in {f \in imported : f.owner = o}}
             PROVE  Finance!Cardinality({x \in DOMAIN tx : tx[x].owner = o /\ Finance!Hashed(tx[x].row) = h})
                      = Finance!Max({Finance!Cardinality({i \in DOMAIN e.rows : Finance!Hashed(e.rows[i]) = h}) :
                                       e \in {f \in imported : f.owner = o}})
  BY Zenon DEF Finance!ImportUnion
<1> DEFINE mine == {f \in imported : f.owner = o}
           X == {x \in DOMAIN tx : tx[x].owner = o /\ Finance!Hashed(tx[x].row) = h}
           count(e) == Cardinality(Copies(e, h))
           C == {count(e) : e \in mine}
           g == [x \in X |-> tx[x].n]
           N == {g[x] : x \in X}
<1>1. mine \subseteq FinExports /\ mine # {}
  BY DEF LedgerInv
<1>2. IsFiniteSet(X)
  <2>1. PICK n \in Nat : DOMAIN tx \subseteq 1..n
    BY DEF LedgerInv
  <2>2. X \in SUBSET (1..n)
    BY <2>1
  <2>3. IsFiniteSet(1..n)
    BY FS_Interval
  <2> HIDE DEF X
  <2> QED BY <2>2, <2>3, FS_Subset
<1>3. ASSUME NEW x \in X PROVE \E e \in mine : g[x] \in 1..count(e)
  <2>1. PICK e \in imported : \E i \in DOMAIN e.rows : tx[x] = RowIn(e, i)
    BY DEF LedgerInv
  <2>2. PICK i \in DOMAIN e.rows : tx[x] = RowIn(e, i)
    BY <2>1
  <2>3. e \in mine /\ i \in Copies(e, h) /\ g[x] = Finance!finTxHash(e.rows, i)
    BY <2>2, HashParts DEF Copies
  <2>4. g[x] \in 1..count(e)
    <3> HIDE DEF g, mine
    <3> QED BY <1>1, <2>3, NumbersOfCopies
  <2> QED BY <2>3, <2>4
<1>4. ASSUME NEW e \in mine, NEW n \in 1..count(e) PROVE \E x \in X : g[x] = n
  <2>1. e \in FinExports
    BY <1>1
  <2>2. PICK i \in Copies(e, h) : n = Finance!finTxHash(e.rows, i)
    <3> HIDE DEF mine
    <3> QED BY <2>1, NumbersOfCopies
  <2>3. PICK x \in DOMAIN tx : HashOf(tx[x]) = HashOf(RowIn(e, i))
    BY DEF LedgerInv, Copies
  <2>4. x \in X /\ tx[x].n = n
    BY <2>2, <2>3, HashParts DEF HashOf, Copies
  <2> QED BY <2>4
<1>5. \A x, y \in X : g[x] = g[y] => x = y
  BY DEF LedgerInv, HashOf
<1>6. IsFiniteSet(N) /\ Cardinality(N) = Cardinality(X)
  <2>1. g \in Bijection(X, N)
    <3>1. g \in [X -> N] /\ \A t \in N : \E x \in X : g[x] = t
      OBVIOUS
    <3> HIDE DEF g, N, X
    <3>2. g \in Surjection(X, N)
      BY <3>1 DEF Surjection
    <3>3. g \in Injection(X, N)
      BY <1>5, <3>1 DEF Injection, IsInjective
    <3> QED BY <3>2, <3>3 DEF Bijection
  <2> HIDE DEF g, N, X
  <2>2. ExistsBijection(X, N)
    BY <2>1 DEF ExistsBijection
  <2> QED BY <1>2, <2>2, FS_Bijection
<1>7. \A e \in mine : count(e) \in Nat /\ \A n \in 1..count(e) : n \in N
  <2>1. ASSUME NEW e \in mine PROVE count(e) \in Nat
    <3>1. e \in FinExports
      BY <1>1
    <3> HIDE DEF mine
    <3> QED BY <3>1, NumbersOfCopies
  <2>2. ASSUME NEW e \in mine, NEW n \in 1..count(e) PROVE n \in N
    BY <1>4, <2>2
  <2> HIDE DEF mine, N, count
  <2> QED BY <2>1, <2>2
<1>8. \A n \in N : \E e \in mine : n \in 1..count(e)
  BY <1>3
<1> HIDE DEF mine, X, g, N, count
<1>9. PICK c \in Nat : c = Cardinality(N)
  BY <1>6, FS_CardinalityType
<1>10. C \in SUBSET Nat /\ C # {} /\ \A k \in C : k <= c
  <2>1. ASSUME NEW e \in mine PROVE count(e) <= c
    <3>1. PICK k \in Nat : k = count(e)
      BY <1>7
    <3>2. 1..k \in SUBSET N
      BY <1>7, <3>1
    <3>3. Cardinality(1..k) <= c
      BY <1>6, <1>9, <3>2, FS_Subset
    <3>4. Cardinality(1..k) = k
      BY Numbers
    <3> QED BY <3>1, <3>3, <3>4
  <2> QED BY <1>1, <1>7, <2>1
<1>11. PICK top \in C : \A k \in C : k <= top
  <2> HIDE DEF C
  <2> QED BY <1>10, GreatestOne
<1>12. N = 1..top /\ top \in Nat
  <2>1. PICK e \in mine : top = count(e)
    OBVIOUS
  <2>2. top \in Nat /\ 1..top \subseteq N
    BY <1>7, <2>1
  <2>3. ASSUME NEW n \in N PROVE n \in 1..top
    <3>1. PICK f \in mine : n \in 1..count(f)
      BY <1>8
    <3>2. count(f) \in Nat /\ count(f) <= top
      BY <1>7, <1>11
    <3> QED BY <2>2, <3>1, <3>2
  <2> QED BY <2>2, <2>3
<1>13. Cardinality(X) = top
  BY <1>6, <1>12, Numbers
<1>14. Finance!Max(C) = top
  <2>1. PICK m : m = Finance!Max(C)
    OBVIOUS
  <2>2. \A k \in C : top >= k
    BY <1>10, <1>11
  <2> HIDE DEF C
  <2>3. m \in C /\ \A k \in C : m >= k
    BY <2>1, <2>2, Zenon DEF Finance!Max
  <2> QED BY <1>10, <1>11, <2>1, <2>3
<1>15. Finance!Cardinality(X) = Finance!Max(C)
  BY <1>13, <1>14, FinanceCount
<1> QED BY <1>15, FinanceCount DEF X, C, mine, count, Copies

\* The next id of a table is above those it holds.
LEMMA NextRowNew ==
  ASSUME NEW f, NEW n \in Nat, DOMAIN f \subseteq 1..n
  PROVE  Finance!NextRow(f) - 1 \in Nat /\ \A x \in DOMAIN f : x \in 1..(Finance!NextRow(f) - 1)
<1>1. CASE DOMAIN f = {}
  <2>1. Finance!NextRow(f) = 1
    BY <1>1 DEF Finance!NextRow
  <2> QED BY <1>1, <2>1
<1>2. CASE DOMAIN f # {}
  <2>1. PICK S : S = DOMAIN f
    OBVIOUS
  <2>2. S \in SUBSET Nat /\ S # {} /\ (\A y \in S : y <= n) /\ (\A y \in S : y >= 1)
    BY <1>2, <2>1
  <2>3. PICK x \in S : \A y \in S : x >= y
    <3>1. \E x \in S : \A y \in S : y <= x
      BY <2>2, GreatestOne
    <3> QED BY <2>2, <3>1
  <2>4. PICK m : m = Finance!Max(S)
    OBVIOUS
  <2>5. m \in S /\ \A y \in S : m >= y
    BY <2>3, <2>4, Zenon DEF Finance!Max
  <2>6. Finance!NextRow(f) = m + 1
    BY <1>2, <2>1, <2>4 DEF Finance!NextRow
  <2>7. m \in Nat /\ m + 1 - 1 = m /\ \A y \in S : y \in 1..m
    BY <2>2, <2>5
  <2> QED BY <2>1, <2>6, <2>7
<1> QED BY <1>1, <1>2

\* The rows of an export that the table does not hold, the first of each kind.
NewRows(e) ==
  {i \in DOMAIN e.rows : /\ \A x \in DOMAIN tx : HashOf(tx[x]) # HashOf(RowIn(e, i))
                         /\ \A j \in 1..(i - 1) : HashOf(RowIn(e, j)) # HashOf(RowIn(e, i))}
NewTxId(new, i) == Finance!NextRow(tx) - 1 + RankOf(new, i)

\* Two rows are known by the same when owner, row and number agree.
LEMMA SameHash ==
  ASSUME NEW r, NEW q, r = [owner |-> r.owner, row |-> r.row, n |-> r.n], q = [owner |-> q.owner, row |-> q.row, n |-> q.n]
  PROVE  [r EXCEPT !.row = Finance!Hashed(@)] = [q EXCEPT !.row = Finance!Hashed(@)] <=> HashOf(r) = HashOf(q)
<1> DEFINE R == [owner |-> r.owner, row |-> Finance!Hashed(r.row), n |-> r.n]
           Q == [owner |-> q.owner, row |-> Finance!Hashed(q.row), n |-> q.n]
<1>1. [r EXCEPT !.row = Finance!Hashed(@)] = R
  OBVIOUS
<1>2. [q EXCEPT !.row = Finance!Hashed(@)] = Q
  OBVIOUS
<1>3. /\ R.owner = r.owner /\ R.row = Finance!Hashed(r.row) /\ R.n = r.n
      /\ Q.owner = q.owner /\ Q.row = Finance!Hashed(q.row) /\ Q.n = q.n
  OBVIOUS
<1>4. R = Q <=> r.owner = q.owner /\ Finance!Hashed(r.row) = Finance!Hashed(q.row) /\ r.n = q.n
  <2> HIDE DEF R, Q
  <2>1. R = Q => r.owner = q.owner /\ Finance!Hashed(r.row) = Finance!Hashed(q.row) /\ r.n = q.n
    BY <1>3
  <2> QED BY <2>1 DEF R, Q
<1>5. HashOf(r) = HashOf(q) <=> r.owner = q.owner /\ Finance!Hashed(r.row) = Finance!Hashed(q.row) /\ r.n = q.n
  BY DEF HashOf
<1> HIDE DEF R, Q
<1> QED BY <1>1, <1>2, <1>4, <1>5

\* An import adds the new rows under ids of their own.
Stores(e, new) ==
  /\ imported' = imported \cup {e}
  /\ DOMAIN tx' = DOMAIN tx \cup {NewTxId(new, i) : i \in new}
  /\ \A x \in DOMAIN tx : tx'[x] = tx[x]
  /\ \A i \in new : NewTxId(new, i) \notin DOMAIN tx /\ tx'[NewTxId(new, i)] = RowIn(e, i)
  /\ \E n \in Nat : DOMAIN tx' \subseteq 1..n

LEMMA ImportStores == ASSUME LedgerInv, NEW e \in FinExports, Finance!FinanceImport(e) PROVE Stores(e, NewRows(e))
<1> DEFINE row(i) == RowIn(e, i)
           hash(r) == [r EXCEPT !.row = Finance!Hashed(@)]
           stored == {hash(tx[x]) : x \in DOMAIN tx}
           fresh == {i \in DOMAIN e.rows : /\ hash(row(i)) \notin stored
                                           /\ \A j \in 1..(i - 1) : hash(row(j)) # hash(row(i))}
<1>1. PICK new : new = NewRows(e)
  OBVIOUS
<1>2. \A i : row(i) = [owner |-> row(i).owner, row |-> row(i).row, n |-> row(i).n]
  BY DEF RowIn
<1>3. \A x \in DOMAIN tx : tx[x] = [owner |-> tx[x].owner, row |-> tx[x].row, n |-> tx[x].n]
  <2>1. ASSUME NEW x \in DOMAIN tx PROVE tx[x] = [owner |-> tx[x].owner, row |-> tx[x].row, n |-> tx[x].n]
    <3>1. PICK f \in imported : \E i \in DOMAIN f.rows : tx[x] = RowIn(f, i)
      BY DEF LedgerInv
    <3>2. PICK i \in DOMAIN f.rows : tx[x] = RowIn(f, i)
      BY <3>1
    <3> QED BY <3>2 DEF RowIn
  <2> QED BY <2>1
<1>4. fresh = new
  <2>1. ASSUME NEW i, NEW x \in DOMAIN tx PROVE hash(tx[x]) = hash(row(i)) <=> HashOf(tx[x]) = HashOf(row(i))
    <3>1. PICK r, q : r = tx[x] /\ q = row(i)
      OBVIOUS
    <3>2. r = [owner |-> r.owner, row |-> r.row, n |-> r.n] /\ q = [owner |-> q.owner, row |-> q.row, n |-> q.n]
      BY <1>2, <1>3, <3>1
    <3> HIDE DEF row
    <3>3. hash(r) = hash(q) <=> HashOf(r) = HashOf(q)
      BY <3>2, SameHash
    <3> QED BY <3>1, <3>3
  <2>2. ASSUME NEW i, NEW j PROVE hash(row(j)) = hash(row(i)) <=> HashOf(row(j)) = HashOf(row(i))
    <3>1. PICK r, q : r = row(j) /\ q = row(i)
      OBVIOUS
    <3>2. r = [owner |-> r.owner, row |-> r.row, n |-> r.n] /\ q = [owner |-> q.owner, row |-> q.row, n |-> q.n]
      BY <1>2, <3>1
    <3> HIDE DEF row
    <3>3. hash(r) = hash(q) <=> HashOf(r) = HashOf(q)
      BY <3>2, SameHash
    <3> QED BY <3>1, <3>3
  <2>3. \A i : hash(row(i)) \notin stored <=> \A x \in DOMAIN tx : HashOf(tx[x]) # HashOf(row(i))
    <3> HIDE DEF row, hash
    <3> QED BY <2>1 DEF stored
  <2>4. \A i : row(i) = RowIn(e, i)
    OBVIOUS
  <2> HIDE DEF row, hash, stored
  <2> QED BY <1>1, <2>2, <2>3, <2>4, Zenon DEF fresh, NewRows
<1> DEFINE id(i) == NewTxId(new, i)
<1>5. /\ tx' = [x \in DOMAIN tx \cup {id(i) : i \in fresh} |->
                  IF x \in DOMAIN tx THEN tx[x] ELSE row(CHOOSE i \in fresh : id(i) = x)]
      /\ imported' = imported \cup {e}
  <2>1. \A i : Finance!Cardinality({j \in fresh : j <= i}) = RankOf(new, i)
    BY <1>4, FinanceCount DEF RankOf
  <2> DEFINE num(S, i) == Finance!NextRow(tx) - 1 + Finance!Cardinality({j \in S : j <= i})
             Stored(S) == [x \in DOMAIN tx \cup {num(S, i) : i \in S} |->
                             IF x \in DOMAIN tx THEN tx[x] ELSE row(CHOOSE i \in S : num(S, i) = x)]
  <2>2. (\E S \in {fresh} : tx' = Stored(S)) /\ imported' = imported \cup {e}
    BY Zenon DEF Finance!FinanceImport, RowIn
  <2>3. \A i : num(fresh, i) = id(i)
    BY <2>1 DEF NewTxId
  <2>4. tx' = Stored(fresh)
    <3>1. PICK S \in {fresh} : tx' = Stored(S)
      BY <2>2
    <3> HIDE DEF Stored, fresh
    <3>2. S = fresh
      OBVIOUS
    <3> QED BY <3>1, <3>2
  <2> DEFINE nums == {num(fresh, i) : i \in fresh}
             ids == {id(i) : i \in fresh}
             counted(x) == CHOOSE i \in fresh : num(fresh, i) = x
             given(x) == CHOOSE i \in fresh : id(i) = x
  <2>5. nums = ids
    <3> HIDE DEF num, id, fresh, row
    <3> QED BY <2>3
  <2>6. ASSUME NEW x PROVE counted(x) = given(x)
    <3> DEFINE N(i) == i \in fresh /\ num(fresh, i) = x
               G(i) == i \in fresh /\ id(i) = x
    <3>1. \A i : N(i) <=> G(i)
      <4> HIDE DEF num, id, fresh, row
      <4> QED BY <2>3
    <3>2. counted(x) = (CHOOSE i : N(i)) /\ given(x) = (CHOOSE i : G(i))
      <4> HIDE DEF num, id, fresh, row
      <4> QED BY Zenon
    <3> HIDE DEF N, G
    <3>3. (CHOOSE i : N(i)) = (CHOOSE i : G(i))
      BY <3>1, Zenon
    <3> HIDE DEF counted, given
    <3> QED BY <3>2, <3>3
  <2>7. Stored(fresh) = [x \in DOMAIN tx \cup nums |-> IF x \in DOMAIN tx THEN tx[x] ELSE row(counted(x))]
    OBVIOUS
  <2>8. [x \in DOMAIN tx \cup nums |-> IF x \in DOMAIN tx THEN tx[x] ELSE row(counted(x))]
          = [x \in DOMAIN tx \cup ids |-> IF x \in DOMAIN tx THEN tx[x] ELSE row(given(x))]
    <3> HIDE DEF nums, ids, counted, given, row
    <3> QED BY <2>5, <2>6
  <2> HIDE DEF num, fresh, row, Stored
  <2> QED BY <2>2, <2>4, <2>7, <2>8
<1>6. PICK b \in Nat : DOMAIN e.rows = 1..b
  BY ExportLines
<1>7. new \in SUBSET (1..b)
  BY <1>1, <1>6 DEF NewRows
<1>8. PICK first \in Nat : first = Finance!NextRow(tx) - 1 /\ \A x \in DOMAIN tx : x \in 1..first
  <2>1. PICK n \in Nat : DOMAIN tx \subseteq 1..n
    BY DEF LedgerInv
  <2> QED BY <2>1, NextRowNew
<1>9. \A i : id(i) = first + RankOf(new, i)
  BY <1>8 DEF NewTxId
<1>10. /\ \A i \in new : RankOf(new, i) \in 1..b
       /\ \A i, j \in new : i # j => RankOf(new, i) # RankOf(new, j)
  BY <1>7, RankedIds
<1> HIDE DEF id, row, fresh
<1>11. \A i \in new : id(i) \in (first + 1)..(first + b)
  BY <1>8, <1>9, <1>10
<1>12. \A i, j \in new : id(i) = id(j) => i = j
  BY <1>8, <1>9, <1>10
<1>13. \A i \in new : id(i) \notin DOMAIN tx
  BY <1>8, <1>11
<1>14. ASSUME NEW i \in new PROVE tx'[id(i)] = row(i)
  <2>1. PICK k : k = CHOOSE j \in new : id(j) = id(i)
    OBVIOUS
  <2>2. k \in new /\ id(k) = id(i)
    BY <2>1, Zenon
  <2>3. k = i
    BY <1>12, <2>2
  <2>4. tx'[id(i)] = row(k)
    BY <1>4, <1>5, <1>13, <2>1
  <2> QED BY <2>3, <2>4
<1>15. DOMAIN tx' = DOMAIN tx \cup {id(i) : i \in new} /\ \A x \in DOMAIN tx : tx'[x] = tx[x]
  BY <1>4, <1>5
<1>16. first + b \in Nat /\ DOMAIN tx' \subseteq 1..(first + b)
  <2>1. \A i \in new : id(i) \in 1..(first + b)
    BY <1>8, <1>11
  <2>2. \A x \in DOMAIN tx : x \in 1..(first + b)
    BY <1>8
  <2> QED BY <1>8, <1>15, <2>1, <2>2
<1>17. Stores(e, new)
  BY <1>5, <1>13, <1>14, <1>15, <1>16 DEF Stores, id, row
<1> QED BY <1>1, <1>17

LEMMA ImportInv == ASSUME LedgerInv, NEW e \in FinExports, Finance!FinanceImport(e) PROVE LedgerInv'
<1>1. PICK new : new = NewRows(e)
  OBVIOUS
<1> DEFINE id(i) == NewTxId(new, i)
<1>2. /\ imported' = imported \cup {e}
      /\ DOMAIN tx' = DOMAIN tx \cup {id(i) : i \in new}
      /\ \A x \in DOMAIN tx : tx'[x] = tx[x]
      /\ \A i \in new : id(i) \notin DOMAIN tx /\ tx'[id(i)] = RowIn(e, i)
      /\ \E n \in Nat : DOMAIN tx' \subseteq 1..n
  <2>1. Stores(e, new)
    BY <1>1, ImportStores
  <2> QED BY <2>1 DEF Stores
<1> HIDE DEF id
<1>3. PICK b \in Nat : DOMAIN e.rows = 1..b
  BY ExportLines
<1>4. new \subseteq DOMAIN e.rows /\ \A i \in new : i \in Nat
  BY <1>1, <1>3 DEF NewRows
<1>5. ASSUME NEW i \in DOMAIN e.rows PROVE \E x \in DOMAIN tx' : HashOf(tx'[x]) = HashOf(RowIn(e, i))
  <2>1. CASE \E x \in DOMAIN tx : HashOf(tx[x]) = HashOf(RowIn(e, i))
    BY <1>2, <2>1
  <2>2. CASE \A x \in DOMAIN tx : HashOf(tx[x]) # HashOf(RowIn(e, i))
    <3> DEFINE same == {j \in DOMAIN e.rows : HashOf(RowIn(e, j)) = HashOf(RowIn(e, i))}
    <3>1. same \in SUBSET Nat /\ same # {}
      BY <1>3
    <3>2. PICK j \in same : \A k \in same : j <= k
      <4> HIDE DEF same
      <4> QED BY <3>1, LeastOne
    <3>3. j \in new
      <4>1. ASSUME NEW k \in 1..(j - 1) PROVE HashOf(RowIn(e, k)) # HashOf(RowIn(e, j))
        <5>1. k \in DOMAIN e.rows /\ ~(j <= k)
          BY <1>3
        <5> QED BY <3>2, <5>1
      <4> QED BY <1>1, <2>2, <4>1 DEF NewRows
    <3>4. id(j) \in DOMAIN tx' /\ tx'[id(j)] = RowIn(e, j)
      BY <1>2, <3>3
    <3> QED BY <3>4
  <2> QED BY <2>1, <2>2
<1>6. ASSUME NEW x \in DOMAIN tx' PROVE \E f \in imported' : \E i \in DOMAIN f.rows : tx'[x] = RowIn(f, i)
  <2>1. CASE x \in DOMAIN tx
    <3>1. \E f \in imported : \E i \in DOMAIN f.rows : tx[x] = RowIn(f, i)
      BY <2>1 DEF LedgerInv
    <3> QED BY <1>2, <2>1, <3>1
  <2>2. CASE x \notin DOMAIN tx
    <3>1. PICK i \in new : x = id(i)
      BY <1>2, <2>2
    <3> QED BY <1>2, <1>4, <3>1
  <2> QED BY <2>1, <2>2
<1>7. ASSUME NEW f \in imported', NEW i \in DOMAIN f.rows PROVE \E x \in DOMAIN tx' : HashOf(tx'[x]) = HashOf(RowIn(f, i))
  <2>1. CASE f = e
    BY <1>5, <2>1
  <2>2. CASE f \in imported
    <3>1. PICK x \in DOMAIN tx : HashOf(tx[x]) = HashOf(RowIn(f, i))
      BY <2>2 DEF LedgerInv
    <3> QED BY <1>2, <3>1
  <2> QED BY <1>2, <2>1, <2>2
<1>8. ASSUME NEW i \in new, NEW j \in new, HashOf(RowIn(e, i)) = HashOf(RowIn(e, j)) PROVE i = j
  <2>1. \A k \in new, l \in new : k < l => HashOf(RowIn(e, k)) # HashOf(RowIn(e, l))
    <3>1. ASSUME NEW k \in new, NEW l \in new, k < l PROVE k \in 1..(l - 1)
      BY <1>3, <1>4, <3>1
    <3> QED BY <1>1, <3>1 DEF NewRows
  <2>2. i \in Nat /\ j \in Nat
    BY <1>4
  <2>3. ~(i < j) /\ ~(j < i)
    BY <1>8, <2>1
  <2> QED BY <2>2, <2>3
<1>9. ASSUME NEW x \in DOMAIN tx', NEW y \in DOMAIN tx', HashOf(tx'[x]) = HashOf(tx'[y]) PROVE x = y
  <2>1. CASE x \in DOMAIN tx /\ y \in DOMAIN tx
    BY <1>2, <1>9, <2>1 DEF LedgerInv
  <2>2. ASSUME NEW i \in new, x = id(i), y \in DOMAIN tx PROVE FALSE
    BY <1>1, <1>2, <1>9, <2>2 DEF NewRows
  <2>3. ASSUME NEW i \in new, y = id(i), x \in DOMAIN tx PROVE FALSE
    BY <1>1, <1>2, <1>9, <2>3 DEF NewRows
  <2>4. ASSUME NEW i \in new, NEW j \in new, x = id(i), y = id(j) PROVE x = y
    BY <1>2, <1>8, <1>9, <2>4
  <2>5. (x \in DOMAIN tx \/ \E i \in new : x = id(i)) /\ (y \in DOMAIN tx \/ \E i \in new : y = id(i))
    BY <1>2
  <2> QED BY <2>1, <2>2, <2>3, <2>4, <2>5
<1>10. imported' \subseteq FinExports
  BY <1>2 DEF LedgerInv
<1> QED BY <1>2, <1>6, <1>7, <1>9, <1>10 DEF LedgerInv

\* Nothing but an import touches the ledger.
LEMMA LedgerFrame == LedgerInv /\ UNCHANGED <<tx, imported>> => LedgerInv'
BY DEF LedgerInv

-----------------------------------------------------------------------------
(***************************************************************************)
(* Every step of finance.                                                  *)
(***************************************************************************)

FinanceInv == LedgerInv /\ UsesInv

LEMMA FinanceInvInit == Finance!FinanceInit => FinanceInv
<1> SUFFICES ASSUME Finance!FinanceInit PROVE FinanceInv
  OBVIOUS
<1>1. DOMAIN tx = {} /\ DOMAIN uses = {} /\ imported = {}
  <2>1. tx = <<>> /\ uses = <<>> /\ imported = {}
    BY Zenon DEF Finance!FinanceInit
  <2> QED BY <2>1
<1>2. LedgerInv
  BY <1>1 DEF LedgerInv
<1>3. UsesInv
  BY <1>1, FS_EmptySet DEF UsesInv
<1> QED BY <1>2, <1>3 DEF FinanceInv

LEMMA UsesFrame == UsesInv /\ UNCHANGED <<uses, wallets>> => UsesInv'
BY DEF UsesInv

LEMMA FinanceFrame == FinanceInv /\ UNCHANGED <<tx, imported, uses, wallets>> => FinanceInv'
BY LedgerFrame, UsesFrame DEF FinanceInv

\* The wallet: a use is written down for a wallet there is, and goes with it.
LEMMA SetWalletUses ==
  ASSUME UsesInv, NEW c, Finance!WalletCreated(c) \/ Finance!WalletSet(c)
  PROVE  UsesInv'
<1>1. CASE Finance!WalletCreated(c)
  <2>1. DOMAIN wallets \subseteq DOMAIN wallets' /\ uses' = uses
    BY <1>1 DEF Finance!WalletCreated, Finance!Plus
  <2> QED BY <2>1 DEF UsesInv
<1>2. CASE Finance!WalletSet(c)
  <2>1. DOMAIN wallets' = DOMAIN wallets /\ uses' = uses
    BY <1>2 DEF Finance!WalletSet
  <2> QED BY <2>1 DEF UsesInv
<1> QED BY <1>1, <1>2

LEMMA DeleteWalletUses ==
  ASSUME UsesInv, NEW w, Finance!FinanceDeleteWallet(w)
  PROVE  UsesInv'
<1> DEFINE gone == {u \in DOMAIN uses : uses[u].wallet = w}
<1>1. /\ DOMAIN wallets' = DOMAIN wallets \ {w} /\ DOMAIN uses' = DOMAIN uses \ gone
      /\ \A u \in DOMAIN uses' : uses'[u] = uses[u]
  BY DEF Finance!FinanceDeleteWallet, Finance!Minus
<1>2. IsFiniteSet(DOMAIN uses')
  <2>1. DOMAIN uses' \in SUBSET DOMAIN uses
    BY <1>1
  <2> QED BY <2>1, FS_Subset DEF UsesInv
<1>3. ASSUME NEW u \in DOMAIN uses' PROVE uses'[u].wallet \in DOMAIN wallets' /\ uses'[u].amount \in Int
  BY <1>1 DEF UsesInv
<1> QED BY <1>2, <1>3 DEF UsesInv

LEMMA AddUseUses ==
  ASSUME UsesInv, NEW w \in DOMAIN wallets, NEW u \in FinUses, Finance!FinanceAddWalletSpend(w, u)
  PROVE  UsesInv'
<1> DEFINE k == Finance!NextRow(uses)
           new == [wallet |-> w, at |-> u.at, content |-> u.content, amount |-> u.amount]
<1>1. wallets' = wallets /\ uses' = Finance!Plus(uses, k, new)
  BY DEF Finance!FinanceAddWalletSpend
<1>2. u.amount \in Int
  BY FinanceAssumption
<1>3. new.wallet = w /\ new.amount = u.amount
  OBVIOUS
<1> HIDE DEF k, new
<1>4. DOMAIN uses' = DOMAIN uses \cup {k} /\ \A x \in DOMAIN uses' : uses'[x] = IF x = k THEN new ELSE uses[x]
  BY <1>1 DEF Finance!Plus
<1>5. IsFiniteSet(DOMAIN uses')
  BY <1>4, FS_AddElement DEF UsesInv
<1>6. ASSUME NEW x \in DOMAIN uses' PROVE uses'[x].wallet \in DOMAIN wallets' /\ uses'[x].amount \in Int
  <2>1. CASE x = k
    BY <1>1, <1>2, <1>3, <1>4, <2>1
  <2>2. CASE x # k
    BY <1>1, <1>4, <2>2 DEF UsesInv
  <2> QED BY <2>1, <2>2
<1> QED BY <1>5, <1>6 DEF UsesInv

LEMMA UpdateUseUses ==
  ASSUME UsesInv, NEW i \in DOMAIN uses, NEW u \in FinUses, Finance!FinanceUpdateWalletSpend(i, u)
  PROVE  UsesInv'
<1> DEFINE new == [wallet |-> uses[i].wallet, at |-> u.at, content |-> u.content, amount |-> u.amount]
<1>1. wallets' = wallets /\ uses' = [uses EXCEPT ![i] = new]
  BY DEF Finance!FinanceUpdateWalletSpend
<1>2. u.amount \in Int
  BY FinanceAssumption
<1>3. new.wallet = uses[i].wallet /\ new.amount = u.amount
  OBVIOUS
<1> HIDE DEF new
<1>4. DOMAIN uses' = DOMAIN uses /\ uses'[i] = new /\ \A x \in DOMAIN uses : x # i => uses'[x] = uses[x]
  BY <1>1
<1> QED BY <1>1, <1>2, <1>3, <1>4 DEF UsesInv

LEMMA DropUseUses == ASSUME UsesInv, Finance!DropUse PROVE UsesInv'
<1>1. /\ wallets' = wallets /\ DOMAIN uses' \in SUBSET DOMAIN uses
      /\ \A u \in DOMAIN uses' : uses'[u] = uses[u]
  BY DEF Finance!DropUse, Finance!Minus
<1>2. IsFiniteSet(DOMAIN uses')
  BY <1>1, FS_Subset DEF UsesInv
<1> QED BY <1>1, <1>2 DEF UsesInv

LEMMA FinanceInvNext == ASSUME FinanceInv, Finance!FinanceNext PROVE FinanceInv'
<1>0. LedgerInv /\ UsesInv
  BY DEF FinanceInv
<1>1. ASSUME NEW e \in FinExports, Finance!FinanceImport(e) PROVE FinanceInv'
  <2>1. UNCHANGED <<uses, wallets>>
    BY <1>1 DEF Finance!FinanceImport
  <2> QED BY <1>0, <1>1, <2>1, ImportInv, UsesFrame DEF FinanceInv
<1>2. ASSUME NEW k \in Items, NEW b \in BOOLEAN, Finance!FinanceSetSpend(k, b) PROVE FinanceInv'
  BY <1>2, FinanceFrame DEF Finance!FinanceSetSpend, Finance!Corrected
<1>3. ASSUME NEW k \in Items, NEW v \in {"auto", "yes", "no"}, Finance!FinanceSetIncome(k, v) PROVE FinanceInv'
  BY <1>3, FinanceFrame DEF Finance!FinanceSetIncome, Finance!Corrected
<1>4. ASSUME NEW k \in Items, NEW v \in -1..2, Finance!FinanceSetFixed(k, v) PROVE FinanceInv'
  BY <1>4, FinanceFrame DEF Finance!FinanceSetFixed, Finance!Corrected
<1>5. ASSUME NEW k \in Items, NEW l \in FinLabels, Finance!FinanceSetLabel(k, l) PROVE FinanceInv'
  BY <1>5, FinanceFrame DEF Finance!FinanceSetLabel, Finance!Corrected
<1>6. ASSUME NEW r \in Finance!Refs, NEW ids \in SUBSET TagIds, Finance!FinanceSetTxTags(r, ids) PROVE FinanceInv'
  BY <1>6, FinanceFrame DEF Finance!FinanceSetTxTags, Finance!Tagging
<1>7. ASSUME NEW k \in Items, NEW ids \in SUBSET TagIds, Finance!FinanceSetTags(k, ids) PROVE FinanceInv'
  BY <1>7, FinanceFrame DEF Finance!FinanceSetTags, Finance!Tagging
<1>8. ASSUME NEW c \in Items, NEW t \in TagIds, Finance!FinanceTagByName(c, t) PROVE FinanceInv'
  BY <1>8, FinanceFrame DEF Finance!FinanceTagByName, Finance!Tagging
<1>9. ASSUME NEW t \in TagIds, Finance!FinanceCreateTag(t) \/ Finance!FinanceDeleteTag(t) PROVE FinanceInv'
  BY <1>9, FinanceFrame DEF Finance!FinanceCreateTag, Finance!FinanceDeleteTag, Finance!Tagging
<1>10. ASSUME Finance!MigrateRead \/ Finance!MigrateWrite PROVE FinanceInv'
  BY <1>10, FinanceFrame DEF Finance!MigrateRead, Finance!MigrateWrite, Finance!Tagging
<1>w. ASSUME NEW c \in Clients, NEW o \in People, NEW b \in {0, 1000}, Finance!WalletAsked(c, o, b) PROVE FinanceInv'
  BY <1>w, FinanceFrame DEF Finance!WalletAsked, Finance!Spending
<1> DEFINE Wallet == \/ \E c \in Clients : Finance!WalletCreated(c) \/ Finance!WalletSet(c)
                     \/ \E w \in DOMAIN wallets : Finance!FinanceDeleteWallet(w)
                     \/ \E w \in DOMAIN wallets, u \in FinUses : Finance!FinanceAddWalletSpend(w, u)
                     \/ \E i \in DOMAIN uses, u \in FinUses : Finance!FinanceUpdateWalletSpend(i, u)
                     \/ Finance!DropUse
<1>11. ASSUME Wallet PROVE FinanceInv'
  <2>1. UNCHANGED <<tx, imported>>
    BY <1>11 DEF Finance!WalletCreated, Finance!WalletSet, Finance!FinanceDeleteWallet,
                 Finance!FinanceAddWalletSpend, Finance!FinanceUpdateWalletSpend, Finance!DropUse, Finance!Spending
  <2>2. UsesInv'
    BY <1>0, <1>11, SetWalletUses, DeleteWalletUses, AddUseUses, UpdateUseUses, DropUseUses
  <2> QED BY <1>0, <2>1, <2>2, LedgerFrame DEF FinanceInv
<1>12. ASSUME NEW i \in DOMAIN uses, Finance!DropTags(i) PROVE FinanceInv'
  BY <1>12, FinanceFrame DEF Finance!DropTags, Finance!Spending
<1>13. ASSUME Finance!FinTick PROVE FinanceInv'
  BY <1>13, FinanceFrame DEF Finance!FinTick, Finance!Spending
<1> QED BY <1>1, <1>2, <1>3, <1>4, <1>5, <1>6, <1>7, <1>8, <1>9, <1>10, <1>11, <1>12, <1>13, <1>w DEF Finance!FinanceNext

-----------------------------------------------------------------------------
(***************************************************************************)
(* The overview.                                                           *)
(***************************************************************************)

\* A row of the overview is of the ledger or of a wallet there is.
RowShape(r) ==
  r = [pos |-> r.pos, kind |-> r.kind, owner |-> r.owner, at |-> r.at, type |-> r.type, content |-> r.content,
       key |-> r.key, label |-> r.label, cat |-> r.cat, amount |-> r.amount, method |-> r.method, wallet |-> r.wallet]
RowSound(r) ==
  /\ RowShape(r)
  /\ r.amount \in Int
  /\ r.wallet => \E w \in DOMAIN wallets : wallets[w].owner = r.owner

OverviewSound(rows) == IsFiniteSet(rows) /\ \A r \in rows : RowSound(r)

LEMMA OverviewIsSound == ASSUME FinanceInv, NEW who PROVE OverviewSound(Finance!OverviewRows(who))
<1> DEFINE from == (ThisMonth - 13) * MonthLength
           ofTx(x) == [ref |-> <<"t", x>>, owner |-> tx[x].owner, row |-> tx[x].row, wallet |-> FALSE]
           ofUse(x) == [ref |-> <<"w", x>>, owner |-> wallets[uses[x].wallet].owner, wallet |-> TRUE,
                        row |-> [at |-> uses[x].at, type |-> "out", content |-> uses[x].content, cat |-> "wallet",
                                 amount |-> -uses[x].amount, method |-> "wallet"]]
           ledger == {ofTx(x) : x \in DOMAIN tx}
           pocket == {ofUse(x) : x \in DOMAIN uses}
           mine == {r \in ledger \cup pocket : r.owner \in who /\ r.row.at >= from}
           Source(r) == /\ r.row.amount \in Int
                        /\ r.wallet => \E w \in DOMAIN wallets : wallets[w].owner = r.owner
<1>0. LedgerInv /\ UsesInv
  BY DEF FinanceInv
<1>1. \A r \in ledger : Source(r)
  <2>1. ASSUME NEW x \in DOMAIN tx PROVE Source(ofTx(x))
    <3>1. PICK e \in imported : \E i \in DOMAIN e.rows : tx[x] = RowIn(e, i)
      BY <1>0 DEF LedgerInv
    <3>2. PICK i \in DOMAIN e.rows : tx[x] = RowIn(e, i)
      BY <3>1
    <3>3. e \in FinExports
      BY <1>0 DEF LedgerInv
    <3>4. e.rows[i].amount \in Int
      BY <3>3, ExportLines
    <3>5. tx[x].row.amount \in Int
      BY <3>2, <3>4, HashParts
    <3>6. ofTx(x).row = tx[x].row /\ ~ofTx(x).wallet
      OBVIOUS
    <3> HIDE DEF ofTx
    <3> QED BY <3>5, <3>6
  <2> HIDE DEF ofTx, Source
  <2> QED BY <2>1
<1>2. \A r \in pocket : Source(r)
  <2>1. ASSUME NEW x \in DOMAIN uses PROVE Source(ofUse(x))
    <3>1. uses[x].amount \in Int /\ uses[x].wallet \in DOMAIN wallets
      BY <1>0 DEF UsesInv
    <3>2. ofUse(x).row.amount = -uses[x].amount /\ ofUse(x).owner = wallets[uses[x].wallet].owner
      OBVIOUS
    <3> HIDE DEF ofUse
    <3> QED BY <3>1, <3>2
  <2> HIDE DEF ofUse, Source
  <2> QED BY <2>1
<1>3. IsFiniteSet(mine)
  <2>1. IsFiniteSet(DOMAIN tx)
    <3>1. PICK n \in Nat : DOMAIN tx \subseteq 1..n
      BY <1>0 DEF LedgerInv
    <3>2. IsFiniteSet(1..n)
      BY FS_Interval
    <3> QED BY <3>1, <3>2, FS_Subset
  <2>2. IsFiniteSet(ledger)
    <3> DEFINE f == [x \in DOMAIN tx |-> ofTx(x)]
    <3>1. \A t \in ledger : \E x \in DOMAIN tx : t = f[x]
      <4> HIDE DEF ofTx
      <4> QED OBVIOUS
    <3> HIDE DEF f, ledger
    <3> QED BY <2>1, <3>1, ImageFinite
  <2>3. IsFiniteSet(pocket)
    <3> DEFINE f == [x \in DOMAIN uses |-> ofUse(x)]
    <3>1. \A t \in pocket : \E x \in DOMAIN uses : t = f[x]
      <4> HIDE DEF ofUse
      <4> QED OBVIOUS
    <3>2. IsFiniteSet(DOMAIN uses)
      BY <1>0 DEF UsesInv
    <3> HIDE DEF f, pocket
    <3> QED BY <3>1, <3>2, ImageFinite
  <2>4. IsFiniteSet(ledger \cup pocket)
    <3> HIDE DEF ledger, pocket
    <3> QED BY <2>2, <2>3, FS_Union
  <2>5. mine \in SUBSET (ledger \cup pocket)
    <3> HIDE DEF ledger, pocket
    <3> QED OBVIOUS
  <2> HIDE DEF mine
  <2> QED BY <2>4, <2>5, FS_Subset
<1>4. \A r \in mine : Source(r)
  <2> HIDE DEF ledger, pocket, Source
  <2> QED BY <1>1, <1>2
<1> DEFINE before(p, q) == \/ p.row.at < q.row.at
                           \/ p.row.at = q.row.at /\ ~p.wallet /\ q.wallet
                           \/ p.row.at = q.row.at /\ p.wallet = q.wallet /\ p.ref[2] < q.ref[2]
           label(k) == IF k \in DOMAIN labels THEN labels[k] ELSE Finance!NoLabel
           k(r) == FinContents[r.row.content].key
           named(r) == [pos |-> 1 + Finance!Cardinality({q \in mine : before(q, r)}), kind |-> "",
                        owner |-> r.owner, at |-> r.row.at, type |-> r.row.type, content |-> r.row.content, key |-> k(r),
                        label |-> IF label(k(r)).label # "" THEN label(k(r)).label ELSE r.row.content,
                        cat |-> IF label(k(r)).cat # "" THEN label(k(r)).cat ELSE r.row.cat,
                        amount |-> r.row.amount, method |-> r.row.method, wallet |-> r.wallet]
<1>5. Finance!OverviewRows(who) = {named(r) : r \in mine}
  BY Zenon DEF Finance!OverviewRows
<1>6. ASSUME NEW r
      PROVE  RowShape(named(r)) /\ named(r).amount = r.row.amount /\ named(r).owner = r.owner /\ named(r).wallet = r.wallet
  <2> HIDE DEF before, label, k, mine
  <2> QED BY DEF RowShape
<1>7. ASSUME NEW r \in mine PROVE RowSound(named(r))
  <2>1. Source(r)
    BY <1>4
  <2> HIDE DEF mine, named
  <2> QED BY <1>6, <2>1 DEF RowSound
<1>8. IsFiniteSet({named(r) : r \in mine})
  <2> DEFINE f == [r \in mine |-> named(r)]
             T == {named(r) : r \in mine}
  <2>1. \A t \in T : \E r \in mine : t = f[r]
    <3> HIDE DEF mine, named
    <3> QED OBVIOUS
  <2> HIDE DEF mine, f, T
  <2>2. IsFiniteSet(T)
    BY <1>3, <2>1, ImageFinite
  <2> QED BY <2>2 DEF T
<1> HIDE DEF mine, named
<1> QED BY <1>5, <1>7, <1>8 DEF OverviewSound

\* All of a row but what the overview makes of it.
SameRow(c, r) ==
  /\ c.owner = r.owner /\ c.at = r.at /\ c.type = r.type /\ c.content = r.content /\ c.key = r.key
  /\ c.amount = r.amount /\ c.cat = r.cat /\ c.wallet = r.wallet

LEMMA KindSet ==
  ASSUME NEW r, RowShape(r), NEW v, NEW c, c = [r EXCEPT !.kind = v]
  PROVE  RowShape(c) /\ SameRow(c, r) /\ c.kind = v
<1>1. c = [pos |-> r.pos, kind |-> v, owner |-> r.owner, at |-> r.at, type |-> r.type, content |-> r.content,
           key |-> r.key, label |-> r.label, cat |-> r.cat, amount |-> r.amount, method |-> r.method, wallet |-> r.wallet]
  BY DEF RowShape
<1>2. /\ c.pos = r.pos /\ c.kind = v /\ c.owner = r.owner /\ c.at = r.at /\ c.type = r.type /\ c.content = r.content
      /\ c.key = r.key /\ c.label = r.label /\ c.cat = r.cat /\ c.amount = r.amount /\ c.method = r.method
      /\ c.wallet = r.wallet
  BY <1>1
<1> QED BY <1>1, <1>2 DEF RowShape, SameRow

\* What is spending in the end is so by the file.
LEMMA ClassifiedRows ==
  ASSUME NEW rows, OverviewSound(rows)
  PROVE  /\ IsFiniteSet(Finance!Classified(rows))
         /\ \A c \in Finance!Classified(rows) :
              \E r \in rows : /\ SameRow(c, r)
                              /\ c.kind = "spend" => Finance!FileKind(rows, Finance!finPairs(rows), r) = "spend"
<1> DEFINE pairs == Finance!finPairs(rows)
           inFile(r) == [r EXCEPT !.kind = Finance!FileKind(rows, pairs, r)]
           asSpent(r) == [r EXCEPT !.kind = IF @ \in {"spend", "save"} /\ r.key \in notSpend THEN "skip" ELSE @]
           file == {inFile(r) : r \in rows}
           spent == {asSpent(r) : r \in file}
           sources == Finance!IncomeKeys(spent)
           final(r) == [r EXCEPT !.kind = IF @ \notin {"in", "in_other"} THEN @
                                          ELSE IF r.key \in sources THEN "in" ELSE "in_other"]
           Final == {final(r) : r \in spent}
           Spends(c, r) == c.kind = "spend" => Finance!FileKind(rows, pairs, r) = "spend"
<1>1. Finance!Classified(rows) = Final
  BY Zenon DEF Finance!Classified
<1>2. \A r \in rows : RowShape(r)
  BY DEF OverviewSound, RowSound
<1>3. ASSUME NEW c \in file PROVE \E r \in rows : RowShape(c) /\ SameRow(c, r) /\ Spends(c, r)
  <2>1. PICK r \in rows : c = inFile(r)
    OBVIOUS
  <2>2. PICK v : v = Finance!FileKind(rows, pairs, r)
    OBVIOUS
  <2>3. c = [r EXCEPT !.kind = v]
    BY <2>1, <2>2
  <2>4. RowShape(r)
    BY <1>2
  <2> HIDE DEF file, pairs
  <2>5. RowShape(c) /\ SameRow(c, r) /\ c.kind = v
    BY <2>3, <2>4, KindSet
  <2> QED BY <2>2, <2>5
<1>4. ASSUME NEW c \in spent PROVE \E r \in rows : RowShape(c) /\ SameRow(c, r) /\ Spends(c, r)
  <2>1. PICK q \in file : c = asSpent(q)
    OBVIOUS
  <2>2. PICK r \in rows : RowShape(q) /\ SameRow(q, r) /\ Spends(q, r)
    BY <1>3
  <2>3. PICK v : v = IF q.kind \in {"spend", "save"} /\ q.key \in notSpend THEN "skip" ELSE q.kind
    OBVIOUS
  <2>4. c = [q EXCEPT !.kind = v]
    BY <2>1, <2>2, <2>3 DEF RowShape
  <2>5. v = "spend" => q.kind = "spend"
    BY <2>3
  <2> HIDE DEF spent, file, pairs
  <2>6. RowShape(c) /\ SameRow(c, q) /\ c.kind = v
    BY <2>2, <2>4, KindSet
  <2>7. SameRow(c, r)
    BY <2>2, <2>6 DEF SameRow
  <2> QED BY <2>2, <2>5, <2>6, <2>7
<1>5. ASSUME NEW c \in Final PROVE \E r \in rows : RowShape(c) /\ SameRow(c, r) /\ Spends(c, r)
  <2>1. PICK q \in spent : c = final(q)
    OBVIOUS
  <2>2. PICK r \in rows : RowShape(q) /\ SameRow(q, r) /\ Spends(q, r)
    BY <1>4
  <2> HIDE DEF spent, file, pairs, sources
  <2>3. PICK v : v = IF q.kind \notin {"in", "in_other"} THEN q.kind ELSE IF q.key \in sources THEN "in" ELSE "in_other"
    OBVIOUS
  <2>4. c = [q EXCEPT !.kind = v]
    BY <2>1, <2>2, <2>3 DEF RowShape
  <2>5. v = "spend" => q.kind = "spend"
    BY <2>3
  <2> HIDE DEF Final
  <2>6. RowShape(c) /\ SameRow(c, q) /\ c.kind = v
    BY <2>2, <2>4, KindSet
  <2>7. SameRow(c, r)
    BY <2>2, <2>6 DEF SameRow
  <2> QED BY <2>2, <2>5, <2>6, <2>7
<1>6. IsFiniteSet(Final)
  <2>1. IsFiniteSet(file)
    <3> DEFINE f == [r \in rows |-> inFile(r)]
    <3>1. \A t \in file : \E r \in rows : t = f[r]
      <4> HIDE DEF inFile
      <4> QED OBVIOUS
    <3> HIDE DEF f, file
    <3> QED BY <3>1, ImageFinite DEF OverviewSound
  <2>2. IsFiniteSet(spent)
    <3> DEFINE f == [r \in file |-> asSpent(r)]
    <3>1. \A t \in spent : \E r \in file : t = f[r]
      <4> HIDE DEF asSpent, file
      <4> QED OBVIOUS
    <3> HIDE DEF f, spent, file
    <3> QED BY <2>1, <3>1, ImageFinite
  <2> DEFINE f == [r \in spent |-> final(r)]
  <2>3. \A t \in Final : \E r \in spent : t = f[r]
    <3> HIDE DEF final, spent
    <3> QED OBVIOUS
  <2> HIDE DEF f, Final, spent
  <2> QED BY <2>2, <2>3, ImageFinite
<1> HIDE DEF Final
<1> QED BY <1>1, <1>5, <1>6

\* A charge of the wallet is not spending in a month whose uses are there.
LEMMA ChargeIsNotSpent ==
  ASSUME NEW rows, NEW pairs, NEW q, Finance!FileKind(rows, pairs, q) = "spend", q.type = "move", q.amount < 0
  PROVE  ~Finance!walletCharge(rows, q)
BY DEF Finance!FileKind

LEMMA WalletSpentOnce == FinanceInv => Finance!SpentOnce
<1> SUFFICES ASSUME FinanceInv, NEW v \in Finance!Views,
                    NEW c \in Finance!Classified(Finance!OverviewRows(v)),
                    NEW d \in Finance!Classified(Finance!OverviewRows(v)),
                    c.kind = "spend", d.kind = "spend", c.wallet, d.type = "move", d.amount < 0,
                    Finance!Has(d.content, "wallet"), c.owner = d.owner, Finance!MonthOf(c.at) = Finance!MonthOf(d.at)
             PROVE  FALSE
  BY Zenon DEF Finance!SpentOnce
<1>1. PICK rows : rows = Finance!OverviewRows(v)
  OBVIOUS
<1>2. OverviewSound(rows)
  BY <1>1, OverviewIsSound
<1>3. PICK r \in rows : SameRow(c, r)
  BY <1>1, <1>2, ClassifiedRows
<1>4. PICK q \in rows : SameRow(d, q) /\ Finance!FileKind(rows, Finance!finPairs(rows), q) = "spend"
  BY <1>1, <1>2, ClassifiedRows
<1>5. ~Finance!walletCharge(rows, q)
  BY <1>4, ChargeIsNotSpent DEF SameRow
<1>6. PICK w \in DOMAIN wallets : wallets[w].owner = r.owner
  BY <1>2, <1>3 DEF OverviewSound, RowSound, SameRow
<1>7. r.wallet /\ r.owner = q.owner /\ Finance!MonthOf(r.at) = Finance!MonthOf(q.at) /\ Finance!Has(q.content, "wallet")
  BY <1>3, <1>4 DEF SameRow
<1> QED BY <1>5, <1>6, <1>7, Zenon DEF Finance!walletCharge

LEMMA ListsOfOverview == FinanceInv => Finance!ListsAddUp
<1> DEFINE Agree(rows, keys, m) ==
             Finance!Variable(rows, keys, m)
               = Finance!Total(Finance!Unexpected(rows, keys, m)) + Finance!Total(Finance!Regular(rows, keys, m))
                 - Finance!Total({r \in Finance!InMonths(rows, {m}) : r.kind = "spend" /\ r.amount > 0 /\ r.key \notin keys})
<1>1. ASSUME FinanceInv, NEW v, NEW rows, rows = Finance!Classified(Finance!OverviewRows(v)),
             Finance!OneCategory(rows), NEW keys, NEW m
      PROVE  Agree(rows, keys, m)
  <2>1. PICK raw : raw = Finance!OverviewRows(v)
    OBVIOUS
  <2>2. OverviewSound(raw)
    BY <1>1, <2>1, OverviewIsSound
  <2>3. IsFiniteSet(rows) /\ \A c \in rows : \E r \in raw : SameRow(c, r)
    BY <1>1, <2>1, <2>2, ClassifiedRows
  <2>4. Payments(rows)
    BY <2>2, <2>3 DEF Payments, OverviewSound, RowSound, SameRow
  <2> QED BY <1>1, <2>4, ListsOfMonth
<1>2. Finance!ListsAddUp
        <=> \A v \in Finance!Views :
              LET rows == Finance!Classified(Finance!OverviewRows(v))
                  keys == Finance!FixedKeys(rows)
              IN Finance!OneCategory(rows) => \A m \in {ThisMonth - 1, ThisMonth} : Agree(rows, keys, m)
  BY DEF Finance!ListsAddUp
<1> HIDE DEF Agree
<1> QED BY <1>1, <1>2

\* The money adds up, for any people, exports, uses of wallets, labels and
\* corrections: the lists of a month and its figures say the same, local money is
\* spent once, exports that overlap leave each transaction as often as the one
\* that has it most often (FinanceImport), and pairing transfers first come,
\* first served finds as many pairs as there are (finPairs).
THEOREM MoneyAddsUp == MCSpec => []FinanceSound
<1>1. MCInit => FinanceInv
  BY FinanceInvInit DEF MCInit
<1>2. FinanceInv /\ [MCNext]_allVars => FinanceInv'
  <2> SUFFICES ASSUME FinanceInv, [MCNext]_allVars PROVE FinanceInv'
    OBVIOUS
  <2>1. CASE Finance!FinanceNext
    BY <2>1, FinanceInvNext
  <2>2. CASE UNCHANGED finVars
    <3>1. UNCHANGED <<tx, imported, uses, wallets>>
      BY <2>2 DEF finVars
    <3> QED BY <3>1, FinanceFrame
  <2>3. Finance!FinanceNext \/ UNCHANGED finVars
    BY DEF MCNext, allVars
  <2> QED BY <2>1, <2>2, <2>3
<1>3. FinanceInv /\ Book(book) => FinanceSound
  <2>1. FinanceInv => Finance!ImportUnion
    BY UnionOfFiles DEF FinanceInv
  <2> QED BY <2>1, BookPairs, WalletSpentOnce, ListsOfOverview DEF FinanceSound
<1> QED BY <1>1, <1>2, <1>3, BookAlways, PTL DEF MCSpec

=============================================================================
