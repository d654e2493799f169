------------------------------ MODULE Libraries_proofs ------------------------------
(***************************************************************************)
(* The forwarder, the splitters and the accounts they serve, for all       *)
(* configurations, balances and amounts: only the admitted spend, forwards *)
(* are limited in rate, and rounding loses less than a unit for each share. *)
(*                                                                         *)
(* A finite sum is that of SumFunctionOnSet, which adds up in an order it  *)
(* chooses.  That the order does not matter, and what follows from it, is  *)
(* shown first: the library has no theorem on folds.                       *)
(***************************************************************************)
EXTENDS Libraries, Functions, FiniteSetTheorems, WellFoundedInduction, TLAPS

-----------------------------------------------------------------------------
(* Sums                                                                    *)

\* A set of numbers with zero and the successor of each of its numbers has them all.
LEMMA AllNumbers ==
  ASSUME NEW P, 0 \in P, \A n \in Nat : n \in P => n + 1 \in P
  PROVE  \A n \in Nat : n \in P
<1> SUFFICES ASSUME ~ \A n \in Nat : n \in P PROVE FALSE
  BY Zenon
<1> DEFINE T == {n \in Nat : n \notin P}
           less == {e \in Nat \X Nat : e[1] < e[2]}
<1>1. T \subseteq Nat /\ T # {}
  BY Zenon
<1>2. OpToRel(<, Nat) = less
  BY Zenon DEF OpToRel
<1>3. IsWellFoundedOn(less, Nat)
  BY <1>2, NatLessThanWellFounded, Zenon
<1>4. PICK k \in T : \A j \in T : ~(<<j, k>> \in less)
  <2> HIDE DEF T, less
  <2> QED BY <1>1, <1>3, WFMin, Zenon
<1>5. k \in Nat \ {0} /\ k \notin P
  BY Zenon
<1>6. k - 1 \in Nat /\ (k - 1) + 1 = k /\ k - 1 < k
  BY <1>5
<1>7. k - 1 \in T
  BY <1>5, <1>6, Zenon
<1>8. <<k - 1, k>> \in less
  BY <1>5, <1>6, Zenon
<1> QED BY <1>4, <1>7, <1>8, Zenon

\* A set of subsets with the empty one, and with every set that it has but for one of
\* its elements, has the whole set.
Grows(P, S) == \A s \in SUBSET S : \A x \in s : s \ {x} \in P => s \in P

LEMMA AllSubsets ==
  ASSUME NEW S, IsFiniteSet(S), NEW P, {} \in P, Grows(P, S)
  PROVE  S \in P
<1>1. \A s \in SUBSET S : IsFiniteSet(s) /\ Cardinality(s) \in Nat /\ (Cardinality(s) = 0 <=> s = {})
  BY FS_Subset, FS_CardinalityType, FS_EmptySet, Zenon
<1> DEFINE N == {n \in Nat : \A s \in SUBSET S : Cardinality(s) = n => s \in P}
<1>2. 0 \in N
  BY <1>1, Zenon
<1>3. ASSUME NEW n \in Nat, n \in N PROVE n + 1 \in N
  <2>1. ASSUME NEW s \in SUBSET S, Cardinality(s) = n + 1 PROVE s \in P
    <3>1. PICK x \in s : TRUE
      BY <1>1, <2>1
    <3>2. Cardinality(s \ {x}) = Cardinality(s) - 1
      BY <1>1, FS_RemoveElement, Zenon
    <3>3. s \ {x} \in SUBSET S /\ Cardinality(s \ {x}) = n
      BY <2>1, <3>2
    <3> QED BY <1>3, <3>3, Zenon DEF Grows
  <2> QED BY <2>1
<1>4. Cardinality(S) \in N
  <2>1. Cardinality(S) \in Nat
    BY FS_CardinalityType, Zenon
  <2> HIDE DEF N
  <2> QED BY <1>2, <1>3, <2>1, AllNumbers, Zenon
<1>5. S \in SUBSET S
  BY Zenon
<1> QED BY <1>4, <1>5, Zenon

\* The library adds up the values at the elements of a set in some order.
Pick(s) == CHOOSE x \in s : TRUE
Adds(f, s, g) == IF s = {} THEN 0 ELSE f[Pick(s)] + g[s \ {Pick(s)}]
AddsUp(f, S, g) == g = [s \in SUBSET S |-> Adds(f, s, g)]

\* The order is that of one function on the subsets, which exists.
LEMMA SumsExist ==
  ASSUME NEW S, IsFiniteSet(S), NEW f
  PROVE  \E g : AddsUp(f, S, g)
<1> DEFINE upTo(n, g) == \A s \in SUBSET S : Cardinality(s) <= n => g[s] = Adds(f, s, g)
           P == {n \in Nat : \E g : g = [s \in SUBSET S |-> g[s]] /\ upTo(n, g)}
<1>1. \A s \in SUBSET S : IsFiniteSet(s) /\ Cardinality(s) \in Nat /\ (Cardinality(s) = 0 <=> s = {})
  BY FS_Subset, FS_CardinalityType, FS_EmptySet, Zenon
<1>2. 0 \in P
  <2> DEFINE g == [s \in SUBSET S |-> 0]
  <2>1. upTo(0, g)
    <3> SUFFICES ASSUME NEW s \in SUBSET S, Cardinality(s) <= 0 PROVE g[s] = Adds(f, s, g)
      BY Zenon
    <3>1. s = {}
      BY <1>1
    <3> QED BY <3>1, Zenon DEF Adds
  <2>2. g = [s \in SUBSET S |-> g[s]]
    BY Zenon
  <2> HIDE DEF g
  <2> QED BY <2>1, <2>2, Zenon
<1>3. ASSUME NEW n \in Nat, n \in P PROVE n + 1 \in P
  <2>1. PICK g : g = [s \in SUBSET S |-> g[s]] /\ upTo(n, g)
    BY <1>3, Zenon
  <2> DEFINE h == [s \in SUBSET S |-> IF Cardinality(s) <= n THEN g[s] ELSE Adds(f, s, g)]
  <2>2. ASSUME NEW s \in SUBSET S, Cardinality(s) <= n + 1 PROVE h[s] = Adds(f, s, h)
    <3>1. h[s] = Adds(f, s, g)
      BY <2>1, Zenon
    <3>2. CASE s = {}
      BY <3>1, <3>2, Zenon DEF Adds
    <3>3. CASE s # {}
      <4>1. Pick(s) \in s
        BY <3>3, Zenon DEF Pick
      <4>2. s \ {Pick(s)} \in SUBSET S /\ Cardinality(s \ {Pick(s)}) = Cardinality(s) - 1
        BY <1>1, <4>1, FS_RemoveElement, Zenon
      <4>3. Cardinality(s \ {Pick(s)}) <= n
        BY <1>1, <2>2, <4>2
      <4>4. h[s \ {Pick(s)}] = g[s \ {Pick(s)}]
        BY <4>2, <4>3, Zenon
      <4> HIDE DEF h
      <4> QED BY <3>1, <4>4, Zenon DEF Adds
    <3> QED BY <3>2, <3>3, Zenon
  <2>3. h = [s \in SUBSET S |-> h[s]]
    BY Zenon
  <2> HIDE DEF h
  <2>4. upTo(n + 1, h)
    BY <2>2, Zenon
  <2>5. \E e : e = [s \in SUBSET S |-> e[s]] /\ upTo(n + 1, e)
    BY <2>3, <2>4, Zenon
  <2>6. n + 1 \in Nat
    OBVIOUS
  <2> HIDE DEF upTo
  <2> QED BY <2>5, <2>6, Zenon
<1>4. Cardinality(S) \in P
  <2>1. Cardinality(S) \in Nat
    BY FS_CardinalityType, Zenon
  <2> HIDE DEF P
  <2> QED BY <1>2, <1>3, <2>1, AllNumbers, Zenon
<1>5. PICK g : g = [s \in SUBSET S |-> g[s]] /\ upTo(Cardinality(S), g)
  BY <1>4, Zenon
<1>6. \A s \in SUBSET S : g[s] = Adds(f, s, g)
  BY <1>5, FS_Subset, Zenon
<1> QED BY <1>5, <1>6, Zenon DEF AddsUp

\* So a sum is the value of such a function.
LEMMA SumAddsUp ==
  ASSUME NEW S, IsFiniteSet(S), NEW f
  PROVE  \E g : AddsUp(f, S, g) /\ SumFunctionOnSet(f, S) = g[S]
<1> DEFINE G == CHOOSE g : AddsUp(f, S, g)
<1>1. SumFunctionOnSet(f, S) = G[S]
  BY Zenon DEF SumFunctionOnSet, FoldFunctionOnSet, MapThenFoldSet, AddsUp, Adds, Pick
<1>2. AddsUp(f, S, G)
  BY SumsExist, Zenon
<1> QED BY <1>1, <1>2, Zenon

\* The sum of nothing, and the sum with one element taken out, whichever it is.
InAnyOrder(f, S, g) ==
  /\ g[{}] = 0
  /\ \A s \in SUBSET S : g[s] \in Int /\ \A x \in s : g[s] = f[x] + g[s \ {x}]

Ints(f, S) == \A x \in S : f[x] \in Int

\* Addition does not depend on the order.
LEMMA AnyOrder ==
  ASSUME NEW S, IsFiniteSet(S), NEW f, Ints(f, S), NEW g, AddsUp(f, S, g)
  PROVE  InAnyOrder(f, S, g)
<1>1. \A s \in SUBSET S : IsFiniteSet(s) /\ Cardinality(s) \in Nat /\ (Cardinality(s) = 0 <=> s = {})
  BY FS_Subset, FS_CardinalityType, FS_EmptySet, Zenon
<1>2. \A s \in SUBSET S : g[s] = Adds(f, s, g)
  BY Zenon DEF AddsUp
<1>3. g[{}] = 0
  BY <1>2, Zenon DEF Adds
<1>4. ASSUME NEW s \in SUBSET S, s # {}
      PROVE  Pick(s) \in s /\ g[s] = f[Pick(s)] + g[s \ {Pick(s)}]
  <2>1. Pick(s) \in s
    BY <1>4, Zenon DEF Pick
  <2> QED BY <1>2, <1>4, <2>1, Zenon DEF Adds
<1>5. ASSUME NEW s \in SUBSET S, NEW x \in s
      PROVE  s \ {x} \in SUBSET S /\ Cardinality(s \ {x}) = Cardinality(s) - 1
  BY <1>1, FS_RemoveElement, Zenon
<1> DEFINE good(s) == g[s] \in Int /\ \A x \in s : g[s] = f[x] + g[s \ {x}]
           P == {n \in Nat : \A s \in SUBSET S : Cardinality(s) <= n => good(s)}
<1>6. 0 \in P
  BY <1>1, <1>3
<1>7. ASSUME NEW n \in Nat, n \in P PROVE n + 1 \in P
  <2>1. ASSUME NEW s \in SUBSET S, Cardinality(s) <= n + 1, s # {} PROVE good(s)
    <3> DEFINE p == Pick(s)
    <3>1. p \in s /\ g[s] = f[p] + g[s \ {p}]
      BY <1>4, <2>1, Zenon
    <3> HIDE DEF p
    <3>2. ASSUME NEW x \in s PROVE s \ {x} \in SUBSET S /\ Cardinality(s \ {x}) <= n /\ good(s \ {x})
      <4>1. s \ {x} \in SUBSET S /\ Cardinality(s \ {x}) <= n
        BY <1>1, <1>5, <2>1
      <4> QED BY <1>7, <4>1, Zenon
    <3>3. g[s] \in Int
      <4>1. f[p] \in Int /\ g[s \ {p}] \in Int
        BY <3>1, <3>2, Zenon DEF Ints
      <4> QED BY <3>1, <4>1
    <3>4. ASSUME NEW x \in s PROVE g[s] = f[x] + g[s \ {x}]
      <4>1. CASE x = p
        BY <3>1, <4>1, Zenon
      <4>2. CASE x # p
        <5> DEFINE a == f[x]
                   b == f[p]
                   c == g[(s \ {x}) \ {p}]
        <5>1. x \in s \ {p} /\ p \in s \ {x} /\ (s \ {p}) \ {x} = (s \ {x}) \ {p}
          BY <3>1, <4>2, Zenon
        <5>2. g[s \ {p}] = a + c
          BY <3>1, <3>2, <5>1, Zenon
        <5>3. g[s \ {x}] = b + c
          BY <3>2, <5>1, Zenon
        <5>4. a \in Int /\ b \in Int
          BY <3>1, Zenon DEF Ints
        <5>5. c \in Int
          <6>1. s \ {x} \in SUBSET S /\ Cardinality(s \ {x}) <= n /\ Cardinality(s \ {x}) \in Nat
            BY <1>1, <3>2, Zenon
          <6>2. /\ (s \ {x}) \ {p} \in SUBSET S
                /\ Cardinality((s \ {x}) \ {p}) = Cardinality(s \ {x}) - 1
            BY <1>5, <5>1, <6>1, Zenon
          <6>3. Cardinality((s \ {x}) \ {p}) <= n
            BY <6>1, <6>2
          <6> QED BY <1>7, <6>2, <6>3, Zenon
        <5>6. g[s] = b + (a + c)
          BY <3>1, <5>2, Zenon
        <5> HIDE DEF b, c
        <5>7. g[s] = a + (b + c)
          BY <5>4, <5>5, <5>6
        <5> QED BY <5>3, <5>7, Zenon
      <4> QED BY <4>1, <4>2, Zenon
    <3> QED BY <3>3, <3>4, Zenon
  <2>2. good({})
    BY <1>3
  <2>3. \A s \in SUBSET S : Cardinality(s) <= n + 1 => good(s)
    BY <2>1, <2>2, Zenon
  <2> QED BY <2>3
<1>8. \A n \in Nat : n \in P
  <2> HIDE DEF P
  <2> QED BY <1>6, <1>7, AllNumbers, Zenon
<1>9. ASSUME NEW s \in SUBSET S PROVE good(s)
  <2>1. Cardinality(s) \in P /\ Cardinality(s) <= Cardinality(s)
    BY <1>1, <1>8
  <2> QED BY <2>1, Zenon
<1> QED BY <1>3, <1>9, Zenon DEF InAnyOrder

\* Nothing adds up to nothing.
LEMMA SumOfNone == ASSUME NEW f PROVE SumFunctionOnSet(f, {}) = 0
<1>1. IsFiniteSet({}) /\ {} \in SUBSET {}
  BY FS_EmptySet, Zenon
<1>2. PICK g : AddsUp(f, {}, g) /\ SumFunctionOnSet(f, {}) = g[{}]
  BY <1>1, SumAddsUp, Zenon
<1> QED BY <1>1, <1>2, Zenon DEF AddsUp, Adds

\* A sum is a number: that without one of the elements, and the value there.
LEMMA SumStep ==
  ASSUME NEW S, IsFiniteSet(S), NEW f, Ints(f, S), NEW x \in S
  PROVE  /\ SumFunctionOnSet(f, S) \in Int /\ SumFunctionOnSet(f, S \ {x}) \in Int
         /\ SumFunctionOnSet(f, S) = f[x] + SumFunctionOnSet(f, S \ {x})
<1> DEFINE T == S \ {x}
<1>1. IsFiniteSet(T) /\ Ints(f, T) /\ T \in SUBSET S /\ S \in SUBSET S /\ T \in SUBSET T
  BY FS_Subset, Zenon DEF Ints
<1>2. PICK g : AddsUp(f, S, g) /\ SumFunctionOnSet(f, S) = g[S]
  BY SumAddsUp, Zenon
<1>3. PICK h : AddsUp(f, T, h) /\ SumFunctionOnSet(f, T) = h[T]
  BY <1>1, SumAddsUp, Zenon
<1>4. InAnyOrder(f, S, g) /\ InAnyOrder(f, T, h)
  BY <1>1, <1>2, <1>3, AnyOrder, Zenon
<1>5. g[T] = h[T]
  <2> DEFINE P == {s \in SUBSET T : g[s] = h[s]}
  <2>1. {} \in P
    BY <1>4, Zenon DEF InAnyOrder
  <2>2. ASSUME NEW s \in SUBSET T, NEW y \in s, s \ {y} \in P PROVE s \in P
    <3>1. s \in SUBSET S
      BY <1>1, Zenon
    <3>2. g[s] = f[y] + g[s \ {y}] /\ h[s] = f[y] + h[s \ {y}]
      BY <1>4, <2>2, <3>1, Zenon DEF InAnyOrder
    <3> QED BY <2>2, <3>2, Zenon
  <2>3. Grows(P, T)
    BY <2>2, Zenon DEF Grows
  <2>4. T \in P
    <3> HIDE DEF P, T
    <3> QED BY <1>1, <2>1, <2>3, AllSubsets, Zenon
  <2> QED BY <2>4, Zenon
<1>6. g[S] \in Int /\ h[T] \in Int /\ g[S] = f[x] + g[T]
  BY <1>1, <1>4, Zenon DEF InAnyOrder
<1> QED BY <1>2, <1>3, <1>5, <1>6, Zenon

\* The sum is a number.
LEMMA SumIsInt ==
  ASSUME NEW S, IsFiniteSet(S), NEW f, Ints(f, S)
  PROVE  SumFunctionOnSet(f, S) \in Int
<1>1. CASE S = {}
  <2>1. SumFunctionOnSet(f, S) = 0
    BY <1>1, SumOfNone, Zenon
  <2> QED BY <2>1
<1>2. CASE \E x \in S : TRUE
  BY <1>2, SumStep, Zenon
<1> QED BY <1>1, <1>2, Zenon

\* What adds up to c times one sum and d times another.
Combines(k, c, f, d, e, S) == \A x \in S : k[x] = c * f[x] + d * e[x]

LEMMA SumCombines ==
  ASSUME NEW S, IsFiniteSet(S), NEW f, NEW e, NEW k, Ints(f, S), Ints(e, S),
         NEW c \in Int, NEW d \in Int, Combines(k, c, f, d, e, S)
  PROVE  SumFunctionOnSet(k, S) = c * SumFunctionOnSet(f, S) + d * SumFunctionOnSet(e, S)
<1> DEFINE F(s) == SumFunctionOnSet(f, s)
           E(s) == SumFunctionOnSet(e, s)
           K(s) == SumFunctionOnSet(k, s)
           P == {s \in SUBSET S : K(s) = c * F(s) + d * E(s)}
<1>1. {} \in P
  <2>1. F({}) = 0 /\ E({}) = 0 /\ K({}) = 0
    BY SumOfNone, Zenon
  <2> HIDE DEF F, E, K
  <2> QED BY <2>1
<1>2. ASSUME NEW s \in SUBSET S, NEW x \in s, s \ {x} \in P PROVE s \in P
  <2> DEFINE t == s \ {x}
  <2>1. f[x] \in Int /\ e[x] \in Int /\ k[x] = c * f[x] + d * e[x]
    BY Zenon DEF Ints, Combines
  <2>2. IsFiniteSet(s) /\ Ints(f, s) /\ Ints(e, s)
    BY FS_Subset, Zenon DEF Ints
  <2>3. Ints(k, s)
    <3>1. \A y \in s : f[y] \in Int /\ e[y] \in Int /\ k[y] = c * f[y] + d * e[y]
      BY Zenon DEF Ints, Combines
    <3> QED BY <3>1 DEF Ints
  <2>4. /\ F(s) = f[x] + F(t) /\ E(s) = e[x] + E(t) /\ K(s) = k[x] + K(t)
        /\ F(t) \in Int /\ E(t) \in Int
    BY <2>2, <2>3, SumStep, Zenon
  <2>5. K(t) = c * F(t) + d * E(t)
    BY <1>2, Zenon
  <2> DEFINE ft == F(t)
             et == E(t)
             fx == f[x]
             ex == e[x]
  <2>6. K(s) = (c * fx + d * ex) + (c * ft + d * et) /\ F(s) = fx + ft /\ E(s) = ex + et
    BY <2>1, <2>4, <2>5, Zenon
  <2>7. ft \in Int /\ et \in Int /\ fx \in Int /\ ex \in Int
    BY <2>1, <2>4, Zenon
  <2> HIDE DEF ft, et, fx, ex, F, E, K
  <2>8. c * (fx + ft) + d * (ex + et) = (c * fx + d * ex) + (c * ft + d * et)
    BY <2>7, SMT
  <2>9. K(s) = c * F(s) + d * E(s)
    BY <2>6, <2>8, Zenon
  <2> QED BY <2>9, Zenon
<1>3. Grows(P, S)
  BY <1>2, Zenon DEF Grows
<1>4. S \in P
  <2> HIDE DEF P
  <2> QED BY <1>1, <1>3, AllSubsets, Zenon
<1> QED BY <1>4, Zenon

\* Two functions that may differ at one element.
SameBut(f, e, S, x) == \A y \in S : y # x => e[y] = f[y]

\* Functions that agree have one sum.
LEMMA SumIsSame ==
  ASSUME NEW S, IsFiniteSet(S), NEW f, NEW e, Ints(f, S), \A x \in S : f[x] = e[x]
  PROVE  SumFunctionOnSet(e, S) = SumFunctionOnSet(f, S)
<1>1. Combines(e, 1, f, 0, f, S)
  BY DEF Combines, Ints
<1>2. 1 \in Int /\ 0 \in Int
  OBVIOUS
<1> DEFINE F == SumFunctionOnSet(f, S)
<1>3. SumFunctionOnSet(e, S) = 1 * F + 0 * F
  BY <1>1, <1>2, SumCombines
<1>4. F \in Int
  BY SumIsInt, Zenon
<1> HIDE DEF F
<1>5. 1 * F + 0 * F = F
  BY <1>4
<1> QED BY <1>3, <1>5, Zenon DEF F

\* A sum changes by what it changes at one element.
LEMMA SumAtOne ==
  ASSUME NEW S, IsFiniteSet(S), NEW x \in S, NEW f, NEW e,
         Ints(f, S), Ints(e, S), SameBut(f, e, S, x)
  PROVE  SumFunctionOnSet(e, S) = SumFunctionOnSet(f, S) - f[x] + e[x]
<1> DEFINE T == S \ {x}
           F == SumFunctionOnSet(f, T)
           fx == f[x]
           ex == e[x]
           A == SumFunctionOnSet(f, S)
           B == SumFunctionOnSet(e, S)
<1>1. IsFiniteSet(T) /\ Ints(f, T) /\ \A y \in T : f[y] = e[y]
  BY FS_Subset, Zenon DEF Ints, SameBut
<1>2. SumFunctionOnSet(e, T) = F
  <2> HIDE DEF T
  <2> QED BY <1>1, SumIsSame, Zenon
<1>3. A = fx + F /\ F \in Int /\ B = ex + F
  BY <1>2, SumStep
<1>4. fx \in Int /\ ex \in Int
  BY Zenon DEF Ints
<1> HIDE DEF F, fx, ex, A, B
<1>5. B = A - fx + ex
  BY <1>3, <1>4
<1> QED BY <1>5, Zenon DEF fx, ex, A, B

\* A sum of zeros.
LEMMA SumOfZeros ==
  ASSUME NEW S, IsFiniteSet(S), NEW f, \A x \in S : f[x] = 0
  PROVE  SumFunctionOnSet(f, S) = 0
<1>1. Combines(f, 0, f, 0, f, S) /\ Ints(f, S)
  BY DEF Combines, Ints
<1>2. 0 \in Int
  OBVIOUS
<1> DEFINE F == SumFunctionOnSet(f, S)
<1>3. F = 0 * F + 0 * F
  BY <1>1, <1>2, SumCombines
<1>4. F \in Int
  BY <1>1, SumIsInt, Zenon
<1> HIDE DEF F
<1>5. F = 0
  BY <1>3, <1>4
<1> QED BY <1>5, Zenon DEF F

\* A sum with one term.
LEMMA SumOfOne ==
  ASSUME NEW S, IsFiniteSet(S), NEW x \in S, NEW f, f[x] \in Int, \A y \in S : y # x => f[y] = 0
  PROVE  SumFunctionOnSet(f, S) = f[x]
<1> DEFINE T == S \ {x}
<1>1. Ints(f, S)
  BY DEF Ints
<1>2. IsFiniteSet(T) /\ \A y \in T : f[y] = 0
  BY FS_Subset, Zenon
<1>3. SumFunctionOnSet(f, T) = 0
  <2> HIDE DEF T
  <2> QED BY <1>2, SumOfZeros, Zenon
<1>4. SumFunctionOnSet(f, S) = f[x] + 0
  BY <1>1, <1>3, SumStep, Zenon
<1> QED BY <1>4

\* A sum of what is not negative.
LEMMA SumIsNat ==
  ASSUME NEW S, IsFiniteSet(S), NEW f, \A x \in S : f[x] \in Nat
  PROVE  SumFunctionOnSet(f, S) \in Nat
<1> DEFINE P == {s \in SUBSET S : SumFunctionOnSet(f, s) \in Nat}
<1>1. {} \in P
  BY SumOfNone
<1>2. ASSUME NEW s \in SUBSET S, NEW x \in s, s \ {x} \in P PROVE s \in P
  <2>1. IsFiniteSet(s) /\ Ints(f, s) /\ f[x] \in Nat
    BY FS_Subset DEF Ints
  <2>2. SumFunctionOnSet(f, s) = f[x] + SumFunctionOnSet(f, s \ {x})
    BY <2>1, SumStep, Zenon
  <2> QED BY <1>2, <2>1, <2>2
<1>3. Grows(P, S)
  BY <1>2, Zenon DEF Grows
<1>4. S \in P
  <2> HIDE DEF P
  <2> QED BY <1>1, <1>3, AllSubsets, Zenon
<1> QED BY <1>4, Zenon

\* How many elements of a set are in another.
LEMMA SumCounts ==
  ASSUME NEW S, IsFiniteSet(S), NEW T \in SUBSET S
  PROVE  SumFunctionOnSet([x \in S |-> IF x \in T THEN 1 ELSE 0], S) = Cardinality(T)
<1> DEFINE f == [x \in S |-> IF x \in T THEN 1 ELSE 0]
           P == {s \in SUBSET S : SumFunctionOnSet(f, s) = Cardinality(s \cap T)}
<1>1. {} \in P
  <2>1. {} \cap T = {} /\ Cardinality({}) = 0
    BY FS_EmptySet, Zenon
  <2>2. SumFunctionOnSet(f, {}) = 0
    BY SumOfNone, Zenon
  <2> QED BY <2>1, <2>2, Zenon
<1>2. ASSUME NEW s \in SUBSET S, NEW x \in s, s \ {x} \in P PROVE s \in P
  <2>1. IsFiniteSet(s) /\ IsFiniteSet(s \cap T) /\ Ints(f, s)
    BY FS_Subset DEF Ints
  <2>2. f[x] = IF x \in T THEN 1 ELSE 0
    BY Zenon
  <2> HIDE DEF f
  <2>3. SumFunctionOnSet(f, s) = f[x] + Cardinality((s \ {x}) \cap T)
    BY <1>2, <2>1, SumStep
  <2>4. Cardinality((s \ {x}) \cap T) \in Nat
    <3>1. IsFiniteSet((s \ {x}) \cap T)
      BY <2>1, FS_Subset, Zenon
    <3> QED BY <3>1, FS_CardinalityType, Zenon
  <2>5. CASE x \in T
    <3>1. x \in s \cap T /\ (s \cap T) \ {x} = (s \ {x}) \cap T
      BY <2>5, Zenon
    <3>2. Cardinality((s \cap T) \ {x}) = Cardinality(s \cap T) - 1 /\ Cardinality(s \cap T) \in Nat
      BY <2>1, <3>1, FS_RemoveElement, FS_CardinalityType, Zenon
    <3> QED BY <2>2, <2>3, <2>4, <2>5, <3>1, <3>2
  <2>6. CASE x \notin T
    <3>1. (s \ {x}) \cap T = s \cap T
      BY <2>6, Zenon
    <3> QED BY <2>2, <2>3, <2>4, <2>6, <3>1
  <2> QED BY <2>5, <2>6, Zenon
<1>3. Grows(P, S)
  BY <1>2, Zenon DEF Grows
<1>4. S \in P
  <2> HIDE DEF P
  <2> QED BY <1>1, <1>3, AllSubsets, Zenon
<1>5. S \cap T = T
  BY Zenon
<1> QED BY <1>4, <1>5, Zenon

-----------------------------------------------------------------------------
(* Quotients.                                                              *)

\* A quotient rounded down, times its divisor.
LEMMA DivDown ==
  ASSUME NEW x \in Nat, NEW c \in Nat \ {0}
  PROVE  x \div c \in Nat /\ (x \div c) * c <= x /\ x < (x \div c) * c + c
<1>1. x \div c \in Int /\ x % c \in 0 .. c - 1
  BY SMT
<1>2. x = c * (x \div c) + (x % c)
  BY SMT
<1>3. x \div c >= 0
  BY SMT
<1> QED BY <1>1, <1>2, <1>3, SMT

\* A product by a smaller factor is smaller, and the other way round.
LEMMA Monotone ==
  ASSUME NEW a \in Int, NEW b \in Int, NEW c \in Nat \ {0}
  PROVE  /\ a <= b => a * c <= b * c
         /\ a * c < (b + 1) * c => a <= b
  BY SMT

\* multiply_ratio rounds down.
LEMMA RatioDown ==
  ASSUME NEW x \in Nat, NEW p \in Nat, NEW q \in Nat \ {0}
  PROVE  /\ multiply_ratio(x, p, q) \in Nat
         /\ multiply_ratio(x, p, q) * q <= x * p
         /\ x * p < multiply_ratio(x, p, q) * q + q
<1>1. x * p \in Nat
  BY SMT
<1> QED BY <1>1, DivDown, Zenon DEF multiply_ratio

\* The smaller of two numbers is one of them.
LEMMA MinOfTwo ==
  ASSUME NEW a \in Nat, NEW b \in Nat
  PROVE  Min({a, b}) \in Nat
<1>1. \E x \in {a, b} : \A y \in {a, b} : x <= y
  OBVIOUS
<1>2. Min({a, b}) \in {a, b}
  BY <1>1, Zenon DEF Min
<1> QED BY <1>2, Zenon

\* A set of numbers has a least one.
LEMMA LeastOfMany ==
  ASSUME NEW S \in SUBSET Nat, S # {}
  PROVE  Min(S) \in S /\ \A y \in S : Min(S) <= y
<1> DEFINE less == {e \in Nat \X Nat : e[1] < e[2]}
<1>1. OpToRel(<, Nat) = less
  BY Zenon DEF OpToRel
<1>2. IsWellFoundedOn(less, Nat)
  BY <1>1, NatLessThanWellFounded, Zenon
<1>3. PICK k \in S : \A j \in S : ~(<<j, k>> \in less)
  <2> HIDE DEF less
  <2> QED BY <1>2, WFMin, Zenon
<1>4. ASSUME NEW y \in S PROVE k <= y
  <2>1. k \in Nat /\ y \in Nat /\ <<y, k>> \in Nat \X Nat
    BY Zenon
  <2>2. ~ (<<y, k>>[1] < <<y, k>>[2])
    BY <1>3, <2>1, Zenon
  <2> QED BY <2>1, <2>2
<1>5. \E x \in S : \A y \in S : x <= y
  BY <1>4, Zenon
<1> QED BY <1>5, Zenon DEF Min

-----------------------------------------------------------------------------
(* Accounts and their libraries.                                           *)

Balances == [Address -> [Denom -> Nat]]
Transfers == [from : Address, to : Address, denom : Denom, amount : Int]
AreTransfers(ts) == \E n \in Nat : DOMAIN ts \subseteq 1 .. n /\ \A i \in DOMAIN ts : ts[i] \in Transfers

flows(ts, a, d) == [i \in DOMAIN ts |-> flow(ts[i], a, d)]

\* What transfers add up to is well defined.
LEMMA Flows ==
  ASSUME NEW ts, AreTransfers(ts), NEW a, NEW d
  PROVE  /\ IsFiniteSet(DOMAIN ts) /\ Ints(flows(ts, a, d), DOMAIN ts)
         /\ \A P \in SUBSET DOMAIN ts : IsFiniteSet(P) /\ Ints(flows(ts, a, d), P)
<1>1. PICK n \in Nat : DOMAIN ts \subseteq 1 .. n /\ \A i \in DOMAIN ts : ts[i] \in Transfers
  BY Zenon DEF AreTransfers
<1>2. IsFiniteSet(1 .. n)
  BY FS_Interval
<1>3. IsFiniteSet(DOMAIN ts) /\ \A P \in SUBSET DOMAIN ts : IsFiniteSet(P)
  BY <1>1, <1>2, FS_Subset, Zenon
<1>4. ASSUME NEW i \in DOMAIN ts PROVE flows(ts, a, d)[i] \in Int
  BY <1>1 DEF flows, flow, Transfers
<1> QED BY <1>3, <1>4, Zenon DEF Ints

\* The bank keeps every balance at or above zero.
LEMMA BankKeepsTypes ==
  ASSUME balance \in Balances, NEW ts, AreTransfers(ts), bank(ts)
  PROVE  /\ balance' \in Balances
         /\ \A a \in Address, d \in Denom :
              /\ SumFunctionOnSet(flows(ts, a, d), DOMAIN ts) \in Int
              /\ balance'[a][d] = balance[a][d] + SumFunctionOnSet(flows(ts, a, d), DOMAIN ts)
<1> DEFINE T == DOMAIN ts
           upTo(n) == {i \in T : i <= n}
<1>1. PICK len \in Nat : T \subseteq 1 .. len /\ \A i \in T : ts[i] \in Transfers
  BY Zenon DEF AreTransfers
<1>2. DOMAIN balance = Address
  BY Zenon DEF Balances
<1>3. ASSUME NEW P, NEW a \in Address, NEW d \in Denom
      PROVE  balanceAfter(ts, P)[a][d] = balance[a][d] + SumFunctionOnSet(flows(ts, a, d), P)
  BY <1>2, Zenon DEF balanceAfter, flows
<1>4. balance' = balanceAfter(ts, T)
  BY Zenon DEF bank
<1>5. ASSUME NEW a \in Address, NEW d \in Denom
      PROVE  /\ balance'[a][d] \in Nat /\ SumFunctionOnSet(flows(ts, a, d), T) \in Int
             /\ balance'[a][d] = balance[a][d] + SumFunctionOnSet(flows(ts, a, d), T)
  <2> DEFINE f == flows(ts, a, d)
             b == balance[a][d]
             N == {n \in Nat : b + SumFunctionOnSet(f, upTo(n)) \in Nat}
  <2>1. b \in Nat
    BY Zenon DEF Balances
  <2>2. 0 \in N
    <3>1. upTo(0) = {}
      BY <1>1
    <3>2. SumFunctionOnSet(f, upTo(0)) = 0
      BY <3>1, SumOfNone, Zenon
    <3> HIDE DEF upTo, b
    <3> QED BY <2>1, <3>2
  <2>3. ASSUME NEW n \in Nat, n \in N PROVE n + 1 \in N
    <3>1. CASE n + 1 \notin T
      <4>1. upTo(n + 1) = upTo(n)
        BY <1>1, <3>1
      <4> HIDE DEF upTo, b
      <4> QED BY <2>3, <4>1
    <3>2. CASE n + 1 \in T
      <4> DEFINE t == ts[n + 1]
                 before == SumFunctionOnSet(f, upTo(n))
      <4>1. n + 1 \in upTo(n + 1) /\ upTo(n + 1) \ {n + 1} = upTo(n) /\ upTo(n + 1) \in SUBSET T
        BY <1>1, <3>2
      <4>2. upTo(n) = {j \in T : j < n + 1}
        BY <1>1
      <4>3. IsFiniteSet(upTo(n + 1)) /\ Ints(f, upTo(n + 1))
        BY <4>1, Flows, Zenon
      <4>4. SumFunctionOnSet(f, upTo(n + 1)) = f[n + 1] + before /\ before \in Int
        <5> HIDE DEF upTo, f
        <5> QED BY <4>1, <4>3, SumStep
      <4>5. t \in Transfers /\ f[n + 1] = flow(t, a, d)
        BY <1>1, <3>2, Zenon DEF flows
      <4>6. t.amount > 0 /\ balanceAfter(ts, upTo(n))[t.from][t.denom] >= t.amount
        BY <3>2, <4>2, Zenon DEF bank
      <4>7. t.from \in Address /\ t.denom \in Denom /\ t.amount \in Int
        BY <4>5, Zenon DEF Transfers
      <4>8. b + before \in Nat
        BY <2>3, Zenon
      <4> HIDE DEF upTo, t, f
      <4>9. b + (flow(t, a, d) + before) \in Nat
        <5>1. CASE t.from = a /\ t.denom = d /\ t.to # a
          <6>1. b + before >= t.amount
            BY <1>3, <4>6, <5>1, Zenon DEF f
          <6>2. flow(t, a, d) = 0 - t.amount
            BY <5>1, Zenon DEF flow
          <6> HIDE DEF b, before
          <6> QED BY <2>1, <4>4, <4>7, <4>8, <6>1, <6>2
        <5>2. CASE ~ (t.from = a /\ t.denom = d /\ t.to # a)
          <6>1. flow(t, a, d) \in Nat
            BY <5>2, <4>6, <4>7 DEF flow
          <6> HIDE DEF b, before
          <6> QED BY <2>1, <4>4, <4>8, <6>1
        <5> QED BY <5>1, <5>2, Zenon
      <4>10. b + SumFunctionOnSet(f, upTo(n + 1)) \in Nat
        BY <4>4, <4>5, <4>9, Zenon
      <4> QED BY <4>10
    <3> QED BY <3>1, <3>2, Zenon
  <2>4. len \in N
    <3> HIDE DEF N
    <3> QED BY <2>2, <2>3, AllNumbers, Zenon
  <2>5. upTo(len) = T
    BY <1>1
  <2>6. b + SumFunctionOnSet(f, T) \in Nat
    BY <2>4, <2>5, Zenon
  <2>7. SumFunctionOnSet(f, T) \in Int
    BY Flows, SumIsInt, Zenon
  <2> QED BY <1>3, <1>4, <2>6, <2>7, Zenon
<1>6. balance' = [a \in Address |-> [d \in Denom |-> balance'[a][d]]]
  BY <1>2, <1>4, Zenon DEF balanceAfter
<1>7. balance' \in Balances
  BY <1>5, <1>6, Zenon DEF Balances
<1> QED BY <1>5, <1>7, Zenon

\* Only an account that a transfer is from has less of a denom afterwards.
LEMMA OnlySendersLose ==
  ASSUME balance \in Balances, NEW ts, AreTransfers(ts), bank(ts),
         NEW a \in Address, NEW d \in Denom, balance'[a][d] < balance[a][d]
  PROVE  \E i \in DOMAIN ts : ts[i].from = a
<1> SUFFICES ASSUME \A i \in DOMAIN ts : ts[i].from # a PROVE FALSE
  BY Zenon
<1> DEFINE f == flows(ts, a, d)
<1>1. ASSUME NEW i \in DOMAIN ts PROVE f[i] \in Nat
  <2>1. ts[i].amount \in Int
    BY Zenon DEF AreTransfers, Transfers
  <2>2. ts[i].amount > 0
    BY Zenon DEF bank
  <2> QED BY <2>1, <2>2 DEF flows, flow
<1>2. IsFiniteSet(DOMAIN ts)
  BY Flows, Zenon
<1>3. SumFunctionOnSet(f, DOMAIN ts) \in Nat
  <2> HIDE DEF f
  <2> QED BY <1>1, <1>2, SumIsNat, Zenon
<1>4. balance'[a][d] = balance[a][d] + SumFunctionOnSet(f, DOMAIN ts)
  BY BankKeepsTypes, Zenon
<1>5. balance[a][d] \in Nat
  BY Zenon DEF Balances
<1> HIDE DEF f
<1> QED BY <1>3, <1>4, <1>5

-----------------------------------------------------------------------------
(* The state.                                                              *)

Anyone == Person \cup {NoOne}
LibrariesTyped ==
  /\ kind \in Kind
  /\ library \in [owner : Anyone, pending : Anyone, processor : Caller \cup {FirstCaller},
                  config : ConfigOf(kind), raw : ConfigOf(kind), last : Seq(Nat)]
  /\ account \in [Account -> [owner : Anyone, pending : Anyone, approved : SUBSET {Lib}]]
  /\ balance \in Balances
  /\ now \in Nat /\ admin \in Nat /\ deposits \in Nat
  /\ calls \in Seq([at : Nat, config : ConfigOf(kind), sent : [Denom -> Int]])

\* What the checks leave of every configuration, though fields change one by one.
Checked(k, c) ==
  /\ k = "forwarder" => ensure_denom_uniqueness(c.forwarding_configs)
  /\ k = "reverse_splitter" =>
       /\ c.splits # << >> /\ UniqueSplits(c.splits)
       /\ \A i \in DOMAIN c.splits :
            (c.splits[i].type = "ratio" => c.splits[i].value # 0) /\ c.splits[i].factor # <<0>>

LibrariesInv == LibrariesTyped /\ Checked(kind, library.config)

ForwarderConfig == [input_addr : Account, output_addr : Address, min_interval : Nat,
                    forwarding_configs : Seq(Forwarding)]
SplitterConfig == [input_addr : Account, splits : Seq(Split)]
ReverseConfig == [output_addr : Address, splits : Seq(Split), base_denom : Denom]

\* The configuration of each library.
LEMMA Configurations ==
  /\ ConfigOf("forwarder") = ForwarderConfig
  /\ ConfigOf("splitter") = SplitterConfig
  /\ ConfigOf("reverse_splitter") = ReverseConfig
<1>1. "forwarder" # "splitter" /\ "forwarder" # "reverse_splitter" /\ "splitter" # "reverse_splitter"
  BY Zenon
<1> QED BY <1>1, Zenon DEF ConfigOf, ForwarderConfig, SplitterConfig, ReverseConfig

\* The configuration there is.
LEMMA ConfigTyped ==
  ASSUME LibrariesTyped
  PROVE  /\ kind \in {"forwarder", "splitter", "reverse_splitter"}
         /\ library.config \in ConfigOf(kind)
         /\ kind = "forwarder" => library.config \in ForwarderConfig
         /\ kind = "splitter" => library.config \in SplitterConfig
         /\ kind = "reverse_splitter" => library.config \in ReverseConfig
<1>1. kind \in {"forwarder", "splitter", "reverse_splitter"}
  BY LibrariesConstants, Zenon DEF LibrariesTyped
<1>2. library.config \in ConfigOf(kind)
  BY Zenon DEF LibrariesTyped
<1> QED BY <1>1, <1>2, Configurations, Zenon

\* A sequence of one element.
LEMMA OfOneAtMost ==
  ASSUME NEW w \in Seq(Nat), Len(w) <= 1, w # << >>
  PROVE  w[1] \in Nat /\ (w[1] = 0 => w = <<0>>)
<1>1. ASSUME NEW n \in Nat, n <= 1, n # 0 PROVE n = 1
  BY <1>1
<1>2. Len(w) \in Nat /\ Len(w) # 0
  OBVIOUS
<1>3. Len(w) = 1
  BY <1>1, <1>2, Zenon
<1>4. ASSUME NEW R, NEW v \in Seq(R), NEW i \in 1 .. Len(v) PROVE v[i] \in R
  BY <1>4
<1>5. 1 \in 1 .. Len(w)
  BY <1>3
<1>6. w[1] \in Nat
  BY <1>4, <1>5, Zenon
<1>7. ASSUME w[1] = 0 PROVE w = <<0>>
  BY <1>3, <1>7
<1> QED BY <1>6, <1>7, Zenon

\* A split.
LEMMA SplitTyped ==
  ASSUME NEW splits \in Seq(Split), NEW i \in DOMAIN splits, NEW dynamic \in [Denom -> Ratios]
  PROVE  /\ splits[i].account \in Address /\ splits[i].denom \in Denom /\ splits[i].value \in Nat
         /\ splits[i].type \in {"amount", "ratio", "dynamic"}
         /\ ratio(splits[i], dynamic) \in Nat /\ ratioToBase(splits[i], dynamic) \in Nat
         /\ factorOf(splits[i]) \in Nat
         /\ splits[i].factor # <<0>> => factorOf(splits[i]) # 0
         /\ splits[i].type = "ratio" => ratioToBase(splits[i], dynamic) = splits[i].value
<1> DEFINE s == splits[i]
<1>1. s \in Split
  OBVIOUS
<1> HIDE DEF s
<1>2. /\ s.account \in Address /\ s.denom \in Denom /\ s.value \in Nat
      /\ s.type \in {"amount", "ratio", "dynamic"} /\ s.factor \in {f \in Seq(Nat) : Len(f) <= 1}
  BY <1>1, Zenon DEF Split
<1>3. dynamic[s.denom] \in Nat
  BY <1>2, LibrariesConstants, ZenonT(40)
<1>4. ratio(s, dynamic) \in Nat /\ (s.type = "ratio" => ratio(s, dynamic) = s.value)
  BY <1>2, <1>3, Zenon DEF ratio
<1>5. ratioToBase(s, dynamic) \in Nat /\ (s.type = "ratio" => ratioToBase(s, dynamic) = ratio(s, dynamic))
  BY <1>4, DecimalOneAssumption, Zenon DEF ratioToBase
<1>6. factorOf(s) \in Nat /\ (s.factor # <<0>> => factorOf(s) # 0)
  <2>1. CASE s.factor = << >>
    BY <2>1 DEF factorOf
  <2>2. CASE s.factor # << >>
    <3>1. s.factor[1] \in Nat /\ (s.factor[1] = 0 => s.factor = <<0>>)
      <4> DEFINE w == s.factor
      <4>1. w \in Seq(Nat) /\ Len(w) <= 1 /\ w # << >>
        BY <1>2, <2>2, Zenon
      <4> HIDE DEF w
      <4> QED BY <4>1, OfOneAtMost, Zenon DEF w
    <3>2. factorOf(s) = s.factor[1]
      BY <2>2, Zenon DEF factorOf
    <3> QED BY <3>1, <3>2, Zenon
  <2> QED BY <2>1, <2>2, Zenon
<1> QED BY <1>2, <1>4, <1>5, <1>6, Zenon DEF s

\* What the forwarder sends.
LEMMA ForwardTransfers ==
  ASSUME LibrariesInv, kind = "forwarder"
  PROVE  /\ AreTransfers(forward(library.config))
         /\ \A i \in DOMAIN forward(library.config) :
              forward(library.config)[i].from = library.config.input_addr
<1> DEFINE cfg == library.config
           configs == cfg.forwarding_configs
           ts == forward(cfg)
           available(i) == balance[cfg.input_addr][configs[i].denom]
<1>1. cfg \in ForwarderConfig
  BY ConfigTyped, Zenon DEF LibrariesInv
<1> HIDE DEF cfg
<1>2. /\ cfg.input_addr \in Address /\ cfg.output_addr \in Address
      /\ configs \in Seq(Forwarding)
  BY <1>1, Zenon DEF ForwarderConfig, Address
<1>3. DOMAIN configs = 1 .. Len(configs) /\ Len(configs) \in Nat
  BY <1>2
<1>4. ASSUME NEW i \in DOMAIN configs
      PROVE  configs[i].denom \in Denom /\ configs[i].max_amount \in Nat /\ available(i) \in Nat
  <2>1. configs[i] \in Forwarding
    <3> HIDE DEF configs
    <3> QED BY <1>2, <1>4
  <2>2. configs[i].denom \in Denom /\ configs[i].max_amount \in Nat
    BY <2>1, Zenon DEF Forwarding
  <2> QED BY <1>2, <2>2, ZenonT(40) DEF LibrariesInv, LibrariesTyped, Balances
<1>5. /\ DOMAIN ts \subseteq DOMAIN configs
      /\ \A i \in DOMAIN ts :
           ts[i] = Transfer(cfg.input_addr, cfg.output_addr, configs[i].denom,
                            Min({available(i), configs[i].max_amount}))
  BY Zenon DEF forward
<1> HIDE DEF ts, configs
<1>6. ASSUME NEW i \in DOMAIN ts PROVE ts[i] \in Transfers /\ ts[i].from = cfg.input_addr
  <2>1. i \in DOMAIN configs
    BY <1>5, Zenon
  <2>2. Min({available(i), configs[i].max_amount}) \in Nat
    BY <1>4, <2>1, MinOfTwo, Zenon
  <2>3. ts[i] = [from |-> cfg.input_addr, to |-> cfg.output_addr, denom |-> configs[i].denom,
                 amount |-> Min({available(i), configs[i].max_amount})]
    BY <1>5, Zenon DEF Transfer
  <2> HIDE DEF available
  <2> QED BY <1>2, <1>4, <2>1, <2>2, <2>3 DEF Transfers
<1>7. DOMAIN ts \subseteq 1 .. Len(configs)
  BY <1>3, <1>5, Zenon
<1> QED BY <1>3, <1>6, <1>7, Zenon DEF AreTransfers, ts, cfg

\* What the splitter sends.
LEMMA SplitTransfers ==
  ASSUME LibrariesInv, kind = "splitter", NEW dynamic \in [Denom -> Ratios]
  PROVE  /\ AreTransfers(splitAmounts(library.config, dynamic))
         /\ \A i \in DOMAIN splitAmounts(library.config, dynamic) :
              splitAmounts(library.config, dynamic)[i].from = library.config.input_addr
<1> DEFINE cfg == library.config
           splits == cfg.splits
           ts == splitAmounts(cfg, dynamic)
           amount(i) == IF splits[i].type = "amount" THEN splits[i].value
                        ELSE multiply_ratio(balance[cfg.input_addr][splits[i].denom],
                                            ratio(splits[i], dynamic), DecimalOne)
<1>1. cfg \in SplitterConfig
  BY ConfigTyped, Zenon DEF LibrariesInv
<1> HIDE DEF cfg
<1>2. cfg.input_addr \in Address /\ splits \in Seq(Split)
  BY <1>1, Zenon DEF SplitterConfig, Address
<1>3. DOMAIN splits = 1 .. Len(splits) /\ Len(splits) \in Nat
  BY <1>2
<1>4. ASSUME NEW i \in DOMAIN splits
      PROVE  splits[i].denom \in Denom /\ splits[i].account \in Address /\ amount(i) \in Int
  <2> HIDE DEF splits
  <2>1. /\ splits[i].account \in Address /\ splits[i].denom \in Denom /\ splits[i].value \in Nat
        /\ ratio(splits[i], dynamic) \in Nat
    BY <1>2, <1>4, SplitTyped, Zenon
  <2>2. balance[cfg.input_addr][splits[i].denom] \in Nat
    BY <1>2, <2>1, ZenonT(40) DEF LibrariesInv, LibrariesTyped, Balances
  <2>3. multiply_ratio(balance[cfg.input_addr][splits[i].denom], ratio(splits[i], dynamic), DecimalOne) \in Nat
    BY <2>1, <2>2, RatioDown, DecimalOneAssumption, Zenon
  <2> QED BY <2>1, <2>3
<1>5. /\ DOMAIN ts = DOMAIN splits
      /\ \A i \in DOMAIN ts :
           ts[i] = Transfer(cfg.input_addr, splits[i].account, splits[i].denom, amount(i))
  BY Zenon DEF splitAmounts
<1> HIDE DEF ts, splits, amount
<1>6. ASSUME NEW i \in DOMAIN ts PROVE ts[i] \in Transfers /\ ts[i].from = cfg.input_addr
  <2>1. ts[i] = [from |-> cfg.input_addr, to |-> splits[i].account, denom |-> splits[i].denom,
                 amount |-> amount(i)]
    BY <1>5, Zenon DEF Transfer
  <2> QED BY <1>2, <1>4, <1>5, <2>1 DEF Transfers
<1>7. DOMAIN ts \subseteq 1 .. Len(splits)
  BY <1>3, <1>5, Zenon
<1> QED BY <1>3, <1>6, <1>7, Zenon DEF AreTransfers, ts, cfg

\* What the reverse splitter can pay, and what it asks for.
LEMMA ReverseTransfers ==
  ASSUME LibrariesInv, kind = "reverse_splitter", NEW dynamic \in [Denom -> Ratios],
         coversReverse(library.config, dynamic)
  PROVE  /\ AreTransfers(reverseAmounts(library.config, dynamic))
         /\ DOMAIN reverseAmounts(library.config, dynamic) = DOMAIN library.config.splits
         /\ \A i \in DOMAIN library.config.splits :
              reverseAmounts(library.config, dynamic)[i].from = library.config.splits[i].account
         /\ \A i \in DOMAIN library.config.splits : payable(library.config.splits[i], dynamic) \in Nat
         /\ min_amount_in_base_denom(library.config, dynamic) \in Nat
         /\ \E i \in DOMAIN library.config.splits :
              min_amount_in_base_denom(library.config, dynamic)
                = payable(library.config.splits[i], dynamic)
<1> DEFINE cfg == library.config
           splits == cfg.splits
           ts == reverseAmounts(cfg, dynamic)
           m == min_amount_in_base_denom(cfg, dynamic)
           fixed == \A i \in DOMAIN splits : splits[i].type = "amount"
           amount(i) == IF fixed THEN splits[i].value
                        ELSE out_of_base_denom(m, ratioToBase(splits[i], dynamic), factorOf(splits[i]))
<1>1. cfg \in ReverseConfig /\ Checked("reverse_splitter", cfg)
  BY ConfigTyped, Zenon DEF LibrariesInv
<1>2. \A i \in DOMAIN splits : ratioToBase(splits[i], dynamic) # 0
  BY Zenon DEF coversReverse
<1> HIDE DEF cfg
<1>3. cfg.output_addr \in Address /\ splits \in Seq(Split) /\ splits # << >>
  BY <1>1, Zenon DEF ReverseConfig, Checked
<1>4. DOMAIN splits = 1 .. Len(splits) /\ Len(splits) \in Nat /\ 1 \in DOMAIN splits
  BY <1>3
<1>5. ASSUME NEW i \in DOMAIN splits
      PROVE  /\ splits[i].account \in Address /\ splits[i].denom \in Denom /\ splits[i].value \in Nat
             /\ ratio(splits[i], dynamic) \in Nat /\ ratioToBase(splits[i], dynamic) \in Nat \ {0}
             /\ factorOf(splits[i]) \in Nat \ {0}
  <2>1. splits[i].factor # <<0>>
    BY <1>1, Zenon DEF Checked
  <2> HIDE DEF splits
  <2> QED BY <1>2, <1>3, <2>1, SplitTyped, Zenon
<1>6. ASSUME NEW i \in DOMAIN splits PROVE payable(splits[i], dynamic) \in Nat
  <2> DEFINE s == splits[i]
             b == balance[s.account][s.denom]
             x == multiply_ratio(b, ratio(s, dynamic), DecimalOne)
  <2>1. b \in Nat
    BY <1>5 DEF LibrariesInv, LibrariesTyped, Balances
  <2>2. x \in Nat
    <3> HIDE DEF s
    <3>1. ratio(s, dynamic) \in Nat
      BY <1>5, <1>6, Zenon DEF s
    <3> QED BY <2>1, <3>1, RatioDown, DecimalOneAssumption, Zenon
  <2>3. x \div factorOf(s) \in Nat
    <3> HIDE DEF x, s
    <3>1. factorOf(s) \in Nat \ {0}
      BY <1>5, <1>6, Zenon DEF s
    <3> QED BY <2>2, <3>1, DivDown, Zenon
  <2> QED BY <1>5, <2>3, Zenon DEF payable, in_base_denom
<1>7. m \in Nat /\ \E i \in DOMAIN splits : m = payable(splits[i], dynamic)
  <2> DEFINE S == {payable(splits[i], dynamic) : i \in DOMAIN splits}
  <2>1. S \in SUBSET Nat /\ S # {}
    BY <1>4, <1>6, Zenon
  <2>2. Min(S) \in S
    <3> HIDE DEF S
    <3> QED BY <2>1, LeastOfMany, Zenon
  <2>3. m = Min(S)
    BY Zenon DEF min_amount_in_base_denom
  <2>4. m \in S
    BY <2>2, <2>3, Zenon
  <2> QED BY <2>1, <2>4, Zenon
<1> HIDE DEF m
<1>8. ASSUME NEW i \in DOMAIN splits PROVE amount(i) \in Int
  <2> DEFINE q == multiply_ratio(m, DecimalOne, ratioToBase(splits[i], dynamic))
  <2>1. q \in Nat
    BY <1>5, <1>7, RatioDown, DecimalOneAssumption, Zenon
  <2>2. factorOf(splits[i]) \in Nat /\ splits[i].value \in Nat
    BY <1>5, Zenon
  <2> HIDE DEF q
  <2>3. q * factorOf(splits[i]) \in Int
    BY <2>1, <2>2
  <2> QED BY <2>2, <2>3 DEF out_of_base_denom, q
<1>9. /\ DOMAIN ts = DOMAIN splits
      /\ \A i \in DOMAIN ts : ts[i] = Transfer(splits[i].account, cfg.output_addr, splits[i].denom, amount(i))
  BY Zenon DEF reverseAmounts, m
<1> HIDE DEF ts, splits, amount
<1>10. ASSUME NEW i \in DOMAIN ts PROVE ts[i] \in Transfers /\ ts[i].from = splits[i].account
  <2>1. ts[i] = [from |-> splits[i].account, to |-> cfg.output_addr, denom |-> splits[i].denom,
                 amount |-> amount(i)]
    BY <1>9, Zenon DEF Transfer
  <2> QED BY <1>3, <1>5, <1>8, <1>9, <2>1 DEF Transfers
<1>11. DOMAIN ts \subseteq 1 .. Len(splits)
  BY <1>4, <1>9, Zenon
<1>12. AreTransfers(ts)
  BY <1>4, <1>10, <1>11, Zenon DEF AreTransfers
<1> QED BY <1>6, <1>7, <1>9, <1>10, <1>12, Zenon DEF ts, cfg, splits, m

-----------------------------------------------------------------------------
(* Who spends.                                                             *)

\* Only the library, called by its processor, where it is approved, or the owner.
Admitted ==
  \A a \in DOMAIN balance \ Outside, d \in Denom :
    balance'[a][d] < balance[a][d] =>
      \/ /\ Lib \in account[a].approved /\ Len(calls') > Len(calls)
         /\ spender' = library.processor
      \/ /\ spender' = account[a].owner /\ account[a].owner \in Person
         /\ UNCHANGED calls

\* A call of the library by its processor.
LEMMA CarriedOut ==
  ASSUME LibrariesInv, NEW ts, NEW payers, AreTransfers(ts), NEW s, assert_processor(s),
         \A i \in DOMAIN ts : ts[i].from \in payers, carryOut(ts, payers, s)
  PROVE  /\ Admitted /\ balance' \in Balances /\ Len(calls') = Len(calls) + 1
         /\ calls' = Append(calls, [at |-> now, config |-> library.config,
                                    sent |-> [d \in Denom |-> total(ts, d)]])
         /\ [d \in Denom |-> total(ts, d)] \in [Denom -> Int]
         /\ UNCHANGED <<kind, account, now, admin, deposits>>
<1>1. balance \in Balances /\ calls \in Seq([at : Nat, config : ConfigOf(kind), sent : [Denom -> Int]])
  BY Zenon DEF LibrariesInv, LibrariesTyped
<1>2. /\ bank(ts) /\ \A a \in payers : mayExecute(a, Lib)
      /\ calls' = Append(calls, [at |-> now, config |-> library.config,
                                 sent |-> [d \in Denom |-> total(ts, d)]])
      /\ spender' = library.processor /\ UNCHANGED <<kind, account, now, admin, deposits>>
  BY Zenon DEF carryOut, assert_processor
<1>3. Len(calls') = Len(calls) + 1 /\ Len(calls') > Len(calls)
  BY <1>1, <1>2
<1>4. balance' \in Balances
  BY <1>1, <1>2, BankKeepsTypes, Zenon
<1>5. ASSUME NEW a \in DOMAIN balance \ Outside, NEW d \in Denom, balance'[a][d] < balance[a][d]
      PROVE  Lib \in account[a].approved
  <2>1. a \in Address /\ a \in Account
    BY <1>1, Zenon DEF Balances, Address
  <2>2. a \in payers
    <3>1. \E i \in DOMAIN ts : ts[i].from = a
      BY <1>1, <1>2, <1>5, <2>1, OnlySendersLose, Zenon
    <3> QED BY <3>1, Zenon
  <2>3. isOwner(a, Lib) \/ Lib \in account[a].approved
    BY <1>2, <2>2, Zenon DEF mayExecute
  <2>4. account[a].owner # Lib
    <3>1. account[a].owner \in Person \cup {NoOne}
      BY <2>1, Zenon DEF LibrariesInv, LibrariesTyped, Anyone
    <3>2. NoOne # Lib
      BY Zenon DEF NoOne, Lib
    <3> QED BY <3>1, <3>2, LibrariesConstants, Zenon
  <2> QED BY <2>3, <2>4, Zenon DEF isOwner
<1>6. Admitted
  BY <1>2, <1>3, <1>5, Zenon DEF Admitted
<1>7. ASSUME NEW d \in Denom PROVE total(ts, d) \in Int
  <2> DEFINE f == [i \in DOMAIN ts |-> IF ts[i].denom = d THEN ts[i].amount ELSE 0]
  <2>1. IsFiniteSet(DOMAIN ts)
    BY Flows, Zenon
  <2>2. \A i \in DOMAIN ts : ts[i].amount \in Int
    BY Zenon DEF AreTransfers, Transfers
  <2>3. Ints(f, DOMAIN ts) /\ DOMAIN f = DOMAIN ts
    BY <2>2 DEF Ints
  <2> HIDE DEF f
  <2>4. SumFunctionOnSet(f, DOMAIN ts) \in Int
    BY <2>1, <2>3, SumIsInt, Zenon
  <2> QED BY <2>3, <2>4, Zenon DEF total, SumFunction, f
<1>8. [d \in Denom |-> total(ts, d)] \in [Denom -> Int]
  BY <1>7, Zenon
<1> QED BY <1>2, <1>3, <1>4, <1>6, <1>8, Zenon

\* A step that moves no coins.
LEMMA NoneSpent ==
  ASSUME balance \in Balances, balance' = balance
  PROVE  Admitted
<1>1. ASSUME NEW a \in DOMAIN balance, NEW d \in Denom PROVE ~ (balance'[a][d] < balance[a][d])
  <2>1. balance[a][d] \in Nat
    BY Zenon DEF Balances
  <2> QED BY <2>1
<1> QED BY <1>1, Zenon DEF Admitted

\* An owner spends.
LEMMA OwnerSpends ==
  ASSUME LibrariesInv, NEW a \in Account, NEW s \in Person, NEW b \in Address, NEW d \in Denom,
         NEW n \in Int, execute_msg(a, s, Transfer(a, b, d, n))
  PROVE  Admitted /\ balance' \in Balances
<1> DEFINE t == Transfer(a, b, d, n)
           ts == <<t>>
<1>1. bank(ts) /\ mayExecute(a, s) /\ spender' = s /\ UNCHANGED calls
  BY Zenon DEF execute_msg, Administered
<1>2. t \in Transfers /\ t.from = a
  BY Zenon DEF Transfer, Transfers, Address
<1> HIDE DEF t
<1>3. DOMAIN ts = 1 .. 1 /\ ts[1] = t
  OBVIOUS
<1> HIDE DEF ts
<1>4. \A i \in DOMAIN ts : i = 1 /\ ts[i] \in Transfers /\ ts[i].from = a
  BY <1>2, <1>3
<1>5. AreTransfers(ts)
  BY <1>3, <1>4, Zenon DEF AreTransfers
<1>6. balance \in Balances
  BY Zenon DEF LibrariesInv, LibrariesTyped
<1>7. balance' \in Balances
  BY <1>1, <1>5, <1>6, BankKeepsTypes, Zenon
<1>8. spender' = account[a].owner /\ account[a].owner \in Person /\ UNCHANGED calls
  <2>1. account[a].owner \in Person \cup {NoOne} /\ account[a].approved \subseteq {Lib}
    BY Zenon DEF LibrariesInv, LibrariesTyped, Anyone
  <2>2. s # Lib
    BY LibrariesConstants, Zenon
  <2>3. account[a].owner = s
    BY <1>1, <2>1, <2>2, Zenon DEF mayExecute, isOwner
  <2> QED BY <1>1, <2>3, Zenon
<1>9. ASSUME NEW x \in DOMAIN balance \ Outside, NEW y \in Denom, balance'[x][y] < balance[x][y]
      PROVE  x = a
  <2>1. x \in Address
    BY <1>6, Zenon DEF Balances
  <2>2. \E i \in DOMAIN ts : ts[i].from = x
    BY <1>1, <1>5, <1>6, <1>9, <2>1, OnlySendersLose, Zenon
  <2> QED BY <1>4, <2>2, Zenon
<1>10. Admitted
  BY <1>8, <1>9, Zenon DEF Admitted
<1> QED BY <1>7, <1>10, Zenon

-----------------------------------------------------------------------------
(* The other steps.                                                        *)

\* Fields of one configuration in place of those of another.
LEMMA OverlayTyped ==
  ASSUME NEW k \in {"forwarder", "splitter", "reverse_splitter"},
         NEW old \in ConfigOf(k), NEW F, NEW new \in ConfigOf(k)
  PROVE  /\ overlay(old, F, new) \in ConfigOf(k)
         /\ \A f \in DOMAIN old : overlay(old, F, new)[f] = IF f \in F THEN new[f] ELSE old[f]
<1> DEFINE c == overlay(old, F, new)
<1>1. DOMAIN c = DOMAIN old /\ \A f \in DOMAIN old : c[f] = IF f \in F THEN new[f] ELSE old[f]
  BY Zenon DEF overlay
<1>2. CASE k = "forwarder"
  <2>1. old \in ForwarderConfig /\ new \in ForwarderConfig
    BY <1>2, Configurations, Zenon
  <2>2. c = [input_addr |-> c["input_addr"], output_addr |-> c["output_addr"],
             min_interval |-> c["min_interval"], forwarding_configs |-> c["forwarding_configs"]]
    BY <2>1 DEF ForwarderConfig, overlay
  <2>3. /\ DOMAIN old = {"input_addr", "output_addr", "min_interval", "forwarding_configs"}
        /\ old["input_addr"] \in Account /\ new["input_addr"] \in Account
        /\ old["output_addr"] \in Address /\ new["output_addr"] \in Address
        /\ old["min_interval"] \in Nat /\ new["min_interval"] \in Nat
        /\ old["forwarding_configs"] \in Seq(Forwarding) /\ new["forwarding_configs"] \in Seq(Forwarding)
    BY <2>1, Zenon DEF ForwarderConfig
  <2> HIDE DEF c
  <2>4. /\ c["input_addr"] \in Account /\ c["output_addr"] \in Address /\ c["min_interval"] \in Nat
        /\ c["forwarding_configs"] \in Seq(Forwarding)
    BY <1>1, <2>3, Zenon
  <2>5. c \in ForwarderConfig
    BY <2>2, <2>4, Zenon DEF ForwarderConfig
  <2> QED BY <1>1, <1>2, <2>5, Configurations, Zenon DEF c
<1>3. CASE k = "splitter"
  <2>1. old \in SplitterConfig /\ new \in SplitterConfig
    BY <1>3, Configurations, Zenon
  <2>2. c = [input_addr |-> c["input_addr"], splits |-> c["splits"]]
    BY <2>1 DEF SplitterConfig, overlay
  <2>3. /\ DOMAIN old = {"input_addr", "splits"}
        /\ old["input_addr"] \in Account /\ new["input_addr"] \in Account
        /\ old["splits"] \in Seq(Split) /\ new["splits"] \in Seq(Split)
    BY <2>1, Zenon DEF SplitterConfig
  <2> HIDE DEF c
  <2>4. c["input_addr"] \in Account /\ c["splits"] \in Seq(Split)
    BY <1>1, <2>3, Zenon
  <2>5. c \in SplitterConfig
    BY <2>2, <2>4, Zenon DEF SplitterConfig
  <2> QED BY <1>1, <1>3, <2>5, Configurations, Zenon DEF c
<1>4. CASE k = "reverse_splitter"
  <2>1. old \in ReverseConfig /\ new \in ReverseConfig
    BY <1>4, Configurations, Zenon
  <2>2. c = [output_addr |-> c["output_addr"], splits |-> c["splits"], base_denom |-> c["base_denom"]]
    BY <2>1 DEF ReverseConfig, overlay
  <2>3. /\ DOMAIN old = {"output_addr", "splits", "base_denom"}
        /\ old["output_addr"] \in Address /\ new["output_addr"] \in Address
        /\ old["splits"] \in Seq(Split) /\ new["splits"] \in Seq(Split)
        /\ old["base_denom"] \in Denom /\ new["base_denom"] \in Denom
    BY <2>1, Zenon DEF ReverseConfig
  <2> HIDE DEF c
  <2>4. c["output_addr"] \in Address /\ c["splits"] \in Seq(Split) /\ c["base_denom"] \in Denom
    BY <1>1, <2>3, Zenon
  <2>5. c \in ReverseConfig
    BY <2>2, <2>4, Zenon DEF ReverseConfig
  <2> QED BY <1>1, <1>4, <2>5, Configurations, Zenon DEF c
<1> QED BY <1>2, <1>3, <1>4, Zenon

\* What the validation of new splits, or of new denoms, asks for.
LEMMA AcceptedIsChecked ==
  ASSUME NEW k \in {"forwarder", "splitter", "reverse_splitter"}, NEW F, NEW c, accepted_config(k, F, c)
  PROVE  /\ k = "forwarder" /\ "forwarding_configs" \in F => Checked(k, c)
         /\ k = "splitter" => Checked(k, c)
         /\ k = "reverse_splitter" /\ "splits" \in F => Checked(k, c)
<1>1. "forwarder" # "splitter" /\ "forwarder" # "reverse_splitter" /\ "splitter" # "reverse_splitter"
  BY Zenon
<1>2. CASE k = "forwarder"
  BY <1>1, <1>2, Zenon DEF accepted_config, Checked
<1>3. CASE k = "splitter"
  BY <1>1, <1>3, Zenon DEF Checked
<1>4. CASE k = "reverse_splitter"
  <2>1. "splits" \in F => validate_splits_reverse(c.splits, c.base_denom)
    BY <1>1, <1>4, Zenon DEF accepted_config
  <2> QED BY <1>1, <1>4, <2>1, Zenon DEF validate_splits_reverse, Checked
<1> QED BY <1>2, <1>3, <1>4, Zenon

\* UpdateConfig keeps to what the checks leave.
LEMMA UpdateKeepsChecked ==
  ASSUME NEW k \in {"forwarder", "splitter", "reverse_splitter"},
         NEW old \in ConfigOf(k), NEW F, NEW new \in ConfigOf(k), Checked(k, old),
         accepted_config(k, F, overlay(old, F, new))
  PROVE  Checked(k, overlay(old, F, new))
<1> DEFINE c == overlay(old, F, new)
<1>1. \A f \in DOMAIN old : c[f] = IF f \in F THEN new[f] ELSE old[f]
  BY OverlayTyped
<1>2. /\ k = "forwarder" /\ "forwarding_configs" \in F => Checked(k, c)
      /\ k = "splitter" => Checked(k, c)
      /\ k = "reverse_splitter" /\ "splits" \in F => Checked(k, c)
  BY AcceptedIsChecked, Zenon
<1> HIDE DEF c
<1>3. CASE k = "forwarder" /\ "forwarding_configs" \notin F
  <2>1. old \in ForwarderConfig
    BY <1>3, Configurations, Zenon
  <2>2. "forwarding_configs" \in DOMAIN old
    BY <2>1, Zenon DEF ForwarderConfig
  <2>3. c.forwarding_configs = old.forwarding_configs
    BY <1>1, <1>3, <2>2, Zenon
  <2> QED BY <1>3, <2>3, Zenon DEF Checked, c
<1>4. CASE k = "reverse_splitter" /\ "splits" \notin F
  <2>1. old \in ReverseConfig
    BY <1>4, Configurations, Zenon
  <2>2. "splits" \in DOMAIN old
    BY <2>1, Zenon DEF ReverseConfig
  <2>3. c.splits = old.splits
    BY <1>1, <1>4, <2>2, Zenon
  <2> QED BY <1>4, <2>3, Zenon DEF Checked, c
<1> QED BY <1>2, <1>3, <1>4, Zenon DEF c

StepKeeps == LibrariesInv' /\ Admitted

\* Owners' operations on an account.
LEMMA AccountIsKept ==
  ASSUME LibrariesInv, NEW a \in Account, NEW s \in Person,
         approve_library(a, s) \/ remove_library(a, s) \/ update_ownership(a, s)
  PROVE  StepKeeps
<1> DEFINE A == [owner : Anyone, pending : Anyone, approved : SUBSET {Lib}]
<1>1. account \in [Account -> A] /\ account[a] \in A /\ admin \in Nat /\ balance \in Balances
  BY Zenon DEF LibrariesInv, LibrariesTyped
<1>2. UNCHANGED <<kind, library, balance, now, calls, deposits>> /\ admin' = admin + 1
  BY Zenon DEF approve_library, remove_library, update_ownership, Administered
<1>3. account' \in [Account -> A]
  <2>1. CASE approve_library(a, s)
    BY <1>1, <2>1, Zenon DEF approve_library
  <2>2. CASE remove_library(a, s)
    BY <1>1, <2>2, Zenon DEF remove_library
  <2>3. CASE update_ownership(a, s)
    <3>1. PICK o \in newOwnership(account[a], s) : account' = [account EXCEPT ![a] = o]
      BY <2>3, Zenon DEF update_ownership
    <3>2. \A p \in Anyone, w \in Anyone :
             [account[a] EXCEPT !.pending = p] \in A /\ [account[a] EXCEPT !.owner = w, !.pending = p] \in A
      BY <1>1, Zenon
    <3>3. s \in Anyone /\ NoOne \in Anyone /\ Person \subseteq Anyone
      BY Zenon DEF Anyone
    <3>4. o \in A
      <4> HIDE DEF A
      <4> QED BY <3>1, <3>2, <3>3, Zenon DEF newOwnership
    <3> HIDE DEF A
    <3> QED BY <1>1, <3>1, <3>4, Zenon
  <2> QED BY <2>1, <2>2, <2>3, Zenon
<1>4. LibrariesInv'
  BY <1>1, <1>2, <1>3 DEF LibrariesInv, LibrariesTyped
<1>5. Admitted
  BY <1>1, <1>2, NoneSpent, Zenon
<1> QED BY <1>4, <1>5, Zenon DEF StepKeeps

\* Operations of the owner of the library.
LEMMA LibraryIsKept ==
  ASSUME LibrariesInv, NEW s \in Person,
         \/ \E c \in Configs(kind) : \E F \in SUBSET DOMAIN c : update_config(s, F, c)
         \/ \E p \in Caller : update_processor(s, p)
         \/ library_ownership(s)
  PROVE  StepKeeps
<1> DEFINE L == [owner : Anyone, pending : Anyone, processor : Caller \cup {FirstCaller},
                 config : ConfigOf(kind), raw : ConfigOf(kind), last : Seq(Nat)]
<1>1. library \in L /\ admin \in Nat /\ balance \in Balances /\ kind \in Kind
  BY Zenon DEF LibrariesInv, LibrariesTyped
<1>2. UNCHANGED <<kind, account, balance, now, calls, deposits>> /\ admin' = admin + 1
  BY Zenon DEF update_config, update_processor, library_ownership, Administered
<1>3. library' \in L /\ Checked(kind, library'.config)
  <2>1. ASSUME NEW c \in Configs(kind), NEW F, update_config(s, F, c)
        PROVE  library' \in L /\ Checked(kind, library'.config)
    <3> DEFINE n == overlay(library.config, F, c)
               r == overlay(library.raw, F, c)
    <3>1. /\ accepted_config(kind, F, n)
          /\ library' = [library EXCEPT !.raw = r, !.config = n]
      BY <2>1, Zenon DEF update_config
    <3>2. /\ kind \in {"forwarder", "splitter", "reverse_splitter"}
          /\ library.config \in ConfigOf(kind) /\ library.raw \in ConfigOf(kind)
          /\ c \in ConfigOf(kind)
      BY <1>1, <2>1, ConfigTyped, LibrariesConstants, Zenon DEF LibrariesInv
    <3>3. n \in ConfigOf(kind) /\ r \in ConfigOf(kind) /\ Checked(kind, n)
      BY <3>1, <3>2, OverlayTyped, UpdateKeepsChecked, Zenon DEF LibrariesInv
    <3> HIDE DEF n, r
    <3> QED BY <1>1, <3>1, <3>3, Zenon
  <2>2. ASSUME NEW p \in Caller, update_processor(s, p)
        PROVE  library' \in L /\ Checked(kind, library'.config)
    <3>1. library' = [library EXCEPT !.processor = p]
      BY <2>2, Zenon DEF update_processor
    <3>2. library'.config = library.config
      BY <1>1, <3>1, Zenon
    <3> QED BY <1>1, <3>1, <3>2, Zenon DEF LibrariesInv
  <2>3. ASSUME library_ownership(s)
        PROVE  library' \in L /\ Checked(kind, library'.config)
    <3> DEFINE owned == [owner |-> library.owner, pending |-> library.pending]
    <3>1. PICK o \in newOwnership(owned, s) :
            library' = [library EXCEPT !.owner = o.owner, !.pending = o.pending]
      BY <2>3, Zenon DEF library_ownership
    <3>2. o \in [owner : Anyone, pending : Anyone]
      BY <1>1, <3>1, ZenonT(40) DEF newOwnership, Anyone
    <3>3. library'.config = library.config
      BY <1>1, <3>1, Zenon
    <3> QED BY <1>1, <3>1, <3>2, <3>3, Zenon DEF LibrariesInv
  <2> QED BY <2>1, <2>2, <2>3, Zenon
<1>4. LibrariesInv'
  BY <1>1, <1>2, <1>3 DEF LibrariesInv, LibrariesTyped
<1>5. Admitted
  BY <1>1, <1>2, NoneSpent, Zenon
<1> QED BY <1>4, <1>5, Zenon DEF StepKeeps

\* One more call.
LEMMA CallsTyped ==
  ASSUME LibrariesInv, NEW s \in [Denom -> Int],
         calls' = Append(calls, [at |-> now, config |-> library.config, sent |-> s])
  PROVE  calls' \in Seq([at : Nat, config : ConfigOf(kind), sent : [Denom -> Int]])
<1> DEFINE R == [at : Nat, config : ConfigOf(kind), sent : [Denom -> Int]]
           e == [at |-> now, config |-> library.config, sent |-> s]
<1>1. ASSUME NEW X, NEW q \in Seq(X), NEW x \in X PROVE Append(q, x) \in Seq(X)
  OBVIOUS
<1>2. e \in R /\ calls \in Seq(R)
  BY Zenon DEF LibrariesInv, LibrariesTyped
<1> HIDE DEF R, e
<1>3. Append(calls, e) \in Seq(R)
  BY <1>1, <1>2, Zenon
<1> QED BY <1>3, Zenon DEF R, e

\* A call of the library, of any kind.
LEMMA CallIsKept ==
  ASSUME LibrariesInv, NEW s \in Caller,
         \/ process_forward(s)
         \/ \E dynamic \in [Denom -> Ratios] :
              process_split(s, dynamic) \/ process_reverse_split(s, dynamic)
  PROVE  StepKeeps
<1> DEFINE cfg == library.config
           Times == Seq(Nat)
           L == [owner : Anyone, pending : Anyone, processor : Caller \cup {FirstCaller},
                 config : ConfigOf(kind), raw : ConfigOf(kind), last : Times]
<1>1. library \in L /\ now \in Nat
  BY Zenon DEF LibrariesInv, LibrariesTyped
<1>2. ASSUME NEW ts, NEW payers, AreTransfers(ts), \A i \in DOMAIN ts : ts[i].from \in payers,
             assert_processor(s), carryOut(ts, payers, s), library' \in L,
             library'.config = library.config
      PROVE  StepKeeps
  <2>1. /\ Admitted /\ balance' \in Balances
        /\ calls' = Append(calls, [at |-> now, config |-> library.config,
                                   sent |-> [d \in Denom |-> total(ts, d)]])
        /\ [d \in Denom |-> total(ts, d)] \in [Denom -> Int]
        /\ UNCHANGED <<kind, account, now, admin, deposits>>
    BY <1>2, CarriedOut, Zenon
  <2>2. calls' \in Seq([at : Nat, config : ConfigOf(kind), sent : [Denom -> Int]])
    BY <2>1, CallsTyped, Zenon
  <2>3. LibrariesInv'
    BY <1>2, <2>1, <2>2, Zenon DEF LibrariesInv, LibrariesTyped
  <2> QED BY <2>1, <2>3, Zenon DEF StepKeeps
<1>3. CASE process_forward(s)
  <2> DEFINE ts == forward(cfg)
  <2>1. /\ kind = "forwarder" /\ assert_processor(s) /\ carryOut(ts, {cfg.input_addr}, s)
        /\ library' = [library EXCEPT !.last = <<now>>]
    BY <1>3, Zenon DEF process_forward
  <2>2. AreTransfers(ts) /\ \A i \in DOMAIN ts : ts[i].from \in {cfg.input_addr}
    BY <2>1, ForwardTransfers, Zenon
  <2>3. <<now>> \in Times
    BY <1>1
  <2>4. library' \in L /\ library'.config = library.config
    <3> HIDE DEF Times
    <3> QED BY <1>1, <2>1, <2>3, Zenon
  <2> HIDE DEF ts, L
  <2> QED BY <1>2, <2>1, <2>2, <2>4, Zenon
<1>4. ASSUME NEW dynamic \in [Denom -> Ratios], process_split(s, dynamic) PROVE StepKeeps
  <2> DEFINE ts == splitAmounts(cfg, dynamic)
  <2>1. /\ kind = "splitter" /\ assert_processor(s) /\ carryOut(ts, {cfg.input_addr}, s)
        /\ library' = library
    BY <1>4, Zenon DEF process_split
  <2>2. AreTransfers(ts) /\ \A i \in DOMAIN ts : ts[i].from \in {cfg.input_addr}
    BY <2>1, SplitTransfers, Zenon
  <2>3. library' \in L /\ library'.config = library.config
    BY <1>1, <2>1, Zenon
  <2> HIDE DEF ts, L
  <2> QED BY <1>2, <2>1, <2>2, <2>3, Zenon
<1>5. ASSUME NEW dynamic \in [Denom -> Ratios], process_reverse_split(s, dynamic) PROVE StepKeeps
  <2> DEFINE ts == reverseAmounts(cfg, dynamic)
             payers == {cfg.splits[i].account : i \in DOMAIN cfg.splits}
  <2>1. /\ kind = "reverse_splitter" /\ coversReverse(cfg, dynamic)
        /\ assert_processor(s) /\ carryOut(ts, payers, s) /\ library' = library
    BY <1>5, Zenon DEF process_reverse_split
  <2>2. AreTransfers(ts) /\ \A i \in DOMAIN ts : ts[i].from \in payers
    BY <2>1, ReverseTransfers, Zenon
  <2>3. library' \in L /\ library'.config = library.config
    BY <1>1, <2>1, Zenon
  <2> HIDE DEF ts, L, payers
  <2> QED BY <1>2, <2>1, <2>2, <2>3, Zenon
<1> QED BY <1>3, <1>4, <1>5, Zenon

\* Coins arrive.
LEMMA DepositIsKept ==
  ASSUME LibrariesInv, NEW a \in Account, NEW d \in Denom, receiveCoins(a, d)
  PROVE  StepKeeps
<1>1. /\ balance' = [balance EXCEPT ![a][d] = @ + 1] /\ deposits' = deposits + 1
      /\ UNCHANGED <<kind, library, account, now, admin, calls>>
  BY Zenon DEF receiveCoins
<1>2. balance \in Balances /\ deposits \in Nat
  BY Zenon DEF LibrariesInv, LibrariesTyped
<1>3. balance' \in Balances
  BY <1>1, <1>2 DEF Balances, Address
<1>4. ASSUME NEW x \in DOMAIN balance, NEW y \in Denom PROVE ~ (balance'[x][y] < balance[x][y])
  <2>1. balance[x][y] \in Nat
    BY <1>2, Zenon DEF Balances
  <2>2. balance'[x][y] = balance[x][y] \/ balance'[x][y] = balance[x][y] + 1
    BY <1>1, <1>2, Zenon DEF Balances, Address
  <2> QED BY <2>1, <2>2
<1>5. deposits' \in Nat
  BY <1>1, <1>2
<1>6. LibrariesInv'
  BY <1>1, <1>3, <1>5, Zenon DEF LibrariesInv, LibrariesTyped
<1> QED BY <1>4, <1>6, Zenon DEF StepKeeps, Admitted

\* Every step.
LEMMA LibraryStepKeeps ==
  ASSUME LibrariesInv, [LibraryNext]_libraryVars
  PROVE  LibrariesInv' /\ [Admitted]_libraryVars
<1>1. ASSUME NEW a \in Account, NEW s \in Person,
             NEW b \in Account \cup Outside, NEW d \in Denom, NEW n \in 1 .. MaxAmount,
             execute_msg(a, s, Transfer(a, b, d, n))
      PROVE  StepKeeps
  <2>1. /\ admin' = admin + 1 /\ UNCHANGED <<kind, library, account, now, calls, deposits>>
    BY <1>1, Zenon DEF execute_msg, Administered
  <2>2. Admitted /\ balance' \in Balances
    BY <1>1, OwnerSpends DEF Address
  <2>3. admin' \in Nat
    BY <2>1 DEF LibrariesInv, LibrariesTyped
  <2>4. LibrariesInv'
    BY <2>1, <2>2, <2>3, Zenon DEF LibrariesInv, LibrariesTyped
  <2> QED BY <2>2, <2>4, Zenon DEF StepKeeps
<1>2. ASSUME nextBlock PROVE StepKeeps
  <2>1. now' = now + 1 /\ UNCHANGED <<kind, library, account, balance, admin, calls, deposits>>
    BY <1>2, Zenon DEF nextBlock
  <2>2. now' \in Nat /\ balance \in Balances
    BY <2>1 DEF LibrariesInv, LibrariesTyped
  <2>3. LibrariesInv'
    BY <2>1, <2>2, Zenon DEF LibrariesInv, LibrariesTyped
  <2> QED BY <2>1, <2>2, <2>3, NoneSpent, Zenon DEF StepKeeps
<1>3. CASE UNCHANGED libraryVars
  <2>1. LibrariesInv'
    BY <1>3, Zenon DEF libraryVars, LibrariesInv, LibrariesTyped
  <2> QED BY <1>3, <2>1, Zenon
<1>4. CASE LibraryNext
  <2>1. StepKeeps
    BY <1>1, <1>2, <1>4, AccountIsKept, LibraryIsKept, CallIsKept, DepositIsKept, ZenonT(40) DEF LibraryNext
  <2> QED BY <2>1, Zenon DEF StepKeeps
<1> QED BY <1>3, <1>4, Zenon

\* Instantiation.
LEMMA LibraryInits ==
  ASSUME LibraryInit
  PROVE  LibrariesInv
<1>1. PICK c \in Configs(kind) :
        /\ accepted_config(kind, DOMAIN c, c)
        /\ library = [owner |-> Founder, pending |-> NoOne, processor |-> FirstCaller,
                      config |-> c, raw |-> c, last |-> << >>]
  BY Zenon DEF LibraryInit
<1>2. kind \in Kind /\ kind \in {"forwarder", "splitter", "reverse_splitter"} /\ c \in ConfigOf(kind)
  BY LibrariesConstants, Zenon DEF LibraryInit
<1>3. Founder \in Anyone /\ NoOne \in Anyone
  BY LibrariesConstants, Zenon DEF Anyone
<1>4. Checked(kind, c)
  <2>1. CASE kind = "forwarder"
    <3>1. c \in ForwarderConfig
      BY <1>2, <2>1, Configurations, Zenon
    <3>2. "forwarding_configs" \in DOMAIN c
      BY <3>1, Zenon DEF ForwarderConfig
    <3> QED BY <1>1, <1>2, <2>1, <3>2, AcceptedIsChecked, Zenon
  <2>2. CASE kind = "splitter"
    BY <1>1, <1>2, <2>2, AcceptedIsChecked, Zenon
  <2>3. CASE kind = "reverse_splitter"
    <3>1. c \in ReverseConfig
      BY <1>2, <2>3, Configurations, Zenon
    <3>2. "splits" \in DOMAIN c
      BY <3>1, Zenon DEF ReverseConfig
    <3> QED BY <1>1, <1>2, <2>3, <3>2, AcceptedIsChecked, Zenon
  <2> QED BY <1>2, <2>1, <2>2, <2>3, Zenon
<1>5. library \in [owner : Anyone, pending : Anyone, processor : Caller \cup {FirstCaller},
                   config : ConfigOf(kind), raw : ConfigOf(kind), last : Seq(Nat)]
  BY <1>1, <1>2, <1>3
<1>6. account \in [Account -> [owner : Anyone, pending : Anyone, approved : SUBSET {Lib}]]
  BY <1>3, Zenon DEF LibraryInit
<1>7. balance \in Balances /\ now \in Nat /\ admin \in Nat /\ deposits \in Nat
  BY <1>2, LibrariesConstants, Zenon DEF LibraryInit, Balances
<1>8. ASSUME NEW X PROVE << >> \in Seq(X)
  OBVIOUS
<1>9. calls \in Seq([at : Nat, config : ConfigOf(kind), sent : [Denom -> Int]])
  BY <1>8, Zenon DEF LibraryInit
<1>10. library.config = c
  BY <1>1, Zenon
<1> QED BY <1>2, <1>4, <1>5, <1>6, <1>7, <1>9, <1>10, Zenon DEF LibrariesInv, LibrariesTyped

\* The configuration in force has always passed the checks.
LEMMA LibrariesAreChecked == LibrarySpec => []LibrariesInv
<1>1. LibraryInit => LibrariesInv
  BY LibraryInits, Zenon
<1>2. LibrariesInv /\ [LibraryNext]_libraryVars => LibrariesInv'
  BY LibraryStepKeeps, Zenon
<1> QED BY <1>1, <1>2, PTL DEF LibrarySpec

\* Funds leave an account only in a transaction of its present owner, or in a call of
\* the library by its present processor while the account approves it, however owners,
\* approvals, processors and configurations were changed before.
THEOREM OnlyTheAdmitted == LibrarySpec => OnlyTheAdmittedSpend
<1>1. LibrariesInv /\ [LibraryNext]_libraryVars => [Admitted]_libraryVars
  BY LibraryStepKeeps, Zenon
<1>2. [][Admitted]_libraryVars => OnlyTheAdmittedSpend
  BY PTL DEF OnlyTheAdmittedSpend, Admitted
<1> QED BY <1>1, <1>2, LibrariesAreChecked, PTL DEF LibrarySpec

-----------------------------------------------------------------------------
(* The forwarder.                                                          *)

\* Unique denoms: a forward sends no more of one than its max_amount.
LEMMA ForwardWithinMax ==
  ASSUME LibrariesInv, kind = "forwarder", NEW f \in Range(library.config.forwarding_configs)
  PROVE  /\ f.denom \in Denom /\ f.max_amount \in Nat
         /\ total(forward(library.config), f.denom) <= f.max_amount
<1> DEFINE cfg == library.config
           configs == cfg.forwarding_configs
           ts == forward(cfg)
           available(i) == balance[cfg.input_addr][configs[i].denom]
           g == [i \in DOMAIN ts |-> IF ts[i].denom = f.denom THEN ts[i].amount ELSE 0]
<1>1. cfg \in ForwarderConfig /\ ensure_denom_uniqueness(configs)
  BY ConfigTyped, Zenon DEF LibrariesInv, Checked
<1>2. PICK k \in DOMAIN configs : f = configs[k]
  BY Zenon DEF Range
<1> HIDE DEF cfg
<1>3. cfg.input_addr \in Address /\ configs \in Seq(Forwarding)
  BY <1>1, Zenon DEF ForwarderConfig, Address
<1>4. ASSUME NEW i \in DOMAIN configs
      PROVE  configs[i].denom \in Denom /\ configs[i].max_amount \in Nat /\ available(i) \in Nat
  <2>1. configs[i] \in Forwarding
    <3> HIDE DEF configs
    <3> QED BY <1>3, <1>4
  <2>2. configs[i].denom \in Denom /\ configs[i].max_amount \in Nat
    BY <2>1, Zenon DEF Forwarding
  <2> QED BY <1>3, <2>2, Zenon DEF LibrariesInv, LibrariesTyped, Balances
<1>5. /\ DOMAIN ts \subseteq DOMAIN configs
      /\ \A i \in DOMAIN ts :
           ts[i] = Transfer(cfg.input_addr, cfg.output_addr, configs[i].denom,
                            Min({available(i), configs[i].max_amount}))
  BY Zenon DEF forward
<1>6. AreTransfers(ts)
  BY ForwardTransfers, Zenon DEF cfg
<1>7. IsFiniteSet(DOMAIN ts)
  BY <1>6, Flows, Zenon
<1>8. \A i, j \in DOMAIN configs : configs[i].denom = configs[j].denom => i = j
  BY <1>1, Zenon DEF ensure_denom_uniqueness
<1> HIDE DEF ts, configs
<1>9. ASSUME NEW i \in DOMAIN ts
      PROVE  /\ ts[i].denom = configs[i].denom
             /\ ts[i].amount = Min({available(i), configs[i].max_amount})
  BY <1>5 DEF Transfer
<1>10. DOMAIN g = DOMAIN ts /\ \A i \in DOMAIN ts : i # k => g[i] = 0
  BY <1>2, <1>5, <1>8, <1>9, Zenon
<1>11. SumFunctionOnSet(g, DOMAIN ts) <= f.max_amount
  <2>1. CASE k \in DOMAIN ts
    <3> DEFINE m == Min({available(k), f.max_amount})
    <3>1. g[k] = m
      BY <1>2, <1>9, <2>1, Zenon
    <3>2. m \in Nat /\ m <= f.max_amount
      <4> HIDE DEF available
      <4>1. available(k) \in Nat /\ f.max_amount \in Nat
        BY <1>2, <1>4, Zenon
      <4> DEFINE S == {available(k), f.max_amount}
      <4>2. S \in SUBSET Nat /\ S # {} /\ f.max_amount \in S
        BY <4>1, Zenon
      <4>3. Min(S) \in S /\ \A y \in S : Min(S) <= y
        <5> HIDE DEF S
        <5> QED BY <4>2, LeastOfMany, Zenon
      <4> QED BY <4>2, <4>3, Zenon
    <3> HIDE DEF g, m
    <3>3. g[k] \in Int
      BY <3>1, <3>2
    <3>4. SumFunctionOnSet(g, DOMAIN ts) = g[k]
      BY <1>7, <1>10, <2>1, <3>3, SumOfOne, Zenon
    <3> QED BY <3>1, <3>2, <3>4, Zenon
  <2>2. CASE k \notin DOMAIN ts
    <3> HIDE DEF g
    <3>1. \A i \in DOMAIN ts : g[i] = 0
      BY <1>10, <2>2, Zenon
    <3>2. SumFunctionOnSet(g, DOMAIN ts) = 0
      BY <1>7, <3>1, SumOfZeros, Zenon
    <3>3. f.max_amount \in Nat
      BY <1>2, <1>4, Zenon
    <3> QED BY <3>2, <3>3
  <2> QED BY <2>1, <2>2, Zenon
<1>12. total(ts, f.denom) = SumFunctionOnSet(g, DOMAIN ts)
  BY <1>10, Zenon DEF total, SumFunction
<1>13. f.denom \in Denom /\ f.max_amount \in Nat
  BY <1>2, <1>4, Zenon
<1> QED BY <1>11, <1>12, <1>13, Zenon DEF ts, cfg

\* Every forward is min_interval, as it then was, after those before it, and
\* within the max_amounts of its own configuration.
Paced ==
  kind = "forwarder" =>
    /\ calls # << >> => library.last = <<calls[Len(calls)].at>>
    /\ \A j \in DOMAIN calls : calls[j].at <= now
    /\ \A i, j \in DOMAIN calls : i < j => calls[i].at + calls[j].config.min_interval <= calls[j].at
    /\ \A j \in DOMAIN calls : \A f \in Range(calls[j].config.forwarding_configs) :
         calls[j].sent[f.denom] <= f.max_amount

\* A forward that has been made.
LEMMA CallTyped ==
  ASSUME LibrariesInv, kind = "forwarder", NEW j \in DOMAIN calls
  PROVE  /\ j \in Nat /\ j >= 1 /\ j <= Len(calls)
         /\ calls[j].at \in Nat /\ calls[j].config.min_interval \in Nat
         /\ calls[j].config \in ForwarderConfig /\ calls[j].sent \in [Denom -> Int]
<1> DEFINE R == [at : Nat, config : ConfigOf(kind), sent : [Denom -> Int]]
<1>1. calls \in Seq(R)
  BY Zenon DEF LibrariesInv, LibrariesTyped
<1>2. ASSUME NEW X, NEW q \in Seq(X), NEW i \in DOMAIN q PROVE q[i] \in X /\ i \in 1 .. Len(q) /\ Len(q) \in Nat
  BY <1>2
<1>3. calls[j] \in R /\ j \in 1 .. Len(calls) /\ Len(calls) \in Nat
  <2> HIDE DEF R
  <2> QED BY <1>1, <1>2, Zenon
<1>4. calls[j].at \in Nat /\ calls[j].config \in ConfigOf(kind) /\ calls[j].sent \in [Denom -> Int]
  BY <1>3, Zenon
<1>5. calls[j].config \in ForwarderConfig
  BY <1>4, Configurations, Zenon
<1>6. calls[j].config.min_interval \in Nat
  BY <1>5, Zenon DEF ForwarderConfig
<1> QED BY <1>3, <1>4, <1>5, <1>6

\* A forward keeps the pace.
LEMMA ForwardKeepsPace ==
  ASSUME LibrariesInv, Paced, NEW s \in Caller, process_forward(s)
  PROVE  Paced'
<1> DEFINE cfg == library.config
           n == Len(calls)
           ts == forward(cfg)
           e == [at |-> now, config |-> cfg, sent |-> [d \in Denom |-> total(ts, d)]]
<1>1. /\ kind = "forwarder" /\ ensure_forwarding_interval(cfg)
      /\ library' = [library EXCEPT !.last = <<now>>] /\ carryOut(ts, {cfg.input_addr}, s)
  BY Zenon DEF process_forward
<1>2. calls' = Append(calls, e) /\ kind' = kind /\ now' = now
  BY <1>1, Zenon DEF carryOut
<1>3. cfg \in ForwarderConfig /\ now \in Nat /\ cfg.min_interval \in Nat
  <2>1. cfg \in ForwarderConfig
    BY <1>1, ConfigTyped, Zenon DEF LibrariesInv
  <2> QED BY <2>1, Zenon DEF ForwarderConfig, LibrariesInv, LibrariesTyped
<1>4. e.at = now /\ e.config = cfg /\ \A d \in Denom : e.sent[d] = total(ts, d)
  BY Zenon
<1> HIDE DEF e
<1>5. /\ n \in Nat /\ DOMAIN calls = 1 .. n /\ DOMAIN calls' = 1 .. n + 1 /\ Len(calls') = n + 1
      /\ calls'[n + 1] = e /\ \A j \in 1 .. n : calls'[j] = calls[j]
  <2>1. calls \in Seq([at : Nat, config : ConfigOf(kind), sent : [Denom -> Int]])
    BY Zenon DEF LibrariesInv, LibrariesTyped
  <2>2. ASSUME NEW X, NEW q \in Seq(X), NEW x
        PROVE  /\ Len(q) \in Nat /\ DOMAIN q = 1 .. Len(q)
               /\ DOMAIN Append(q, x) = 1 .. Len(q) + 1 /\ Len(Append(q, x)) = Len(q) + 1
               /\ Append(q, x)[Len(q) + 1] = x /\ \A j \in 1 .. Len(q) : Append(q, x)[j] = q[j]
    OBVIOUS
  <2> DEFINE more == Append(calls, e)
  <2>3. /\ n \in Nat /\ DOMAIN calls = 1 .. n /\ DOMAIN more = 1 .. n + 1 /\ Len(more) = n + 1
        /\ more[n + 1] = e /\ \A j \in 1 .. n : more[j] = calls[j]
    BY <2>1, <2>2
  <2> HIDE DEF n
  <2> QED BY <1>2, <2>3, Zenon
<1>6. library'.last = <<now>>
  BY <1>1, Zenon DEF LibrariesInv, LibrariesTyped
<1> HIDE DEF n
<1>7. ASSUME NEW i \in 1 .. n PROVE calls[i].at + cfg.min_interval <= now
  <2>1. n \in DOMAIN calls /\ i \in DOMAIN calls /\ calls # << >>
    BY <1>5
  <2>2. library.last = <<calls[n].at>>
    BY <1>1, <2>1, Zenon DEF Paced, n
  <2>3. now >= calls[n].at + cfg.min_interval
    BY <1>1, <2>2 DEF ensure_forwarding_interval
  <2>4. /\ calls[i].at \in Nat /\ calls[n].at \in Nat /\ calls[n].config.min_interval \in Nat
    BY <1>1, <2>1, CallTyped, Zenon
  <2>5. i # n => calls[i].at + calls[n].config.min_interval <= calls[n].at
    <3>1. i # n => i < n
      BY <1>5
    <3> QED BY <1>1, <2>1, <3>1, Zenon DEF Paced
  <2> QED BY <1>3, <2>3, <2>4, <2>5
<1>8. calls' # << >> /\ library'.last = <<calls'[Len(calls')].at>>
  BY <1>4, <1>5, <1>6
<1>9. \A j \in DOMAIN calls' : j \in 1 .. n \/ j = n + 1
  BY <1>5
<1>10. ASSUME NEW j \in DOMAIN calls' PROVE calls'[j].at <= now'
  <2>1. CASE j \in 1 .. n
    BY <1>1, <1>2, <1>5, <2>1, Zenon DEF Paced
  <2>2. CASE j = n + 1
    BY <1>2, <1>3, <1>4, <1>5, <2>2
  <2> QED BY <1>9, <2>1, <2>2, Zenon
<1>11. ASSUME NEW i \in DOMAIN calls', NEW j \in DOMAIN calls', i < j
       PROVE  calls'[i].at + calls'[j].config.min_interval <= calls'[j].at
  <2>1. i \in 1 .. n
    BY <1>5, <1>11
  <2>2. CASE j \in 1 .. n
    BY <1>1, <1>5, <1>11, <2>1, <2>2, Zenon DEF Paced
  <2>3. CASE j = n + 1
    BY <1>4, <1>5, <1>7, <2>1, <2>3, Zenon
  <2> QED BY <1>9, <2>2, <2>3, Zenon
<1>12. ASSUME NEW j \in DOMAIN calls', NEW f \in Range(calls'[j].config.forwarding_configs)
       PROVE  calls'[j].sent[f.denom] <= f.max_amount
  <2>1. CASE j \in 1 .. n
    BY <1>1, <1>5, <1>12, <2>1, Zenon DEF Paced
  <2>2. CASE j = n + 1
    <3>1. f \in Range(cfg.forwarding_configs)
      BY <1>4, <1>5, <1>12, <2>2, Zenon
    <3>2. f.denom \in Denom /\ total(ts, f.denom) <= f.max_amount
      BY <1>1, <3>1, ForwardWithinMax, Zenon
    <3> QED BY <1>4, <1>5, <2>2, <3>2, Zenon
  <2> QED BY <1>9, <2>1, <2>2, Zenon
<1> QED BY <1>8, <1>10, <1>11, <1>12, Zenon DEF Paced

\* Other steps forward nothing.
LEMMA OthersKeepPace ==
  ASSUME LibrariesInv, Paced, UNCHANGED <<kind, calls>>, library'.last = library.last,
         now' = now \/ now' = now + 1
  PROVE  Paced'
<1>1. ASSUME NEW j \in DOMAIN calls, kind = "forwarder" PROVE calls[j].at <= now'
  <2>1. calls[j].at <= now
    BY <1>1, Zenon DEF Paced
  <2>2. calls[j].at \in Nat /\ now \in Nat
    BY <1>1, CallTyped, Zenon DEF LibrariesInv, LibrariesTyped
  <2> QED BY <2>1, <2>2
<1> QED BY <1>1, Zenon DEF Paced

\* Every step keeps the pace.
LEMMA NextPaced == LibrariesInv /\ Paced /\ [LibraryNext]_libraryVars => Paced'
<1> SUFFICES ASSUME LibrariesInv, Paced, [LibraryNext]_libraryVars PROVE Paced'
  BY Zenon
<1>1. now \in Nat /\ library = [library EXCEPT !.raw = library.raw]
  BY Zenon DEF LibrariesInv, LibrariesTyped
<1>2. ASSUME NEW a \in Account, NEW s \in Person,
             \/ approve_library(a, s) \/ remove_library(a, s) \/ update_ownership(a, s)
             \/ \E b \in Account \cup Outside, d \in Denom, n \in 1 .. MaxAmount :
                  execute_msg(a, s, Transfer(a, b, d, n))
      PROVE  Paced'
  <2>1. UNCHANGED <<kind, calls, library, now>>
    BY <1>2, Zenon DEF approve_library, remove_library, update_ownership, execute_msg
  <2> QED BY <2>1, OthersKeepPace, Zenon
<1>3. ASSUME NEW s \in Person,
             \/ \E c \in Configs(kind) : \E F \in SUBSET DOMAIN c : update_config(s, F, c)
             \/ \E p \in Caller : update_processor(s, p)
             \/ library_ownership(s)
      PROVE  Paced'
  <2>1. UNCHANGED <<kind, calls, now>>
    BY <1>3, Zenon DEF update_config, update_processor, library_ownership
  <2>2. library'.last = library.last
    <3>1. ASSUME NEW x, NEW y
          PROVE  /\ [library EXCEPT !.raw = x, !.config = y].last = library.last
                 /\ [library EXCEPT !.owner = x, !.pending = y].last = library.last
                 /\ [library EXCEPT !.processor = x].last = library.last
      BY Zenon DEF LibrariesInv, LibrariesTyped
    <3>2. ASSUME NEW c, NEW F, update_config(s, F, c) PROVE library'.last = library.last
      BY <3>1, <3>2, Zenon DEF update_config
    <3>3. ASSUME NEW p, update_processor(s, p) PROVE library'.last = library.last
      BY <3>1, <3>3, Zenon DEF update_processor
    <3>4. ASSUME library_ownership(s) PROVE library'.last = library.last
      <4>1. PICK o : library' = [library EXCEPT !.owner = o.owner, !.pending = o.pending]
        BY <3>4, Zenon DEF library_ownership
      <4> QED BY <3>1, <4>1, Zenon
    <3> QED BY <1>3, <3>2, <3>3, <3>4, Zenon
  <2> QED BY <2>1, <2>2, OthersKeepPace, Zenon
<1>4. ASSUME NEW s \in Caller, NEW dynamic,
             process_split(s, dynamic) \/ process_reverse_split(s, dynamic)
      PROVE  Paced'
  <2>1. kind' = kind /\ kind # "forwarder"
    <3>1. kind' = kind /\ (kind = "splitter" \/ kind = "reverse_splitter")
      BY <1>4, Zenon DEF process_split, process_reverse_split, carryOut
    <3> QED BY <3>1, Zenon
  <2> QED BY <2>1, Zenon DEF Paced
<1>5. ASSUME NEW a \in Account, NEW d \in Denom, receiveCoins(a, d) PROVE Paced'
  <2>1. UNCHANGED <<kind, calls, library, now>>
    BY <1>5, Zenon DEF receiveCoins
  <2> QED BY <2>1, OthersKeepPace, Zenon
<1>6. CASE nextBlock
  <2>1. UNCHANGED <<kind, calls, library>> /\ now' = now + 1
    BY <1>6, Zenon DEF nextBlock
  <2> QED BY <2>1, OthersKeepPace, Zenon
<1>7. CASE UNCHANGED libraryVars
  <2>1. UNCHANGED <<kind, calls, library, now>>
    BY <1>7, Zenon DEF libraryVars
  <2> QED BY <2>1, OthersKeepPace, Zenon
<1> QED
  BY <1>2, <1>3, <1>4, <1>5, <1>6, <1>7, ForwardKeepsPace, ZenonT(40) DEF LibraryNext

\* The calls that are counted back from a forward are that forward alone.
LEMMA PacedIsLimited == LibrariesInv /\ Paced => ForwardingRateLimited
<1> SUFFICES ASSUME LibrariesInv, Paced, kind = "forwarder", NEW j \in DOMAIN calls,
                    NEW f \in Range(calls[j].config.forwarding_configs)
             PROVE  LET cfg == calls[j].config
                        window == {i \in 1 .. j : calls[i].at > calls[j].at - Max({cfg.min_interval, 1})
                                                  /\ (cfg.min_interval = 0 => i = j)}
                    IN  SumFunctionOnSet([i \in DOMAIN calls |-> calls[i].sent[f.denom]], window)
                          <= f.max_amount
  BY Zenon DEF ForwardingRateLimited
<1> DEFINE cfg == calls[j].config
           m == Max({cfg.min_interval, 1})
           window == {i \in 1 .. j : calls[i].at > calls[j].at - m /\ (cfg.min_interval = 0 => i = j)}
           g == [i \in DOMAIN calls |-> calls[i].sent[f.denom]]
<1>1. /\ j \in Nat /\ j >= 1 /\ j <= Len(calls) /\ calls[j].at \in Nat /\ cfg.min_interval \in Nat
      /\ cfg \in ForwarderConfig /\ calls[j].sent \in [Denom -> Int]
  BY CallTyped, Zenon
<1>2. \A i \in 1 .. j : i \in DOMAIN calls
  <2>1. calls \in Seq([at : Nat, config : ConfigOf(kind), sent : [Denom -> Int]])
    BY Zenon DEF LibrariesInv, LibrariesTyped
  <2>2. DOMAIN calls = 1 .. Len(calls) /\ Len(calls) \in Nat
    BY <2>1
  <2> QED BY <1>1, <2>2
<1>3. m \in Nat /\ m >= 1 /\ (cfg.min_interval # 0 => m = cfg.min_interval)
  <2> DEFINE k == cfg.min_interval
  <2>1. k \in Nat
    BY <1>1, Zenon
  <2> HIDE DEF k
  <2>2. \E x \in {k, 1} : \A y \in {k, 1} : x >= y
    BY <2>1
  <2>3. Max({k, 1}) \in {k, 1} /\ \A y \in {k, 1} : Max({k, 1}) >= y
    BY <2>2, Zenon DEF Max
  <2> QED BY <2>1, <2>3 DEF k
<1> HIDE DEF cfg, m
<1>4. window = {j}
  <2>1. j \in window
    BY <1>1, <1>3
  <2>2. ASSUME NEW i \in window PROVE i = j
    <3>1. i \in 1 .. j /\ calls[i].at > calls[j].at - m /\ (cfg.min_interval = 0 => i = j)
      BY Zenon
    <3> HIDE DEF window
    <3>2. CASE cfg.min_interval # 0 /\ i # j
      <4>1. i < j
        BY <1>1, <3>1, <3>2
      <4>2. calls[i].at + cfg.min_interval <= calls[j].at /\ calls[i].at \in Nat
        BY <1>2, <3>1, <4>1, CallTyped, Zenon DEF Paced, cfg
      <4> QED BY <1>1, <1>3, <3>1, <3>2, <4>2, SMTT(30)
    <3> QED BY <3>1, <3>2, Zenon
  <2> HIDE DEF window
  <2> QED BY <2>1, <2>2, Zenon
<1>5. f.denom \in Denom
  <2>1. cfg.forwarding_configs \in Seq(Forwarding)
    BY <1>1, Zenon DEF ForwarderConfig
  <2>2. ASSUME NEW X, NEW q \in Seq(X), NEW x \in Range(q) PROVE x \in X
    BY <2>2 DEF Range
  <2>3. f \in Forwarding
    BY <2>1, <2>2, Zenon DEF cfg
  <2> QED BY <2>3, Zenon DEF Forwarding
<1>6. g[j] = calls[j].sent[f.denom] /\ calls[j].sent[f.denom] \in Int
  BY <1>1, <1>5, Zenon
<1>7. IsFiniteSet({j})
  BY FS_Singleton, Zenon
<1>8. SumFunctionOnSet(g, {j}) = g[j]
  <2> HIDE DEF g
  <2>1. g[j] \in Int /\ j \in {j} /\ \A y \in {j} : y # j => g[y] = 0
    BY <1>6, Zenon
  <2> QED BY <1>7, <2>1, SumOfOne, Zenon
<1>9. calls[j].sent[f.denom] <= f.max_amount
  BY Zenon DEF Paced
<1>10. SumFunctionOnSet(g, window) <= f.max_amount
  BY <1>4, <1>6, <1>8, <1>9, Zenon
<1> QED BY <1>10, Zenon DEF m, cfg

\* The forwarder's interval and its max_amounts hold together: counted back from any
\* forward, over the interval then in force, no more than max_amount has gone.
THEOREM ForwardsAreLimited == LibrarySpec => []ForwardingRateLimited
<1>1. LibraryInit => Paced
  BY DEF LibraryInit, Paced
<1> QED BY <1>1, NextPaced, PacedIsLimited, LibrariesAreChecked, PTL DEF LibrarySpec

-----------------------------------------------------------------------------
(* What rounding leaves.                                                   *)

\* One share of a balance, in units of the last place.
LEMMA ShareSlack ==
  ASSUME NEW one \in Nat \ {0}, NEW a \in Nat, NEW x \in Nat, x < a * one + one
  PROVE  ((0 - one) * (0 - a) + (one - 1) * 1) - x \in Nat
<1>1. (0 - one) * (0 - a) = a * one
  BY SMT
<1>2. a * one \in Nat
  BY SMT
<1> QED BY <1>1, <1>2

\* What all the shares leave of a balance.
LEMMA LessThanCount ==
  ASSUME NEW one \in Nat \ {0}, NEW c \in Nat \ {0}, NEW b \in Int, NEW s \in Int,
         ((0 - one) * s + (one - 1) * c) - b * one >= 0
  PROVE  b + s < c
<1> DEFINE r == b + s
<1>1. r \in Int /\ s = r - b
  OBVIOUS
<1> HIDE DEF r
<1>2. (0 - one) * (r - b) = b * one - r * one
  BY <1>1, SMT
<1>3. (one - 1) * c = c * one - c
  BY SMT
<1>4. r * one \in Int /\ c * one \in Int /\ b * one \in Int
  BY <1>1, SMT
<1>5. r * one < c * one
  BY <1>1, <1>2, <1>3, <1>4
<1>6. ASSUME r >= c PROVE FALSE
  <2>1. c * one <= r * one
    BY <1>1, <1>6, Monotone
  <2> QED BY <1>4, <1>5, <2>1
<1> QED BY <1>1, <1>6 DEF r

\* A split whose ratios add up to one leaves less than one unit for each share.
LEMMA SplitLeavesDust ==
  ASSUME LibrariesInv, NEW s, NEW dynamic \in [Denom -> Ratios], process_split(s, dynamic)
  PROVE  LeavesDust
<1> DEFINE cfg == library.config
           splits == cfg.splits
           ts == splitAmounts(cfg, dynamic)
           in == cfg.input_addr
<1>1. kind = "splitter" /\ bank(ts)
  BY Zenon DEF process_split, carryOut
<1>2. cfg \in SplitterConfig /\ balance \in Balances
  BY <1>1, ConfigTyped, Zenon DEF LibrariesInv, LibrariesTyped
<1>3. AreTransfers(ts) /\ \A i \in DOMAIN ts : ts[i].from = in
  BY <1>1, SplitTransfers, Zenon
<1> HIDE DEF cfg
<1>4. in \in Address /\ splits \in Seq(Split)
  BY <1>2, Zenon DEF SplitterConfig, Address
<1>5. /\ DOMAIN ts = DOMAIN splits
      /\ \A i \in DOMAIN splits :
           ts[i] = Transfer(in, splits[i].account, splits[i].denom,
                            IF splits[i].type = "amount" THEN splits[i].value
                            ELSE multiply_ratio(balance[in][splits[i].denom],
                                                ratio(splits[i], dynamic), DecimalOne))
  BY Zenon DEF splitAmounts
<1> SUFFICES ASSUME NEW d \in Denom, SplitsOf(splits, d) # {},
                    \A i \in SplitsOf(splits, d) : splits[i].type = "ratio" /\ splits[i].account # in,
                    ratioSum(splits, d) = DecimalOne
             PROVE  balance'[in][d] < Cardinality(SplitsOf(splits, d))
  BY Zenon DEF LeavesDust, cfg
<1> DEFINE N == DOMAIN ts
           shares == SplitsOf(splits, d)
           b == balance[in][d]
           f == flows(ts, in, d)
           V == [i \in N |-> IF splits[i].denom = d /\ splits[i].type = "ratio" THEN splits[i].value ELSE 0]
           one == [i \in N |-> IF i \in shares THEN 1 ELSE 0]
           k == [i \in N |-> (0 - DecimalOne) * f[i] + (DecimalOne - 1) * one[i]]
           h == [i \in N |-> 1 * k[i] + (0 - b) * V[i]]
<1>6. IsFiniteSet(N) /\ Ints(f, N)
  BY <1>3, Flows, Zenon
<1>7. b \in Nat
  BY <1>2, <1>4, Zenon DEF Balances
<1>8. shares \in SUBSET N /\ \A i \in N : i \in shares <=> splits[i].denom = d
  BY <1>5, Zenon DEF SplitsOf
<1>9. ASSUME NEW i \in N
      PROVE  splits[i].value \in Nat /\ ratio(splits[i], dynamic) \in Nat
             /\ (splits[i].type = "ratio" => ratio(splits[i], dynamic) = splits[i].value)
  <2> HIDE DEF splits
  <2>1. splits[i].value \in Nat /\ ratio(splits[i], dynamic) \in Nat
    BY <1>4, <1>5, SplitTyped, Zenon
  <2> QED BY <2>1, Zenon DEF ratio
<1> HIDE DEF splits, ts, shares, f
<1>10. ASSUME NEW i \in N, i \in shares
       PROVE  /\ V[i] \in Nat /\ one[i] = 1
              /\ \E a \in Nat : f[i] = 0 - a /\ b * V[i] < a * DecimalOne + DecimalOne
  <2> DEFINE a == multiply_ratio(b, splits[i].value, DecimalOne)
  <2>1. splits[i].type = "ratio" /\ splits[i].denom = d /\ splits[i].account # in
    BY <1>8, <1>10, Zenon DEF shares
  <2>2. splits[i].value \in Nat /\ ratio(splits[i], dynamic) = splits[i].value
    BY <1>9, <2>1, Zenon
  <2>3. a \in Nat /\ b * splits[i].value < a * DecimalOne + DecimalOne
    BY <1>7, <2>2, RatioDown, DecimalOneAssumption, Zenon
  <2>4. V[i] = splits[i].value
    BY <2>1, Zenon
  <2>5. splits[i].type # "amount"
    BY <2>1, Zenon
  <2>6. ts[i] = Transfer(in, splits[i].account, d, a)
    BY <1>5, <1>10, <2>1, <2>2, <2>5, ZenonT(40)
  <2> HIDE DEF a, V
  <2>7. f[i] = 0 - a
    BY <1>10, <2>1, <2>3, <2>6 DEF f, flows, flow, Transfer
  <2> QED BY <1>10, <2>2, <2>3, <2>4, <2>7, Zenon
<1>11. ASSUME NEW i \in N, i \notin shares
       PROVE  V[i] = 0 /\ one[i] = 0 /\ f[i] = 0
  <2>1. splits[i].denom # d
    BY <1>8, <1>11, Zenon
  <2>2. ts[i].denom = splits[i].denom
    BY <1>5, <1>11 DEF Transfer
  <2> QED BY <1>11, <2>1, <2>2, Zenon DEF f, flows, flow
<1>12. Ints(V, N) /\ Ints(one, N)
  <2> HIDE DEF V, one
  <2> QED BY <1>10, <1>11 DEF Ints
<1>13. ASSUME NEW i \in N PROVE h[i] \in Nat /\ k[i] \in Int
  <2> HIDE DEF V, one
  <2>1. h[i] = ((0 - DecimalOne) * f[i] + (DecimalOne - 1) * one[i]) - b * V[i]
         /\ k[i] \in Int
    <3>1. f[i] \in Int /\ V[i] \in Int /\ one[i] \in Int
      BY <1>6, <1>12, Zenon DEF Ints
    <3>2. (0 - b) * V[i] = 0 - b * V[i] /\ b * V[i] \in Int
      BY <1>7, <3>1, SMTT(30)
    <3>3. k[i] = (0 - DecimalOne) * f[i] + (DecimalOne - 1) * one[i] /\ k[i] \in Int
      BY <3>1, DecimalOneAssumption, SMT
    <3>4. h[i] = 1 * k[i] + (0 - b) * V[i]
      BY Zenon
    <3> HIDE DEF k, h
    <3> QED BY <3>2, <3>3, <3>4
  <2>2. CASE i \in shares
    <3>1. PICK a \in Nat : f[i] = 0 - a /\ b * V[i] < a * DecimalOne + DecimalOne
      BY <1>10, <2>2, Zenon
    <3>2. V[i] \in Nat /\ one[i] = 1
      BY <1>10, <2>2, Zenon
    <3>3. b * V[i] \in Nat
      BY <1>7, <3>2, SMT
    <3>4. ((0 - DecimalOne) * (0 - a) + (DecimalOne - 1) * 1) - b * V[i] \in Nat
      BY <3>1, <3>3, ShareSlack, DecimalOneAssumption, Zenon
    <3> HIDE DEF h, k
    <3> QED BY <2>1, <3>1, <3>2, <3>4, Zenon
  <2>3. CASE i \notin shares
    <3>1. V[i] = 0 /\ one[i] = 0 /\ f[i] = 0
      BY <1>11, <2>3, Zenon
    <3>2. ((0 - DecimalOne) * 0 + (DecimalOne - 1) * 0) - b * 0 = 0
      BY <1>7, DecimalOneAssumption, SMT
    <3> HIDE DEF h, k
    <3> QED BY <2>1, <3>1, <3>2
  <2> QED BY <2>2, <2>3, Zenon
<1>14. /\ Combines(k, 0 - DecimalOne, f, DecimalOne - 1, one, N)
       /\ Combines(h, 1, k, 0 - b, V, N)
  BY Zenon DEF Combines
<1>15. SumFunctionOnSet(one, N) = Cardinality(shares)
  BY <1>6, <1>8, SumCounts, Zenon
<1>16. SumFunctionOnSet(V, N) = DecimalOne
  <2>1. DOMAIN V = N /\ ratioSum(splits, d) = SumFunction(V)
    BY <1>5, Zenon DEF ratioSum
  <2> QED BY <2>1, Zenon DEF SumFunction
<1> HIDE DEF V, one, k, h, b
<1>17. Ints(k, N)
  BY <1>13, Zenon DEF Ints
<1>18. SumFunctionOnSet(h, N) \in Nat
  BY <1>6, <1>13, SumIsNat, Zenon
<1>19. 0 - DecimalOne \in Int /\ DecimalOne - 1 \in Int /\ 0 - b \in Int /\ 1 \in Int
  BY <1>7, DecimalOneAssumption, SMTT(30)
<1>20. SumFunctionOnSet(k, N) = (0 - DecimalOne) * SumFunctionOnSet(f, N) + (DecimalOne - 1) * SumFunctionOnSet(one, N)
  BY <1>6, <1>12, <1>14, <1>19, SumCombines, SMTT(30)
<1>21. SumFunctionOnSet(h, N) = 1 * SumFunctionOnSet(k, N) + (0 - b) * SumFunctionOnSet(V, N)
  BY <1>6, <1>12, <1>14, <1>17, <1>19, SumCombines, SMTT(30)
<1>22. /\ SumFunctionOnSet(f, N) \in Int
       /\ balance'[in][d] = b + SumFunctionOnSet(f, N)
  BY <1>1, <1>2, <1>3, <1>4, BankKeepsTypes, ZenonT(40) DEF f, b
<1>23. Cardinality(shares) \in Nat \ {0}
  <2>1. IsFiniteSet(shares)
    BY <1>6, <1>8, FS_Subset, Zenon
  <2> QED BY <2>1, FS_CardinalityType, FS_EmptySet, Zenon DEF shares
<1>24. ((0 - DecimalOne) * SumFunctionOnSet(f, N) + (DecimalOne - 1) * Cardinality(shares)) - b * DecimalOne >= 0
  <2> DEFINE K == SumFunctionOnSet(k, N)
  <2>1. K \in Int
    BY <1>6, <1>17, SumIsInt, ZenonT(40)
  <2>2. 1 * K + (0 - b) * DecimalOne \in Nat
    BY <1>16, <1>18, <1>21, ZenonT(40)
  <2>3. (0 - b) * DecimalOne = 0 - b * DecimalOne /\ b * DecimalOne \in Int
    BY <1>7, DecimalOneAssumption, SMT
  <2>4. K = (0 - DecimalOne) * SumFunctionOnSet(f, N) + (DecimalOne - 1) * Cardinality(shares)
    BY <1>15, <1>20, Zenon
  <2> HIDE DEF K
  <2>5. K - b * DecimalOne >= 0
    BY <2>1, <2>2, <2>3, SMTT(30)
  <2> QED BY <2>4, <2>5, Zenon
<1>25. b + SumFunctionOnSet(f, N) < Cardinality(shares)
  <2>1. b \in Int
    BY <1>7
  <2> QED BY <1>22, <1>23, <1>24, <2>1, LessThanCount, DecimalOneAssumption, ZenonT(40)
<1> QED BY <1>22, <1>25, Zenon DEF shares

\* A quotient of a multiple.
LEMMA DivExact ==
  ASSUME NEW x \in Nat, NEW c \in Nat \ {0}
  PROVE  (x * c) \div c = x
<1> DEFINE q == (x * c) \div c
<1>1. x * c \in Nat
  BY SMT
<1>2. q \in Nat /\ q * c <= x * c /\ x * c < q * c + c
  BY <1>1, DivDown, Zenon
<1> HIDE DEF q
<1>3. q * c + c = (q + 1) * c /\ q * c \in Int
  BY <1>2, SMT
<1>4. x <= q
  BY <1>2, <1>3, Monotone
<1>5. ASSUME q > x PROVE FALSE
  <2>1. (x + 1) * c <= q * c
    BY <1>2, <1>5, Monotone
  <2>2. (x + 1) * c = x * c + c
    BY SMT
  <2> QED BY <1>1, <1>2, <1>3, <2>1, <2>2
<1> QED BY <1>2, <1>4, <1>5 DEF q

\* What the poorest account keeps, in the base denom: less than the unit of the base
\* denom it could not pay for, and the rounding of its own.
LEMMA PoorestKeeps ==
  ASSUME NEW one \in Nat \ {0}, NEW v \in Nat \ {0}, NEW w \in Nat \ {0}, NEW have \in Nat,
         NEW x \in Nat, have * v < x * one + one, NEW m \in Nat, x < m * w + w,
         NEW q \in Nat, m * one < q * v + v
  PROVE  (have - q * w) * v < (one + v) * w
<1>1. x + 1 <= (m + 1) * w
  BY SMT
<1>2. (x + 1) * one <= ((m + 1) * w) * one
  <2>1. x + 1 \in Int /\ (m + 1) * w \in Int
    BY SMT
  <2> QED BY <1>1, <2>1, Monotone, Zenon
<1>3. have * v < ((m + 1) * w) * one
  <2>1. (x + 1) * one = x * one + one /\ x * one \in Int /\ have * v \in Int /\ ((m + 1) * w) * one \in Int
    BY SMT
  <2> QED BY <1>2, <2>1
<1>4. (m * one) * w < (q * v + v) * w
  <2>1. m * one \in Int /\ q * v + v \in Int
    BY SMT
  <2>2. m * one + 1 <= q * v + v
    BY <2>1
  <2>3. (m * one + 1) * w <= (q * v + v) * w
    BY <2>1, <2>2, Monotone
  <2>4. (m * one + 1) * w = (m * one) * w + w /\ (m * one) * w \in Int /\ (q * v + v) * w \in Int
    BY <2>1, SMT
  <2> QED BY <2>3, <2>4
<1>5. (m * one) * w = (m * w) * one /\ ((m + 1) * w) * one = (m * w) * one + w * one
  BY SMT
<1>6. (q * v + v) * w = (q * w) * v + v * w
  BY SMT
<1>7. (have - q * w) * v = have * v - (q * w) * v /\ (one + v) * w = w * one + v * w
  BY SMT
<1>8. have * v \in Int /\ (m * w) * one \in Int /\ w * one \in Int /\ (q * w) * v \in Int /\ v * w \in Int
  BY SMT
<1> QED BY <1>3, <1>4, <1>5, <1>6, <1>7, <1>8, SMTT(30)

\* A reverse split takes in proportion, and what the poorest account can give.
LEMMA ReversePoolsInProportion ==
  ASSUME LibrariesInv, NEW s, NEW dynamic \in [Denom -> Ratios], process_reverse_split(s, dynamic)
  PROVE  PooledInProportion
<1> DEFINE cfg == library.config
           splits == cfg.splits
           ts == reverseAmounts(cfg, dynamic)
           m == min_amount_in_base_denom(cfg, dynamic)
           out == cfg.output_addr
           v(i) == splits[i].value
           w(i) == factorOf(splits[i])
           had(i) == balance[splits[i].account][splits[i].denom]
           q(i) == multiply_ratio(m, DecimalOne, v(i))
           shares == {i \in DOMAIN splits : splits[i].type = "ratio" /\ splits[i].account # out}
           paid(i) == had(i) - balance'[splits[i].account][splits[i].denom]
           worth(i) == (paid(i) * v(i)) \div w(i)
<1>1. kind = "reverse_splitter" /\ coversReverse(cfg, dynamic) /\ bank(ts)
  BY Zenon DEF process_reverse_split, carryOut
<1>2. cfg \in ReverseConfig /\ balance \in Balances /\ Checked("reverse_splitter", cfg)
  BY <1>1, ConfigTyped, Zenon DEF LibrariesInv, LibrariesTyped
<1>3. /\ AreTransfers(ts) /\ DOMAIN ts = DOMAIN splits
      /\ m \in Nat /\ \E i \in DOMAIN splits : m = payable(splits[i], dynamic)
  BY <1>1, ReverseTransfers, Zenon
<1> SUFFICES ASSUME \A i \in DOMAIN splits : splits[i].type = "ratio"
             PROVE  /\ \A i, j \in shares : worth(i) - worth(j) < v(j)
                    /\ shares = DOMAIN splits =>
                         \E i \in shares : balance'[splits[i].account][splits[i].denom] * v(i)
                                             < (DecimalOne + v(i)) * w(i)
  BY Zenon DEF PooledInProportion
<1> HIDE DEF cfg
<1>4. splits \in Seq(Split) /\ UniqueSplits(splits) /\ splits # << >>
  BY <1>2, Zenon DEF ReverseConfig, Checked
<1> HIDE DEF m
<1>5. ASSUME NEW i \in DOMAIN splits
      PROVE  /\ splits[i].account \in Address /\ splits[i].denom \in Denom
             /\ v(i) \in Nat \ {0} /\ w(i) \in Nat \ {0} /\ had(i) \in Nat
             /\ ratio(splits[i], dynamic) = v(i) /\ ratioToBase(splits[i], dynamic) = v(i)
             /\ splits[i].type = "ratio" /\ splits[i].type # "amount"
  <2>1. splits[i].type = "ratio" /\ splits[i].factor # <<0>> /\ v(i) # 0
    BY <1>2, Zenon DEF Checked
  <2>2. /\ splits[i].account \in Address /\ splits[i].denom \in Denom /\ v(i) \in Nat
        /\ w(i) \in Nat /\ w(i) # 0 /\ ratioToBase(splits[i], dynamic) = v(i)
    <3> HIDE DEF splits
    <3> QED BY <1>4, <2>1, SplitTyped, Zenon
  <2>3. had(i) \in Nat
    BY <1>2, <2>2, Zenon DEF Balances
  <2>4. splits[i].type # "amount" /\ splits[i].type # "dynamic"
    BY <2>1, Zenon
  <2>5. ratio(splits[i], dynamic) = v(i)
    BY <2>4, Zenon DEF ratio
  <2> QED BY <2>1, <2>2, <2>3, <2>4, <2>5, Zenon
<1>6. ~ \A i \in DOMAIN splits : splits[i].type = "amount"
  BY <1>3, <1>5, Zenon
<1>7. ASSUME NEW i \in DOMAIN splits
      PROVE  ts[i] = Transfer(splits[i].account, out, splits[i].denom, q(i) * w(i))
  BY <1>5, <1>6, Zenon DEF reverseAmounts, out_of_base_denom, m
<1>8. ASSUME NEW i \in DOMAIN splits
      PROVE  q(i) \in Nat /\ q(i) * v(i) <= m * DecimalOne /\ m * DecimalOne < q(i) * v(i) + v(i)
  BY <1>3, <1>5, RatioDown, DecimalOneAssumption, Zenon
<1> HIDE DEF q, v, w, ts
<1>9. ASSUME NEW i \in shares
      PROVE  /\ i \in DOMAIN splits
             /\ balance'[splits[i].account][splits[i].denom] = had(i) - q(i) * w(i)
  <2> DEFINE a == splits[i].account
             d == splits[i].denom
             f == flows(ts, a, d)
  <2>1. i \in DOMAIN splits /\ a # out
    BY Zenon
  <2>2. a \in Address /\ d \in Denom /\ q(i) * w(i) \in Int
    <3>1. a \in Address /\ d \in Denom /\ q(i) \in Nat /\ w(i) \in Nat
      BY <1>5, <1>8, <2>1, Zenon
    <3> QED BY <3>1, SMT
  <2>3. f[i] = 0 - q(i) * w(i)
    <3> DEFINE n == q(i) * w(i)
    <3>1. i \in DOMAIN ts /\ ts[i] = Transfer(a, out, d, n)
      BY <1>3, <1>7, <2>1, ZenonT(40)
    <3> HIDE DEF a, d, n, splits, out
    <3>2. f[i] = 0 - n
      BY <2>1, <2>2, <3>1, SMTT(30) DEF flows, flow, Transfer
    <3> QED BY <3>2, Zenon DEF n
  <2>4. ASSUME NEW j \in DOMAIN ts, j # i PROVE f[j] = 0
    <3>1. j \in DOMAIN splits /\ ts[j] = Transfer(splits[j].account, out, splits[j].denom, q(j) * w(j))
      BY <1>3, <1>7, Zenon
    <3>2. splits[j].denom # d \/ splits[j].account # a
      BY <1>4, <2>1, <2>4, <3>1, ZenonT(40) DEF UniqueSplits
    <3> HIDE DEF a, d, splits, out
    <3> QED BY <2>1, <3>1, <3>2 DEF flows, flow, Transfer
  <2>5. f[i] \in Int /\ i \in DOMAIN ts /\ IsFiniteSet(DOMAIN ts)
    BY <1>3, <2>1, <2>2, <2>3, Flows
  <2> HIDE DEF f
  <2>6. SumFunctionOnSet(f, DOMAIN ts) = f[i]
    BY <2>4, <2>5, SumOfOne, Zenon
  <2>7. balance'[a][d] = balance[a][d] + SumFunctionOnSet(f, DOMAIN ts)
    BY <1>1, <1>2, <1>3, <2>2, BankKeepsTypes, Zenon DEF f
  <2>8. had(i) \in Nat /\ had(i) = balance[a][d]
    BY <1>5, <2>1, Zenon
  <2> HIDE DEF a, d, had
  <2>9. balance'[a][d] = had(i) - q(i) * w(i)
    BY <2>2, <2>3, <2>6, <2>7, <2>8
  <2> QED BY <2>1, <2>9, Zenon DEF a, d
<1>10. ASSUME NEW i \in shares PROVE worth(i) = q(i) * v(i) /\ q(i) * v(i) \in Nat
  <2>1. /\ i \in DOMAIN splits
        /\ q(i) \in Nat /\ v(i) \in Nat \ {0} /\ w(i) \in Nat \ {0} /\ had(i) \in Nat
    BY <1>5, <1>8, <1>9, Zenon
  <2>2. balance'[splits[i].account][splits[i].denom] = had(i) - q(i) * w(i)
    BY <1>9, Zenon
  <2> HIDE DEF had
  <2>3. q(i) * w(i) \in Int
    BY <2>1, SMTT(30)
  <2>4. paid(i) = q(i) * w(i)
    BY <2>1, <2>2, <2>3
  <2>5. (q(i) * w(i)) * v(i) = (q(i) * v(i)) * w(i) /\ q(i) * v(i) \in Nat
    BY <2>1, SMT
  <2>6. ((q(i) * v(i)) * w(i)) \div w(i) = q(i) * v(i)
    BY <2>1, <2>5, DivExact, Zenon
  <2> QED BY <2>4, <2>5, <2>6, Zenon
<1>11. ASSUME NEW i \in shares, NEW j \in shares PROVE worth(i) - worth(j) < v(j)
  <2>1. /\ q(i) * v(i) <= m * DecimalOne /\ m * DecimalOne < q(j) * v(j) + v(j)
        /\ v(j) \in Nat /\ q(i) * v(i) \in Nat /\ q(j) * v(j) \in Nat
    BY <1>5, <1>8, <1>9, <1>10, ZenonT(40)
  <2>2. m * DecimalOne \in Nat
    BY <1>3, DecimalOneAssumption, SMT
  <2>3. worth(i) = q(i) * v(i) /\ worth(j) = q(j) * v(j)
    BY <1>10, Zenon
  <2>4. ASSUME NEW x \in Nat, NEW y \in Nat, NEW z \in Nat, NEW u \in Nat, x <= u, u < y + z
        PROVE  x - y < z
    BY <2>4
  <2> HIDE DEF worth
  <2>5. q(i) * v(i) - q(j) * v(j) < v(j)
    BY <2>1, <2>2, <2>4, Zenon
  <2> QED BY <2>3, <2>5, Zenon
<1>12. ASSUME shares = DOMAIN splits
       PROVE  \E i \in shares : balance'[splits[i].account][splits[i].denom] * v(i)
                                  < (DecimalOne + v(i)) * w(i)
  <2>1. PICK i \in DOMAIN splits : m = payable(splits[i], dynamic)
    BY <1>3, Zenon
  <2> DEFINE x == multiply_ratio(had(i), v(i), DecimalOne)
  <2>2. /\ v(i) \in Nat \ {0} /\ w(i) \in Nat \ {0} /\ had(i) \in Nat
        /\ ratio(splits[i], dynamic) = v(i) /\ splits[i].type # "amount"
    BY <1>5, Zenon
  <2>3. x \in Nat /\ had(i) * v(i) < x * DecimalOne + DecimalOne
    BY <2>2, RatioDown, DecimalOneAssumption, Zenon
  <2>4. m = x \div w(i)
    BY <2>1, <2>2, Zenon DEF payable, in_base_denom, w
  <2> HIDE DEF x, had
  <2>5. x < m * w(i) + w(i)
    BY <2>2, <2>3, <2>4, DivDown, Zenon
  <2>6. q(i) \in Nat /\ m * DecimalOne < q(i) * v(i) + v(i)
    BY <1>8, Zenon
  <2>7. (had(i) - q(i) * w(i)) * v(i) < (DecimalOne + v(i)) * w(i)
    BY <1>3, <2>2, <2>3, <2>5, <2>6, PoorestKeeps, DecimalOneAssumption, Zenon
  <2>8. i \in shares /\ balance'[splits[i].account][splits[i].denom] = had(i) - q(i) * w(i)
    BY <1>9, <1>12, Zenon
  <2> QED BY <2>7, <2>8, Zenon
<1> QED BY <1>11, <1>12, Zenon

\* Rounding costs less than one unit for each share, in both splitters.
THEOREM OnlyDustIsLost == LibrarySpec => SplitsLoseOnlyDust
<1> DEFINE Dust == Len(calls') > Len(calls) =>
                     /\ kind = "splitter" => LeavesDust
                     /\ kind = "reverse_splitter" => PooledInProportion
<1>1. ASSUME LibrariesInv, [LibraryNext]_libraryVars
      PROVE  [Dust]_libraryVars
  <2>1. ASSUME NEW s, NEW dynamic \in [Denom -> Ratios], process_split(s, dynamic) PROVE Dust
    <3>1. kind # "reverse_splitter"
      BY <2>1, Zenon DEF process_split
    <3> QED BY <1>1, <2>1, <3>1, SplitLeavesDust, Zenon
  <2>2. ASSUME NEW s, NEW dynamic \in [Denom -> Ratios], process_reverse_split(s, dynamic) PROVE Dust
    <3>1. kind # "splitter"
      BY <2>2, Zenon DEF process_reverse_split
    <3> QED BY <1>1, <2>2, <3>1, ReversePoolsInProportion, Zenon
  <2>3. ASSUME NEW s, process_forward(s) PROVE Dust
    <3>1. kind # "splitter" /\ kind # "reverse_splitter"
      BY <2>3, Zenon DEF process_forward
    <3> QED BY <3>1, Zenon
  <2>4. Len(calls) \in Nat
    BY <1>1 DEF LibrariesInv, LibrariesTyped
  <2>5. ASSUME calls' = calls PROVE Dust
    <3>1. ~ (Len(calls') > Len(calls))
      BY <2>4, <2>5
    <3> QED BY <3>1, Zenon
  <2> HIDE DEF Dust
  <2>6. ASSUME LibraryNext PROVE Dust
    BY <2>1, <2>2, <2>3, <2>5, <2>6, ZenonT(40)
       DEF LibraryNext, approve_library, remove_library, update_ownership, execute_msg,
           update_config, update_processor, library_ownership, receiveCoins, nextBlock
  <2> QED BY <1>1, <2>6, Zenon
<1> HIDE DEF Dust
<1>2. [][Dust]_libraryVars => SplitsLoseOnlyDust
  BY PTL DEF SplitsLoseOnlyDust, Dust
<1> QED BY <1>1, <1>2, LibrariesAreChecked, PTL DEF LibrarySpec

=============================================================================
