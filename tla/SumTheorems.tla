---------------------------- MODULE SumTheorems ----------------------------
(***************************************************************************)
(* Facts about SumFunctionOnSet, the sum of a function's values over a     *)
(* finite set, by which the indexer's totals are compared with what they   *)
(* count.  The sum adds the elements up in an order that is not known, so  *)
(* each fact is proved by induction over the subsets of the set.  What the *)
(* induction is about is the set of the subsets for which the fact holds:  *)
(* no operator is passed to a theorem.                                     *)
(***************************************************************************)
EXTENDS Integers, Functions, FiniteSetTheorems, TLAPS

\* What holds of a subset once it holds of all smaller ones holds of all: a
\* counterexample would have a smallest one.
LEMMA SubsetInduction ==
    ASSUME NEW S, IsFiniteSet(S), NEW Good,
           \A s \in SUBSET S : (\A t \in SUBSET s : t # s => t \in Good) => s \in Good
    PROVE  \A s \in SUBSET S : s \in Good
  <1>1. IsWellFoundedOn(StrictSubsetOrdering(S), SUBSET S)
    BY FS_StrictSubsetOrderingWellFounded, FS_FiniteSubsetsOfFinite
  <1> DEFINE Bad == (SUBSET S) \ Good
  <1> SUFFICES ASSUME Bad # {} PROVE FALSE
    OBVIOUS
  <1>2. PICK x \in Bad : \A y \in Bad : ~ (<<y, x>> \in StrictSubsetOrdering(S))
    <2>1. Bad \subseteq SUBSET S
      OBVIOUS
    <2> HIDE DEF Bad
    <2> QED BY <1>1, <2>1, WFMin
  <1>3. ASSUME NEW y \in SUBSET x, y # x PROVE y \in Good
    <2>1. y \in SUBSET S /\ x \in SUBSET S
      OBVIOUS
    <2>2. <<y, x>> \in StrictSubsetOrdering(S)
      BY <1>3, <2>1 DEF StrictSubsetOrdering
    <2> QED BY <1>2, <2>1, <2>2
  <1>4. x \in SUBSET S /\ x \notin Good
    OBVIOUS
  <1> QED BY <1>3, <1>4

\* The induction over the natural numbers: on the number of elements.
LEMMA NumberInduction ==
    ASSUME NEW G, 0 \in G, \A n \in Nat : n \in G => n + 1 \in G
    PROVE  \A n \in Nat : n \in G
  <1> SUFFICES ASSUME NEW n \in Nat PROVE n \in G
    OBVIOUS
  <1> DEFINE S == 1..n
             Good == {s \in SUBSET S : Cardinality(s) \in G}
  <1>1. IsFiniteSet(S) /\ Cardinality(S) = n
    BY FS_Interval
  <1> HIDE DEF S
  <1>2. ASSUME NEW s \in SUBSET S, \A t \in SUBSET s : t # s => t \in Good
        PROVE  Cardinality(s) \in G
    <2>1. IsFiniteSet(s) /\ Cardinality(s) \in Nat
      BY <1>1, FS_Subset, FS_CardinalityType
    <2>2. CASE s = {}
      BY <2>2, FS_EmptySet
    <2>3. CASE s # {}
      <3>1. PICK x \in s : TRUE
        BY <2>3
      <3>2. Cardinality(s \ {x}) \in G
        BY <1>2, <3>1
      <3>3. IsFiniteSet(s \ {x}) /\ Cardinality(s \ {x}) = Cardinality(s) - 1
        BY <2>1, <3>1, FS_RemoveElement
      <3>4. Cardinality(s \ {x}) \in Nat
        BY <3>3, FS_CardinalityType
      <3>5. Cardinality(s) = Cardinality(s \ {x}) + 1
        BY <2>1, <3>3, <3>4
      <3> QED BY <3>2, <3>4, <3>5
    <2> QED BY <2>2, <2>3
  <1>3. \A s \in SUBSET S : (\A t \in SUBSET s : t # s => t \in Good) => s \in Good
    BY <1>2
  <1>4. S \in Good
    <2> HIDE DEF Good
    <2> QED BY <1>1, <1>3, SubsetInduction
  <1> QED BY <1>1, <1>4

\* Some numbers have a least one.
LEMMA LeastNumber ==
    ASSUME NEW S \in SUBSET Nat, S # {}
    PROVE  \E n \in S : \A m \in S : n <= m
  <1> DEFINE Has == \E n \in S : \A m \in S : n <= m
             G == {n \in Nat : (\E m \in S : m <= n) => Has}
  <1>1. 0 \in G
    OBVIOUS
  <1>2. ASSUME NEW n \in Nat, n \in G PROVE n + 1 \in G
    <2> SUFFICES ASSUME NEW m \in S, m <= n + 1 PROVE Has
      OBVIOUS
    <2>1. CASE \E k \in S : k <= n
      BY <1>2, <2>1
    <2>2. CASE \A k \in S : ~(k <= n)
      BY <2>2
    <2> QED BY <2>1, <2>2
  <1>3. \A n \in Nat : n \in G
    <2> HIDE DEF G
    <2> QED BY <1>1, <1>2, NumberInduction
  <1>4. PICK m \in S : TRUE
    OBVIOUS
  <1>5. m \in G /\ m <= m
    BY <1>3
  <1> QED BY <1>5

-----------------------------------------------------------------------------
\* The function that the sum recurses with: g[s] is the sum over s.
Any(s) == CHOOSE x \in s : TRUE
Rest(s) == s \ {Any(s)}
Adds(g, f, S) == g = [s \in SUBSET S |-> IF s = {} THEN 0 ELSE f[Any(s)] + g[Rest(s)]]

LEMMA AnyOf == \A s : s # {} => /\ Any(s) \in s /\ Rest(s) \subseteq s /\ Rest(s) # s
                               /\ s = Rest(s) \cup {Any(s)} /\ Any(s) \notin Rest(s)
  BY DEF Any, Rest

\* Two of them agree where both are defined.
LEMMA AddsUnique ==
    ASSUME NEW f, NEW S, NEW R, IsFiniteSet(S), NEW g, NEW h, Adds(g, f, S), Adds(h, f, R)
    PROVE  \A s \in SUBSET (S \cap R) : g[s] = h[s]
  <1> DEFINE Good == {s \in SUBSET S : s \subseteq R => g[s] = h[s]}
  <1>1. ASSUME NEW s \in SUBSET S, \A t \in SUBSET s : t # s => t \in Good, s \subseteq R
        PROVE  g[s] = h[s]
    <2>1. \A t \in SUBSET (S \cap R) :
              /\ g[t] = IF t = {} THEN 0 ELSE f[Any(t)] + g[Rest(t)]
              /\ h[t] = IF t = {} THEN 0 ELSE f[Any(t)] + h[Rest(t)]
      BY DEF Adds
    <2>2. CASE s = {}
      BY <2>1, <2>2
    <2>3. CASE s # {}
      <3>1. Rest(s) \in SUBSET s /\ Rest(s) # s
        BY <2>3, AnyOf
      <3>2. g[Rest(s)] = h[Rest(s)]
        BY <1>1, <3>1
      <3> QED BY <1>1, <2>1, <2>3, <3>2
    <2> QED BY <2>2, <2>3
  <1>2. \A s \in SUBSET S : (\A t \in SUBSET s : t # s => t \in Good) => s \in Good
    BY <1>1
  <1>3. \A s \in SUBSET S : s \in Good
    <2> HIDE DEF Good
    <2> QED BY <1>2, SubsetInduction
  <1> QED BY <1>3

LEMMA AddsExists ==
    ASSUME NEW f, NEW S, IsFiniteSet(S)
    PROVE  \E g : Adds(g, f, S)
  <1> DEFINE Good == {s \in SUBSET S : \E g : Adds(g, f, s)}
  <1>1. ASSUME NEW s \in SUBSET S, \A t \in SUBSET s : t # s => t \in Good
        PROVE  \E g : Adds(g, f, s)
    <2> DEFINE G(t) == CHOOSE g : Adds(g, f, t)
               g == [t \in SUBSET s |-> IF t = {} THEN 0 ELSE f[Any(t)] + G(Rest(t))[Rest(t)]]
    <2>1. \A t \in SUBSET s : t # s => Adds(G(t), f, t)
      BY <1>1
    <2>2. ASSUME NEW t \in SUBSET s, t # {} PROVE g[Rest(t)] = G(Rest(t))[Rest(t)]
      <3> DEFINE r == Rest(t)
      <3>1. r \in SUBSET s /\ r # s
        BY <2>2, AnyOf
      <3>2. Adds(G(r), f, r)
        BY <2>1, <3>1
      <3>3. CASE r = {}
        <4>1. G(r)[r] = 0
          BY <3>2, <3>3 DEF Adds
        <4>2. g[r] = 0
          BY <3>1, <3>3
        <4> QED BY <4>1, <4>2
      <3>4. CASE r # {}
        <4> DEFINE q == Rest(r)
        <4>1. q \in SUBSET s /\ q # s /\ q \subseteq r
          BY <3>1, <3>4, AnyOf
        <4>2. Adds(G(q), f, q) /\ IsFiniteSet(q)
          BY <2>1, <4>1, FS_Subset
        <4>3. G(q)[q] = G(r)[q]
          BY <3>2, <4>1, <4>2, AddsUnique
        <4>4. G(r)[r] = f[Any(r)] + G(r)[q]
          BY <3>2, <3>4 DEF Adds
        <4>5. g[r] = f[Any(r)] + G(q)[q]
          BY <3>1, <3>4
        <4> QED BY <4>3, <4>4, <4>5
      <3> QED BY <3>3, <3>4
    <2>3. \A t \in SUBSET s : g[t] = IF t = {} THEN 0 ELSE f[Any(t)] + G(Rest(t))[Rest(t)]
      OBVIOUS
    <2>4. g = [t \in SUBSET s |-> g[t]]
      OBVIOUS
    <2> HIDE DEF g, G
    <2>5. \A t \in SUBSET s : g[t] = IF t = {} THEN 0 ELSE f[Any(t)] + g[Rest(t)]
      BY <2>2, <2>3
    <2> QED BY <2>4, <2>5 DEF Adds
  <1>2. \A s \in SUBSET S : (\A t \in SUBSET s : t # s => t \in Good) => s \in Good
    BY <1>1
  <1>3. \A s \in SUBSET S : s \in Good
    <2> HIDE DEF Good
    <2> QED BY <1>2, SubsetInduction
  <1> QED BY <1>3

LEMMA SumIsAdded ==
    ASSUME NEW f, NEW S, IsFiniteSet(S)
    PROVE  \E g : Adds(g, f, S) /\ \A s \in SUBSET S : SumFunctionOnSet(f, s) = g[s]
  <1>1. \A s : SumFunctionOnSet(f, s) = (CHOOSE g : Adds(g, f, s))[s]
    BY DEF SumFunctionOnSet, FoldFunctionOnSet, MapThenFoldSet, Adds, Any, Rest
  <1>2. PICK g : Adds(g, f, S)
    BY AddsExists
  <1>3. ASSUME NEW s \in SUBSET S PROVE SumFunctionOnSet(f, s) = g[s]
    <2>1. IsFiniteSet(s)
      BY FS_Subset
    <2> DEFINE h == CHOOSE i : Adds(i, f, s)
    <2>2. Adds(h, f, s)
      BY <2>1, AddsExists
    <2>3. SumFunctionOnSet(f, s) = h[s]
      BY <1>1
    <2> HIDE DEF h
    <2>4. h[s] = g[s]
      BY <1>2, <2>1, <2>2, AddsUnique
    <2> QED BY <2>3, <2>4
  <1> QED BY <1>2, <1>3

-----------------------------------------------------------------------------
\* Nothing adds up to nothing.
LEMMA SumEmpty == \A f : SumFunctionOnSet(f, {}) = 0
  <1> SUFFICES ASSUME NEW f PROVE SumFunctionOnSet(f, {}) = 0
    OBVIOUS
  <1>1. IsFiniteSet({})
    BY FS_EmptySet
  <1>2. PICK g : Adds(g, f, {}) /\ \A s \in SUBSET {} : SumFunctionOnSet(f, s) = g[s]
    BY <1>1, SumIsAdded
  <1>3. g[{}] = 0
    BY <1>2 DEF Adds
  <1> QED BY <1>2, <1>3

LEMMA SumChoose ==
    ASSUME NEW f, NEW S, IsFiniteSet(S), S # {}
    PROVE  SumFunctionOnSet(f, S) = f[Any(S)] + SumFunctionOnSet(f, Rest(S))
  <1>1. PICK g : Adds(g, f, S) /\ \A s \in SUBSET S : SumFunctionOnSet(f, s) = g[s]
    BY SumIsAdded
  <1>2. Rest(S) \in SUBSET S
    BY AnyOf
  <1> QED BY <1>1, <1>2 DEF Adds

\* A sum of integers is an integer.
LEMMA SumInt ==
    ASSUME NEW f, NEW S, IsFiniteSet(S), \A x \in S : f[x] \in Int
    PROVE  SumFunctionOnSet(f, S) \in Int
  <1> DEFINE Good == {s \in SUBSET S : SumFunctionOnSet(f, s) \in Int}
  <1>1. ASSUME NEW s \in SUBSET S, \A t \in SUBSET s : t # s => t \in Good
        PROVE  SumFunctionOnSet(f, s) \in Int
    <2>1. CASE s = {}
      BY <2>1, SumEmpty
    <2>2. CASE s # {}
      <3>1. f[Any(s)] \in Int /\ SumFunctionOnSet(f, Rest(s)) \in Int
        BY <1>1, <2>2, AnyOf
      <3>2. IsFiniteSet(s)
        BY FS_Subset
      <3> QED BY <2>2, <3>1, <3>2, SumChoose
    <2> QED BY <2>1, <2>2
  <1>2. \A s \in SUBSET S : (\A t \in SUBSET s : t # s => t \in Good) => s \in Good
    BY <1>1
  <1>3. \A s \in SUBSET S : s \in Good
    <2> HIDE DEF Good
    <2> QED BY <1>2, SubsetInduction
  <1> QED BY <1>3

\* A sum of zeros is zero.
LEMMA SumZero ==
    ASSUME NEW f, NEW S, IsFiniteSet(S), \A x \in S : f[x] = 0
    PROVE  SumFunctionOnSet(f, S) = 0
  <1> DEFINE Good == {s \in SUBSET S : SumFunctionOnSet(f, s) = 0}
  <1>1. ASSUME NEW s \in SUBSET S, \A t \in SUBSET s : t # s => t \in Good
        PROVE  SumFunctionOnSet(f, s) = 0
    <2>1. CASE s = {}
      BY <2>1, SumEmpty
    <2>2. CASE s # {}
      <3>1. f[Any(s)] = 0 /\ SumFunctionOnSet(f, Rest(s)) = 0
        BY <1>1, <2>2, AnyOf
      <3>2. IsFiniteSet(s)
        BY FS_Subset
      <3> QED BY <2>2, <3>1, <3>2, SumChoose
    <2> QED BY <2>1, <2>2
  <1>2. \A s \in SUBSET S : (\A t \in SUBSET s : t # s => t \in Good) => s \in Good
    BY <1>1
  <1>3. \A s \in SUBSET S : s \in Good
    <2> HIDE DEF Good
    <2> QED BY <1>2, SubsetInduction
  <1> QED BY <1>3

\* A sum of natural numbers is a natural number.
LEMMA SumNat ==
    ASSUME NEW f, NEW S, IsFiniteSet(S), \A x \in S : f[x] \in Nat
    PROVE  SumFunctionOnSet(f, S) \in Nat
  <1> DEFINE Good == {s \in SUBSET S : SumFunctionOnSet(f, s) \in Nat}
  <1>1. ASSUME NEW s \in SUBSET S, \A t \in SUBSET s : t # s => t \in Good
        PROVE  SumFunctionOnSet(f, s) \in Nat
    <2>1. CASE s = {}
      BY <2>1, SumEmpty
    <2>2. CASE s # {}
      <3>1. f[Any(s)] \in Nat /\ SumFunctionOnSet(f, Rest(s)) \in Nat
        BY <1>1, <2>2, AnyOf
      <3>2. IsFiniteSet(s)
        BY FS_Subset
      <3> QED BY <2>2, <3>1, <3>2, SumChoose
    <2> QED BY <2>1, <2>2
  <1>2. \A s \in SUBSET S : (\A t \in SUBSET s : t # s => t \in Good) => s \in Good
    BY <1>1
  <1>3. \A s \in SUBSET S : s \in Good
    <2> HIDE DEF Good
    <2> QED BY <1>2, SubsetInduction
  <1> QED BY <1>3

\* Any element may be taken out first.
LEMMA SumTake ==
    ASSUME NEW f, NEW S, IsFiniteSet(S), \A x \in S : f[x] \in Int, NEW x \in S
    PROVE  SumFunctionOnSet(f, S) = f[x] + SumFunctionOnSet(f, S \ {x})
  <1> DEFINE Sum(s) == SumFunctionOnSet(f, s)
             Good == {s \in SUBSET S : \A y \in s : Sum(s) = f[y] + Sum(s \ {y})}
  <1>1. ASSUME NEW s \in SUBSET S, \A t \in SUBSET s : t # s => t \in Good, NEW y \in s
        PROVE  Sum(s) = f[y] + Sum(s \ {y})
    <2> DEFINE c == Any(s)
               K == Sum((s \ {c}) \ {y})
    <2>1. c \in s /\ Sum(s) = f[c] + Sum(s \ {c})
      <3>1. IsFiniteSet(s) /\ s # {}
        BY FS_Subset
      <3> QED BY <3>1, SumChoose, AnyOf DEF Rest
    <2>2. CASE y = c
      BY <2>1, <2>2
    <2>3. CASE y # c
      <3>1. \A t \in SUBSET s : t # s => \A z \in t : Sum(t) = f[z] + Sum(t \ {z})
        BY <1>1
      <3>2. Sum(s \ {c}) = f[y] + K
        BY <2>1, <2>3, <3>1
      <3>3. (s \ {c}) \ {y} = (s \ {y}) \ {c}
        OBVIOUS
      <3>4. Sum(s \ {y}) = f[c] + K
        <4>1. Sum(s \ {y}) = f[c] + Sum((s \ {y}) \ {c})
          BY <2>1, <2>3, <3>1
        <4> QED BY <3>3, <4>1
      <3>5. f[y] \in Int /\ f[c] \in Int /\ K \in Int
        <4>1. IsFiniteSet((s \ {c}) \ {y})
          BY FS_Subset
        <4> QED BY <2>1, <4>1, SumInt
      <3> HIDE DEF Sum, c, K
      <3> QED BY <2>1, <3>2, <3>4, <3>5
    <2> QED BY <2>2, <2>3
  <1>2. \A s \in SUBSET S : (\A t \in SUBSET s : t # s => t \in Good) => s \in Good
    <2> HIDE DEF Sum
    <2> QED BY <1>1
  <1>3. \A s \in SUBSET S : s \in Good
    <2> HIDE DEF Good
    <2> QED BY <1>2, SubsetInduction
  <1> QED BY <1>3

LEMMA SumAdd ==
    ASSUME NEW f, NEW S, IsFiniteSet(S), NEW x, x \notin S, \A y \in S \cup {x} : f[y] \in Int
    PROVE  SumFunctionOnSet(f, S \cup {x}) = f[x] + SumFunctionOnSet(f, S)
  <1> DEFINE R == S \cup {x}
  <1>1. IsFiniteSet(R) /\ R \ {x} = S /\ x \in R
    BY FS_AddElement
  <1> HIDE DEF R
  <1>2. SumFunctionOnSet(f, R) = f[x] + SumFunctionOnSet(f, R \ {x})
    <2>1. \A y \in R : f[y] \in Int
      BY DEF R
    <2> QED BY <1>1, <2>1, SumTake
  <1> QED BY <1>1, <1>2 DEF R

\* Functions that agree on a set have the same sum over it.
LEMMA SumSame ==
    ASSUME NEW f, NEW g, NEW S, IsFiniteSet(S), \A x \in S : f[x] = g[x]
    PROVE  SumFunctionOnSet(f, S) = SumFunctionOnSet(g, S)
  <1> DEFINE Good == {s \in SUBSET S : SumFunctionOnSet(f, s) = SumFunctionOnSet(g, s)}
  <1>1. ASSUME NEW s \in SUBSET S, \A t \in SUBSET s : t # s => t \in Good
        PROVE  SumFunctionOnSet(f, s) = SumFunctionOnSet(g, s)
    <2>1. CASE s = {}
      BY <2>1, SumEmpty
    <2>2. CASE s # {}
      <3>1. f[Any(s)] = g[Any(s)] /\ SumFunctionOnSet(f, Rest(s)) = SumFunctionOnSet(g, Rest(s))
        BY <1>1, <2>2, AnyOf
      <3>2. IsFiniteSet(s)
        BY FS_Subset
      <3> QED BY <2>2, <3>1, <3>2, SumChoose
    <2> QED BY <2>1, <2>2
  <1>2. \A s \in SUBSET S : (\A t \in SUBSET s : t # s => t \in Good) => s \in Good
    BY <1>1
  <1>3. \A s \in SUBSET S : s \in Good
    <2> HIDE DEF Good
    <2> QED BY <1>2, SubsetInduction
  <1> QED BY <1>3

\* A change at one place changes the sum by the difference.
LEMMA SumChange ==
    ASSUME NEW f, NEW g, NEW S, IsFiniteSet(S), NEW x \in S,
           \A y \in S : f[y] \in Int /\ g[y] \in Int, \A y \in S \ {x} : f[y] = g[y]
    PROVE  SumFunctionOnSet(g, S) = SumFunctionOnSet(f, S) + (g[x] - f[x])
  <1>1. IsFiniteSet(S \ {x})
    BY FS_Subset
  <1>2. SumFunctionOnSet(f, S \ {x}) = SumFunctionOnSet(g, S \ {x})
    BY <1>1, SumSame
  <1>3. SumFunctionOnSet(f, S \ {x}) \in Int
    BY <1>1, SumInt
  <1>4. /\ SumFunctionOnSet(f, S) = f[x] + SumFunctionOnSet(f, S \ {x})
        /\ SumFunctionOnSet(g, S) = g[x] + SumFunctionOnSet(g, S \ {x})
    BY SumTake
  <1> QED BY <1>2, <1>3, <1>4

\* Sums over disjoint sets add up.
LEMMA SumUnion ==
    ASSUME NEW f, NEW S, NEW R, IsFiniteSet(S), IsFiniteSet(R), S \cap R = {},
           \A x \in S \cup R : f[x] \in Int
    PROVE  SumFunctionOnSet(f, S \cup R) = SumFunctionOnSet(f, S) + SumFunctionOnSet(f, R)
  <1> DEFINE Sum(s) == SumFunctionOnSet(f, s)
             Good == {s \in SUBSET R : Sum(S \cup s) = Sum(S) + Sum(s)}
  <1>0. Sum(S) \in Int
    BY SumInt
  <1>1. ASSUME NEW s \in SUBSET R, \A t \in SUBSET s : t # s => t \in Good
        PROVE  Sum(S \cup s) = Sum(S) + Sum(s)
    <2>1. CASE s = {}
      <3>1. S \cup s = S
        BY <2>1
      <3>2. Sum(S \cup s) = Sum(S)
        BY <3>1
      <3>3. Sum(s) = 0
        BY <2>1, SumEmpty
      <3> HIDE DEF Sum
      <3> QED BY <1>0, <3>2, <3>3
    <2>2. CASE s # {}
      <3> DEFINE c == Any(s)
                 r == s \ {c}
      <3>1. c \in s /\ r \in SUBSET s /\ r # s /\ c \notin S
        <4>1. c \in s
          BY <2>2, AnyOf
        <4> HIDE DEF c
        <4> QED BY <4>1
      <3>2. Sum(S \cup r) = Sum(S) + Sum(r)
        BY <1>1, <3>1
      <3>3. IsFiniteSet(s) /\ IsFiniteSet(r) /\ IsFiniteSet(S \cup s)
        BY <3>1, FS_Subset, FS_Union
      <3>4. Sum(s) = f[c] + Sum(r)
        BY <3>1, <3>3, SumTake
      <3>5. Sum(S \cup s) = f[c] + Sum(S \cup r)
        <4>1. Sum(S \cup s) = f[c] + Sum((S \cup s) \ {c})
          <5>1. c \in S \cup s /\ \A x \in S \cup s : f[x] \in Int
            BY <3>1
          <5> HIDE DEF c
          <5> QED BY <3>3, <5>1, SumTake
        <4>2. (S \cup s) \ {c} = S \cup r
          BY <3>1
        <4> QED BY <4>1, <4>2
      <3>6. f[c] \in Int /\ Sum(r) \in Int
        BY <3>1, <3>3, SumInt
      <3> HIDE DEF Sum, c, r
      <3> QED BY <1>0, <3>2, <3>4, <3>5, <3>6
    <2> QED BY <2>1, <2>2
  <1>2. \A s \in SUBSET R : (\A t \in SUBSET s : t # s => t \in Good) => s \in Good
    <2> HIDE DEF Sum
    <2> QED BY <1>1
  <1>3. \A s \in SUBSET R : s \in Good
    <2> HIDE DEF Good
    <2> QED BY <1>2, SubsetInduction
  <1> QED BY <1>3

\* Fewer natural numbers have a smaller sum.
LEMMA SumSubset ==
    ASSUME NEW f, NEW S, IsFiniteSet(S), \A x \in S : f[x] \in Nat, NEW R \in SUBSET S
    PROVE  /\ SumFunctionOnSet(f, S) = SumFunctionOnSet(f, R) + SumFunctionOnSet(f, S \ R)
           /\ SumFunctionOnSet(f, R) <= SumFunctionOnSet(f, S)
  <1> DEFINE Q == S \ R
  <1>1. IsFiniteSet(R) /\ IsFiniteSet(Q) /\ R \cup Q = S /\ R \cap Q = {}
    BY FS_Subset
  <1>2. SumFunctionOnSet(f, R) \in Nat /\ SumFunctionOnSet(f, Q) \in Nat
    BY <1>1, SumNat
  <1>3. SumFunctionOnSet(f, R \cup Q) = SumFunctionOnSet(f, R) + SumFunctionOnSet(f, Q)
    <2>1. \A x \in R \cup Q : f[x] \in Int
      OBVIOUS
    <2> HIDE DEF Q
    <2> QED BY <1>1, <2>1, SumUnion
  <1>4. SumFunctionOnSet(f, S) = SumFunctionOnSet(f, R) + SumFunctionOnSet(f, Q)
    <2> HIDE DEF Q
    <2> QED BY <1>1, <1>3
  <1>5. SumFunctionOnSet(f, R) <= SumFunctionOnSet(f, S)
    <2> HIDE DEF Q
    <2> QED BY <1>2, <1>4
  <1> QED BY <1>4, <1>5
=============================================================================
