---------------------------- MODULE SumTheorems ----------------------------
(***************************************************************************)
(* Facts about SumFunctionOnSet, the sum of the values of a function over  *)
(* a finite set.  The operator is defined by recursion over an arbitrary   *)
(* order of the elements; what is shown here is that the order plays no    *)
(* part, and how sums of different sets and functions compare.  At the end *)
(* are the facts about products that sums of squares need.                 *)
(*                                                                         *)
(* Induction takes the form of a set that is closed: a set of numbers that *)
(* has 0 and every successor, a set of sets that has {} and every set with *)
(* one element more.                                                       *)
(***************************************************************************)
EXTENDS Integers, FiniteSets, Functions, FiniteSetTheorems, TLAPS

\* A set of numbers that is not empty has a least one.
LEMMA LeastNumber ==
  ASSUME NEW T \in SUBSET Nat, T # {}
  PROVE  \E m \in T : \A n \in T : m <= n
<1> DEFINE Less == OpToRel(<, Nat)
<1>1. PICK m \in T : \A n \in T : <<n, m>> \notin Less
  BY NatLessThanWellFounded, WFMin
<1>2. \A n \in T : ~(n < m)
  BY <1>1 DEF OpToRel
<1> QED
  BY <1>2, SMT

\* A set of numbers that holds 0, and n + 1 with each n, holds them all.
LEMMA NumberInduction ==
  ASSUME NEW T \in SUBSET Nat, 0 \in T, \A n \in T : n + 1 \in T
  PROVE  T = Nat
<1>1. SUFFICES ASSUME Nat \ T # {} PROVE FALSE
  OBVIOUS
<1>2. PICK m \in Nat \ T : \A n \in Nat \ T : m <= n
  BY <1>1, LeastNumber
<1>3. m - 1 \in Nat /\ (m - 1) + 1 = m /\ ~(m <= m - 1)
  BY <1>2, SMT
<1>4. m - 1 \in T
  BY <1>2, <1>3
<1> QED
  BY <1>3, <1>4

\* A set of subsets of S that holds a set whenever it holds all its strict
\* subsets, holds S.
LEMMA StrongSetInduction ==
  ASSUME NEW S, IsFiniteSet(S), NEW F \in SUBSET SUBSET S,
         \A T \in SUBSET S : (\A U \in SUBSET T : U # T => U \in F) => T \in F
  PROVE  F = SUBSET S
<1> DEFINE Smaller == StrictSubsetOrdering(S)
<1>1. SUFFICES ASSUME (SUBSET S) \ F # {} PROVE FALSE
  OBVIOUS
<1>2. IsWellFoundedOn(Smaller, SUBSET S)
  BY FS_FiniteSubsetsOfFinite, FS_StrictSubsetOrderingWellFounded
<1>3. PICK T \in (SUBSET S) \ F : \A U \in (SUBSET S) \ F : <<U, T>> \notin Smaller
  <2> DEFINE Bad == (SUBSET S) \ F
  <2>1. Bad # {} /\ Bad \subseteq SUBSET S
    BY <1>1
  <2> HIDE DEF Bad, Smaller
  <2>2. \E T \in Bad : \A U \in Bad : <<U, T>> \notin Smaller
    BY <1>2, <2>1, WFMin
  <2> QED
    BY <2>2 DEF Bad
<1>4. \A U \in SUBSET T : U # T => U \in F
  BY <1>3 DEF StrictSubsetOrdering
<1> QED
  BY <1>4

\* A set of subsets of S that holds {}, and with each set the sets that have
\* one more element of S, holds S.
LEMMA SetInduction ==
  ASSUME NEW S, IsFiniteSet(S), NEW F \in SUBSET SUBSET S, {} \in F,
         \A T \in F : \A x \in S \ T : T \cup {x} \in F
  PROVE  S \in F
<1>1. ASSUME NEW T \in SUBSET S, \A U \in SUBSET T : U # T => U \in F
      PROVE  T \in F
  <2>1. CASE T = {}
    BY <2>1
  <2>2. CASE T # {}
    <3>1. PICK x \in T : TRUE
      BY <2>2
    <3>2. T \ {x} \in F /\ x \in S \ (T \ {x}) /\ (T \ {x}) \cup {x} = T
      BY <1>1, <3>1
    <3> QED
      BY <3>2
  <2> QED
    BY <2>1, <2>2
<1>2. F = SUBSET S
  BY <1>1, StrongSetInduction
<1> QED
  BY <1>2

----------------------------------------------------------------------------
(***************************************************************************)
(* The recursion.  Any is the order in which SumFunctionOnSet takes the    *)
(* elements; a Body of itself is what it computes on the sets in D.        *)
(***************************************************************************)
Any(s) == CHOOSE x \in s : TRUE

Body(f, D, g) == [s \in D |-> IF s = {} THEN 0 ELSE f[Any(s)] + g[s \ {Any(s)}]]

Partial(f, D) == CHOOSE g : g = Body(f, D, g)

LEMMA SumUnfold ==
  ASSUME NEW f, NEW S
  PROVE  SumFunctionOnSet(f, S) = Partial(f, SUBSET S)[S]
  BY DEF SumFunctionOnSet, FoldFunctionOnSet, MapThenFoldSet, Body, Any, Partial

LEMMA AnyIn == ASSUME NEW s, s # {} PROVE Any(s) \in s
  BY DEF Any

\* There is such a function: of the sets of up to n elements, for every n.
LEMMA PartialExists ==
  ASSUME NEW f, NEW S, IsFiniteSet(S)
  PROVE  Partial(f, SUBSET S) = Body(f, SUBSET S, Partial(f, SUBSET S))
<1> DEFINE UpTo(n) == {T \in SUBSET S : Cardinality(T) <= n}
           Has     == {n \in Nat : \E g : g = Body(f, UpTo(n), g)}
<1>1. \A T \in SUBSET S : IsFiniteSet(T) /\ Cardinality(T) \in Nat
  BY FS_Subset, FS_CardinalityType
<1>2. 0 \in Has
  <2> DEFINE g == [s \in UpTo(0) |-> 0]
  <2>1. \A s \in UpTo(0) : s = {}
    BY <1>1, FS_EmptySet
  <2>2. Body(f, UpTo(0), g) = g
    BY <2>1 DEF Body
  <2> QED
    BY <2>2
<1>3. ASSUME NEW n \in Has PROVE n + 1 \in Has
  <2>1. PICK g : g = Body(f, UpTo(n), g)
    OBVIOUS
  <2> DEFINE h == Body(f, UpTo(n + 1), g)
  <2>2. ASSUME NEW s \in UpTo(n + 1), s # {}
        PROVE  /\ s \ {Any(s)} \in UpTo(n) /\ s \ {Any(s)} \in UpTo(n + 1)
               /\ h[s \ {Any(s)}] = g[s \ {Any(s)}]
    <3> DEFINE t == s \ {Any(s)}
    <3>1. Any(s) \in s
      BY <2>2, AnyIn
    <3>2. Cardinality(t) = Cardinality(s) - 1
      BY <1>1, <3>1, FS_RemoveElement
    <3>3. t \in UpTo(n) /\ t \in UpTo(n + 1)
      BY <1>1, <3>2
    <3>4. h[t] = IF t = {} THEN 0 ELSE f[Any(t)] + g[t \ {Any(t)}]
      BY <3>3 DEF Body
    <3>5. g[t] = IF t = {} THEN 0 ELSE f[Any(t)] + g[t \ {Any(t)}]
      BY <2>1, <3>3 DEF Body
    <3> QED
      BY <3>3, <3>4, <3>5
  <2>3. h = Body(f, UpTo(n + 1), h)
    BY <2>2 DEF Body
  <2>4. \E k : k = Body(f, UpTo(n + 1), k)
    <3> HIDE DEF h
    <3> QED
      BY <2>3
  <2>5. n + 1 \in Nat
    BY SMT
  <2> QED
    BY <2>4, <2>5
<1>4. Has = Nat
  <2> HIDE DEF Has
  <2> QED
    BY <1>2, <1>3, NumberInduction DEF Has
<1>5. UpTo(Cardinality(S)) = SUBSET S
  BY <1>1, FS_Subset
<1>6. Cardinality(S) \in Has
  BY <1>1, <1>4
<1>7. \E g : g = Body(f, SUBSET S, g)
  BY <1>5, <1>6
<1> QED
  BY <1>7 DEF Partial

\* What it computes on a set does not depend on the sets around.
LEMMA PartialAgrees ==
  ASSUME NEW f, NEW S, IsFiniteSet(S), NEW T \in SUBSET S
  PROVE  Partial(f, SUBSET T)[T] = Partial(f, SUBSET S)[T]
<1> DEFINE g == Partial(f, SUBSET S)
           h == Partial(f, SUBSET T)
           F == {U \in SUBSET T : g[U] = h[U]}
<1>1. IsFiniteSet(T)
  BY FS_Subset
<1>2. g = Body(f, SUBSET S, g) /\ h = Body(f, SUBSET T, h)
  BY <1>1, PartialExists
<1> HIDE DEF g, h
<1>3. ASSUME NEW U \in SUBSET T, \A V \in SUBSET U : V # U => V \in F
      PROVE  U \in F
  <2>1. g[U] = IF U = {} THEN 0 ELSE f[Any(U)] + g[U \ {Any(U)}]
    BY <1>2 DEF Body
  <2>2. h[U] = IF U = {} THEN 0 ELSE f[Any(U)] + h[U \ {Any(U)}]
    BY <1>2 DEF Body
  <2>3. CASE U = {}
    BY <2>1, <2>2, <2>3
  <2>4. CASE U # {}
    <3>1. Any(U) \in U
      BY <2>4, AnyIn
    <3>2. U \ {Any(U)} \in F
      BY <1>3, <3>1
    <3> QED
      BY <2>1, <2>2, <2>4, <3>2
  <2> QED
    BY <2>3, <2>4
<1>4. F = SUBSET T
  <2>1. F \in SUBSET SUBSET T
    OBVIOUS
  <2> HIDE DEF F
  <2> QED
    BY <1>1, <1>3, <2>1, StrongSetInduction
<1>5. T \in F
  BY <1>4
<1> QED
  BY <1>5 DEF g, h

\* So sums are computed by taking out one element.
LEMMA SumTakesAny ==
  ASSUME NEW f, NEW S, IsFiniteSet(S)
  PROVE  SumFunctionOnSet(f, S) =
           IF S = {} THEN 0 ELSE f[Any(S)] + SumFunctionOnSet(f, S \ {Any(S)})
<1> DEFINE g == Partial(f, SUBSET S)
           T == S \ {Any(S)}
<1>1. g = Body(f, SUBSET S, g)
  BY PartialExists
<1>2. SumFunctionOnSet(f, S) = g[S] /\ SumFunctionOnSet(f, T) = g[T]
  BY SumUnfold, PartialAgrees
<1>3. g[S] = IF S = {} THEN 0 ELSE f[Any(S)] + g[T]
  <2> HIDE DEF g
  <2> QED
    BY <1>1 DEF Body
<1> QED
  BY <1>2, <1>3

----------------------------------------------------------------------------
LEMMA SumEmpty == ASSUME NEW f PROVE SumFunctionOnSet(f, {}) = 0
  BY SumTakesAny, FS_EmptySet

LEMMA SumType ==
  ASSUME NEW D, NEW f \in [D -> Int], NEW S \in SUBSET D, IsFiniteSet(S)
  PROVE  SumFunctionOnSet(f, S) \in Int
<1> DEFINE F == {T \in SUBSET S : SumFunctionOnSet(f, T) \in Int}
<1>1. ASSUME NEW T \in SUBSET S, \A U \in SUBSET T : U # T => U \in F
      PROVE  T \in F
  <2>1. CASE T = {}
    BY <2>1, SumEmpty
  <2>2. CASE T # {}
    <3>1. Any(T) \in T /\ f[Any(T)] \in Int
      BY <2>2, AnyIn
    <3>2. SumFunctionOnSet(f, T \ {Any(T)}) \in Int
      BY <1>1, <3>1
    <3>3. SumFunctionOnSet(f, T) = f[Any(T)] + SumFunctionOnSet(f, T \ {Any(T)})
      BY <2>2, SumTakesAny, FS_Subset
    <3> QED
      BY <3>1, <3>2, <3>3
  <2> QED
    BY <2>1, <2>2
<1>2. F = SUBSET S
  <2>1. F \in SUBSET SUBSET S
    OBVIOUS
  <2> HIDE DEF F
  <2> QED
    BY <1>1, <2>1, StrongSetInduction
<1> QED
  BY <1>2

\* The order plays no part: any element may be the first to be taken out.
LEMMA SumAdd ==
  ASSUME NEW D, NEW f \in [D -> Int], NEW S \in SUBSET D, IsFiniteSet(S), NEW x \in D \ S
  PROVE  SumFunctionOnSet(f, S \cup {x}) = f[x] + SumFunctionOnSet(f, S)
<1> DEFINE Sum(T) == SumFunctionOnSet(f, T)
           All    == S \cup {x}
           F      == {T \in SUBSET All : \A y \in T : Sum(T) = f[y] + Sum(T \ {y})}
<1>1. IsFiniteSet(All)
  BY FS_AddElement
<1>2. \A T \in SUBSET All : IsFiniteSet(T) /\ Sum(T) \in Int
  BY <1>1, FS_Subset, SumType
<1>3. ASSUME NEW T \in SUBSET All, \A U \in SUBSET T : U # T => U \in F, NEW y \in T
      PROVE  Sum(T) = f[y] + Sum(T \ {y})
  <2> DEFINE a == Any(T)
  <2>1. a \in T /\ f[a] \in Int /\ f[y] \in Int
    BY AnyIn
  <2>2. Sum(T) = f[a] + Sum(T \ {a})
    BY <1>2, SumTakesAny
  <2>3. CASE a = y
    BY <2>2, <2>3
  <2>4. CASE a # y
    <3>1. T \ {a} \in F /\ T \ {y} \in F
      BY <1>3, <2>1
    <3>2. Sum(T \ {a}) = f[y] + Sum((T \ {a}) \ {y})
      BY <2>1, <2>4, <3>1
    <3>3. Sum(T \ {y}) = f[a] + Sum((T \ {y}) \ {a})
      BY <2>1, <2>4, <3>1
    <3>4. (T \ {a}) \ {y} = (T \ {y}) \ {a} /\ (T \ {a}) \ {y} \in SUBSET All
      OBVIOUS
    <3>5. PICK n \in Int : n = Sum((T \ {a}) \ {y})
      BY <1>2, <3>4
    <3>6. Sum(T) = f[a] + (f[y] + n) /\ Sum(T \ {y}) = f[a] + n
      BY <2>2, <3>2, <3>3, <3>4, <3>5
    <3>7. f[a] + (f[y] + n) = f[y] + (f[a] + n)
      BY <2>1, SMT
    <3> QED
      BY <3>6, <3>7
  <2> QED
    BY <2>3, <2>4
<1>4. F = SUBSET All
  <2>1. \A T \in SUBSET All : (\A U \in SUBSET T : U # T => U \in F) => T \in F
    BY <1>3
  <2>2. F \in SUBSET SUBSET All
    OBVIOUS
  <2> HIDE DEF F, All
  <2> QED
    BY <1>1, <2>1, <2>2, StrongSetInduction
<1>5. All \in F /\ All \ {x} = S
  BY <1>4
<1> QED
  BY <1>5

LEMMA SumRemove ==
  ASSUME NEW D, NEW f \in [D -> Int], NEW S \in SUBSET D, IsFiniteSet(S), NEW x \in S
  PROVE  SumFunctionOnSet(f, S) = f[x] + SumFunctionOnSet(f, S \ {x})
<1>1. IsFiniteSet(S \ {x}) /\ S \ {x} \in SUBSET D /\ x \in D \ (S \ {x})
  BY FS_RemoveElement
<1>2. (S \ {x}) \cup {x} = S
  OBVIOUS
<1> QED
  BY <1>1, <1>2, SumAdd

----------------------------------------------------------------------------
(***************************************************************************)
(* Comparisons.                                                            *)
(***************************************************************************)
LEMMA SumNat ==
  ASSUME NEW D, NEW f \in [D -> Nat], NEW S \in SUBSET D, IsFiniteSet(S)
  PROVE  SumFunctionOnSet(f, S) \in Nat
<1> DEFINE F == {T \in SUBSET S : SumFunctionOnSet(f, T) \in Nat}
<1>1. f \in [D -> Int]
  OBVIOUS
<1>2. {} \in F
  BY SumEmpty
<1>3. ASSUME NEW T \in F, NEW x \in S \ T PROVE T \cup {x} \in F
  <2>1. SumFunctionOnSet(f, T \cup {x}) = f[x] + SumFunctionOnSet(f, T)
    BY <1>1, SumAdd, FS_Subset
  <2>2. f[x] \in Nat /\ SumFunctionOnSet(f, T) \in Nat
    OBVIOUS
  <2> QED
    BY <2>1, <2>2
<1>4. S \in F
  <2>1. F \in SUBSET SUBSET S /\ \A T \in F : \A x \in S \ T : T \cup {x} \in F
    BY <1>3
  <2> HIDE DEF F
  <2> QED
    BY <1>2, <2>1, SetInduction
<1> QED
  BY <1>4

\* Where f is at most g, so is the sum.
LEMMA SumMonotone ==
  ASSUME NEW D, NEW f \in [D -> Int], NEW E, NEW g \in [E -> Int],
         NEW S \in SUBSET (D \cap E), IsFiniteSet(S), \A x \in S : f[x] <= g[x]
  PROVE  SumFunctionOnSet(f, S) <= SumFunctionOnSet(g, S)
<1> DEFINE F == {T \in SUBSET S : SumFunctionOnSet(f, T) <= SumFunctionOnSet(g, T)}
<1>1. {} \in F
  BY SumEmpty
<1>2. ASSUME NEW T \in F, NEW x \in S \ T PROVE T \cup {x} \in F
  <2>1. /\ SumFunctionOnSet(f, T \cup {x}) = f[x] + SumFunctionOnSet(f, T)
        /\ SumFunctionOnSet(g, T \cup {x}) = g[x] + SumFunctionOnSet(g, T)
    BY SumAdd, FS_Subset
  <2>2. SumFunctionOnSet(f, T) \in Int /\ SumFunctionOnSet(g, T) \in Int
    BY SumType, FS_Subset
  <2>3. f[x] \in Int /\ g[x] \in Int /\ f[x] <= g[x]
    OBVIOUS
  <2> QED
    BY <2>1, <2>2, <2>3
<1>3. S \in F
  <2>1. F \in SUBSET SUBSET S /\ \A T \in F : \A x \in S \ T : T \cup {x} \in F
    BY <1>2
  <2> HIDE DEF F
  <2> QED
    BY <1>1, <2>1, SetInduction
<1> QED
  BY <1>3

\* A sum depends on the values it sums, and on nothing else.
LEMMA SumSame ==
  ASSUME NEW D, NEW f \in [D -> Int], NEW E, NEW g \in [E -> Int],
         NEW S \in SUBSET (D \cap E), IsFiniteSet(S), \A x \in S : f[x] = g[x]
  PROVE  SumFunctionOnSet(f, S) = SumFunctionOnSet(g, S)
<1>1. \A x \in S : f[x] <= g[x] /\ g[x] <= f[x]
  OBVIOUS
<1>2. SumFunctionOnSet(f, S) <= SumFunctionOnSet(g, S)
  BY <1>1, SumMonotone
<1>3. SumFunctionOnSet(g, S) <= SumFunctionOnSet(f, S)
  BY <1>1, SumMonotone
<1>4. SumFunctionOnSet(f, S) \in Int /\ SumFunctionOnSet(g, S) \in Int
  BY SumType
<1> QED
  BY <1>2, <1>3, <1>4

\* One value changes.
LEMMA SumUpdate ==
  ASSUME NEW D, NEW f \in [D -> Int], NEW g \in [D -> Int],
         NEW S \in SUBSET D, IsFiniteSet(S), NEW a \in S, \A x \in S \ {a} : g[x] = f[x]
  PROVE  SumFunctionOnSet(g, S) = SumFunctionOnSet(f, S) + (g[a] - f[a])
<1>1. /\ SumFunctionOnSet(f, S) = f[a] + SumFunctionOnSet(f, S \ {a})
      /\ SumFunctionOnSet(g, S) = g[a] + SumFunctionOnSet(g, S \ {a})
  BY SumRemove
<1>2. IsFiniteSet(S \ {a}) /\ S \ {a} \in SUBSET (D \cap D)
  BY FS_RemoveElement
<1>3. SumFunctionOnSet(f, S \ {a}) = SumFunctionOnSet(g, S \ {a})
  BY <1>2, SumSame
<1>4. SumFunctionOnSet(f, S \ {a}) \in Int
  BY <1>2, SumType
<1>5. f[a] \in Int /\ g[a] \in Int
  OBVIOUS
<1> QED
  BY <1>1, <1>3, <1>4, <1>5

\* A sum over a function that grows by k in one place, which it counts or not.
LEMMA SumGrows ==
  ASSUME NEW D, NEW f \in [D -> Int], NEW g \in [D -> Int], NEW a \in D, NEW k \in Int,
         g[a] = f[a] + k, \A x \in D \ {a} : g[x] = f[x],
         NEW S \in SUBSET D, IsFiniteSet(S)
  PROVE  SumFunctionOnSet(g, S) = SumFunctionOnSet(f, S) + (IF a \in S THEN k ELSE 0)
<1>1. SumFunctionOnSet(f, S) \in Int /\ f[a] \in Int
  BY SumType
<1>2. CASE a \in S
  <2>1. \A x \in S \ {a} : g[x] = f[x]
    OBVIOUS
  <2>2. SumFunctionOnSet(g, S) = SumFunctionOnSet(f, S) + (g[a] - f[a])
    BY <1>2, <2>1, SumUpdate
  <2> QED
    BY <1>1, <1>2, <2>2
<1>3. CASE a \notin S
  <2>1. S \in SUBSET (D \cap D) /\ \A x \in S : g[x] = f[x]
    BY <1>3
  <2>2. SumFunctionOnSet(g, S) = SumFunctionOnSet(f, S)
    BY <2>1, SumSame
  <2> QED
    BY <1>1, <1>3, <2>2
<1> QED
  BY <1>2, <1>3

\* Sums over disjoint sets add up.
LEMMA SumUnion ==
  ASSUME NEW D, NEW f \in [D -> Int], NEW S \in SUBSET D, IsFiniteSet(S),
         NEW T \in SUBSET D, IsFiniteSet(T), S \cap T = {}
  PROVE  SumFunctionOnSet(f, S \cup T) = SumFunctionOnSet(f, S) + SumFunctionOnSet(f, T)
<1> DEFINE F == {U \in SUBSET T : SumFunctionOnSet(f, S \cup U)
                                    = SumFunctionOnSet(f, S) + SumFunctionOnSet(f, U)}
<1>0. SumFunctionOnSet(f, S) \in Int
  BY SumType
<1>1. {} \in F
  BY <1>0, SumEmpty
<1>2. ASSUME NEW U \in F, NEW x \in T \ U PROVE U \cup {x} \in F
  <2> DEFINE V == S \cup U
  <2>1. /\ IsFiniteSet(U) /\ IsFiniteSet(V) /\ U \in SUBSET D /\ V \in SUBSET D
        /\ x \in D \ V /\ x \in D \ U
    BY FS_Subset, FS_Union
  <2>2. S \cup (U \cup {x}) = V \cup {x}
    OBVIOUS
  <2>3. SumFunctionOnSet(f, V) = SumFunctionOnSet(f, S) + SumFunctionOnSet(f, U)
    OBVIOUS
  <2> HIDE DEF V
  <2>4. SumFunctionOnSet(f, V \cup {x}) = f[x] + SumFunctionOnSet(f, V)
    BY <2>1, SumAdd
  <2>5. SumFunctionOnSet(f, U \cup {x}) = f[x] + SumFunctionOnSet(f, U)
    BY <2>1, SumAdd
  <2>6. SumFunctionOnSet(f, U) \in Int /\ f[x] \in Int
    BY <2>1, SumType
  <2>7. SumFunctionOnSet(f, V \cup {x})
          = SumFunctionOnSet(f, S) + SumFunctionOnSet(f, U \cup {x})
    BY <1>0, <2>3, <2>4, <2>5, <2>6
  <2> QED
    BY <2>2, <2>7
<1>3. T \in F
  <2>1. F \in SUBSET SUBSET T /\ \A U \in F : \A x \in T \ U : U \cup {x} \in F
    BY <1>2
  <2> HIDE DEF F
  <2> QED
    BY <1>1, <2>1, SetInduction
<1> QED
  BY <1>3

\* A larger set has a larger sum, when nothing is negative.
LEMMA SumSubset ==
  ASSUME NEW D, NEW f \in [D -> Nat], NEW S \in SUBSET D, IsFiniteSet(S), NEW T \in SUBSET S
  PROVE  SumFunctionOnSet(f, T) <= SumFunctionOnSet(f, S)
<1>1. f \in [D -> Int]
  OBVIOUS
<1>2. IsFiniteSet(T) /\ IsFiniteSet(S \ T) /\ T \cup (S \ T) = S /\ T \cap (S \ T) = {}
  BY FS_Subset
<1>3. SumFunctionOnSet(f, S) = SumFunctionOnSet(f, T) + SumFunctionOnSet(f, S \ T)
  <2>1. SumFunctionOnSet(f, T \cup (S \ T)) = SumFunctionOnSet(f, T) + SumFunctionOnSet(f, S \ T)
    BY <1>1, <1>2, SumUnion
  <2> QED
    BY <1>2, <2>1
<1>4. SumFunctionOnSet(f, T) \in Nat /\ SumFunctionOnSet(f, S \ T) \in Nat
  BY <1>2, SumNat
<1> QED
  BY <1>3, <1>4

\* A factor may be taken out.
LEMMA SumScale ==
  ASSUME NEW D, NEW f \in [D -> Int], NEW E, NEW g \in [E -> Int], NEW k \in Int,
         NEW S \in SUBSET (D \cap E), IsFiniteSet(S), \A x \in S : g[x] = k * f[x]
  PROVE  SumFunctionOnSet(g, S) = k * SumFunctionOnSet(f, S)
<1> DEFINE F == {T \in SUBSET S : SumFunctionOnSet(g, T) = k * SumFunctionOnSet(f, T)}
<1>1. {} \in F
  BY SumEmpty
<1>2. ASSUME NEW T \in F, NEW x \in S \ T PROVE T \cup {x} \in F
  <2>1. /\ SumFunctionOnSet(f, T \cup {x}) = f[x] + SumFunctionOnSet(f, T)
        /\ SumFunctionOnSet(g, T \cup {x}) = g[x] + SumFunctionOnSet(g, T)
    BY SumAdd, FS_Subset
  <2>2. SumFunctionOnSet(f, T) \in Int /\ f[x] \in Int
    BY SumType, FS_Subset
  <2>3. k * f[x] + k * SumFunctionOnSet(f, T) = k * (f[x] + SumFunctionOnSet(f, T))
    BY <2>2, SMT
  <2>4. SumFunctionOnSet(g, T) = k * SumFunctionOnSet(f, T) /\ g[x] = k * f[x]
    OBVIOUS
  <2>5. SumFunctionOnSet(g, T \cup {x}) = k * SumFunctionOnSet(f, T \cup {x})
    BY <2>1, <2>3, <2>4
  <2> QED
    BY <2>5
<1>3. S \in F
  <2>1. F \in SUBSET SUBSET S /\ \A T \in F : \A x \in S \ T : T \cup {x} \in F
    BY <1>2
  <2> HIDE DEF F
  <2> QED
    BY <1>1, <2>1, SetInduction
<1> QED
  BY <1>3

\* Sums add up.
LEMMA SumPlus ==
  ASSUME NEW D, NEW f \in [D -> Int], NEW g \in [D -> Int],
         NEW k \in [D -> Int], \A x \in D : k[x] = f[x] + g[x],
         NEW S \in SUBSET D, IsFiniteSet(S)
  PROVE  SumFunctionOnSet(k, S) = SumFunctionOnSet(f, S) + SumFunctionOnSet(g, S)
<1> DEFINE F == {T \in SUBSET S : SumFunctionOnSet(k, T)
                                    = SumFunctionOnSet(f, T) + SumFunctionOnSet(g, T)}
<1>1. {} \in F
  BY SumEmpty
<1>2. ASSUME NEW T \in F, NEW x \in S \ T PROVE T \cup {x} \in F
  <2>1. IsFiniteSet(T) /\ T \in SUBSET D /\ x \in D \ T
    BY FS_Subset
  <2>2. k[x] = f[x] + g[x] /\ f[x] \in Int /\ g[x] \in Int
    BY <2>1
  <2>3. SumFunctionOnSet(k, T) = SumFunctionOnSet(f, T) + SumFunctionOnSet(g, T)
    OBVIOUS
  <2>4. /\ SumFunctionOnSet(f, T \cup {x}) = f[x] + SumFunctionOnSet(f, T)
        /\ SumFunctionOnSet(g, T \cup {x}) = g[x] + SumFunctionOnSet(g, T)
        /\ SumFunctionOnSet(k, T \cup {x}) = k[x] + SumFunctionOnSet(k, T)
    BY <2>1, SumAdd
  <2>5. SumFunctionOnSet(f, T) \in Int /\ SumFunctionOnSet(g, T) \in Int
    BY <2>1, SumType
  <2>6. SumFunctionOnSet(k, T \cup {x})
          = SumFunctionOnSet(f, T \cup {x}) + SumFunctionOnSet(g, T \cup {x})
    BY <2>2, <2>3, <2>4, <2>5, SMT
  <2> QED
    BY <2>6
<1> HIDE DEF F
<1>3. S \in F
  <2>1. F \in SUBSET SUBSET S
    BY DEF F
  <2> QED
    BY <1>1, <1>2, <2>1, SetInduction
<1> QED
  BY <1>3 DEF F

\* Sums of a multiple, and of two functions, over all of their domain.
LEMMA SumOfMultiple ==
  ASSUME NEW D, IsFiniteSet(D), NEW f \in [D -> Int], NEW g \in [D -> Int], NEW k \in Int,
         \A x \in D : g[x] = k * f[x]
  PROVE  SumFunctionOnSet(g, D) = k * SumFunctionOnSet(f, D)
<1>1. D \in SUBSET (D \cap D)
  OBVIOUS
<1> QED
  BY <1>1, SumScale

LEMMA SumOfTwo ==
  ASSUME NEW D, IsFiniteSet(D), NEW f \in [D -> Int], NEW g \in [D -> Int],
         NEW k \in [D -> Int], \A x \in D : k[x] = f[x] + g[x]
  PROVE  SumFunctionOnSet(k, D) = SumFunctionOnSet(f, D) + SumFunctionOnSet(g, D)
<1>1. D \in SUBSET D
  OBVIOUS
<1> QED
  BY <1>1, SumPlus

\* The sum of a linear combination of three functions.
LEMMA SumLinear ==
  ASSUME NEW D, IsFiniteSet(D),
         NEW f \in [D -> Int], NEW g \in [D -> Int], NEW h \in [D -> Int],
         NEW a \in Int, NEW b \in Int, NEW c \in Int,
         NEW k \in [D -> Int], \A x \in D : k[x] = a * f[x] + b * g[x] + c * h[x]
  PROVE  SumFunctionOnSet(k, D) = a * SumFunctionOnSet(f, D) + b * SumFunctionOnSet(g, D)
                                    + c * SumFunctionOnSet(h, D)
<1>0. (\A m, n \in Int : m * n \in Int) /\ (\A m, n \in Int : m + n \in Int)
  BY SMT
<1>1. PICK af \in [D -> Int] : af = [x \in D |-> a * f[x]]
  BY <1>0
<1>2. PICK bg \in [D -> Int] : bg = [x \in D |-> b * g[x]]
  BY <1>0
<1>3. PICK ch \in [D -> Int] : ch = [x \in D |-> c * h[x]]
  BY <1>0
<1>4. PICK fg \in [D -> Int] : fg = [x \in D |-> af[x] + bg[x]]
  BY <1>0
<1>5. SumFunctionOnSet(af, D) = a * SumFunctionOnSet(f, D)
  <2>1. \A x \in D : af[x] = a * f[x]
    BY <1>1
  <2> QED
    BY <2>1, SumOfMultiple
<1>6. SumFunctionOnSet(bg, D) = b * SumFunctionOnSet(g, D)
  <2>1. \A x \in D : bg[x] = b * g[x]
    BY <1>2
  <2> QED
    BY <2>1, SumOfMultiple
<1>7. SumFunctionOnSet(ch, D) = c * SumFunctionOnSet(h, D)
  <2>1. \A x \in D : ch[x] = c * h[x]
    BY <1>3
  <2> QED
    BY <2>1, SumOfMultiple
<1>8. SumFunctionOnSet(fg, D) = SumFunctionOnSet(af, D) + SumFunctionOnSet(bg, D)
  <2>1. \A x \in D : fg[x] = af[x] + bg[x]
    BY <1>4
  <2> QED
    BY <2>1, SumOfTwo
<1>9. SumFunctionOnSet(k, D) = SumFunctionOnSet(fg, D) + SumFunctionOnSet(ch, D)
  <2>1. \A x \in D : k[x] = fg[x] + ch[x]
    BY <1>1, <1>2, <1>3, <1>4
  <2> QED
    BY <2>1, SumOfTwo
<1> QED
  BY <1>5, <1>6, <1>7, <1>8, <1>9

\* A sum of zeros.
LEMMA SumZero ==
  ASSUME NEW D, NEW f \in [D -> Int], NEW S \in SUBSET D, IsFiniteSet(S), \A x \in S : f[x] = 0
  PROVE  SumFunctionOnSet(f, S) = 0
<1>1. S \in SUBSET (D \cap D) /\ 0 \in Int /\ \A x \in S : f[x] = 0 * f[x]
  OBVIOUS
<1>2. SumFunctionOnSet(f, S) = 0 * SumFunctionOnSet(f, S)
  BY <1>1, SumScale
<1>3. SumFunctionOnSet(f, S) \in Int
  BY SumType
<1> QED
  BY <1>2, <1>3

\* A sum of at most k each is at most k for each element.
LEMMA SumAtMost ==
  ASSUME NEW D, NEW f \in [D -> Int], NEW k \in Int,
         NEW S \in SUBSET D, IsFiniteSet(S), \A x \in S : f[x] <= k
  PROVE  SumFunctionOnSet(f, S) <= k * Cardinality(S)
<1> DEFINE F == {T \in SUBSET S : SumFunctionOnSet(f, T) <= k * Cardinality(T)}
<1>1. {} \in F
  BY SumEmpty, FS_EmptySet
<1>2. ASSUME NEW T \in F, NEW x \in S \ T PROVE T \cup {x} \in F
  <2>0. IsFiniteSet(T) /\ Cardinality(T) \in Nat
    BY FS_Subset, FS_CardinalityType
  <2>1. SumFunctionOnSet(f, T \cup {x}) = f[x] + SumFunctionOnSet(f, T)
    BY <2>0, SumAdd
  <2>2. SumFunctionOnSet(f, T) \in Int /\ f[x] \in Int /\ f[x] <= k
    BY <2>0, SumType
  <2>3. Cardinality(T \cup {x}) = Cardinality(T) + 1
    BY <2>0, FS_AddElement
  <2>4. k * (Cardinality(T) + 1) = k * Cardinality(T) + k
    BY <2>0, SMT
  <2>5. SumFunctionOnSet(f, T) <= k * Cardinality(T) /\ k * Cardinality(T) \in Int
    BY <2>0
  <2>6. SumFunctionOnSet(f, T \cup {x}) <= k * Cardinality(T \cup {x})
    BY <2>1, <2>2, <2>3, <2>4, <2>5
  <2> QED
    BY <2>6
<1>3. S \in F
  <2>1. F \in SUBSET SUBSET S /\ \A T \in F : \A x \in S \ T : T \cup {x} \in F
    BY <1>2
  <2> HIDE DEF F
  <2> QED
    BY <1>1, <2>1, SetInduction
<1> QED
  BY <1>3

\* A value is at most the sum it is part of.
LEMMA SumCovers ==
  ASSUME NEW D, NEW f \in [D -> Nat], NEW S \in SUBSET D, IsFiniteSet(S), NEW a \in S
  PROVE  f[a] <= SumFunctionOnSet(f, S)
<1>1. f \in [D -> Int]
  OBVIOUS
<1>2. SumFunctionOnSet(f, S) = f[a] + SumFunctionOnSet(f, S \ {a})
  BY <1>1, SumRemove
<1>3. SumFunctionOnSet(f, S \ {a}) \in Nat /\ f[a] \in Nat
  BY SumNat, FS_RemoveElement
<1> QED
  BY <1>2, <1>3

----------------------------------------------------------------------------
(***************************************************************************)
(* The same facts under names of their own: a goal that is such a name     *)
(* tells which sums, values and factors are meant.                         *)
(***************************************************************************)
IsMultiple(S, g, k, f) == SumFunctionOnSet(g, S) = k * SumFunctionOnSet(f, S)

LEMMA SumIsMultiple ==
  ASSUME NEW D, NEW f \in [D -> Int], NEW g \in [D -> Int], NEW k \in Int,
         NEW S \in SUBSET D, IsFiniteSet(S), \A x \in S : g[x] = k * f[x]
  PROVE  IsMultiple(S, g, k, f)
<1>1. S \in SUBSET (D \cap D)
  OBVIOUS
<1> QED
  BY <1>1, SumScale DEF IsMultiple

\* Two values are taken out.
SplitsAt(D, f, v, w) == SumFunctionOnSet(f, D) = f[v] + f[w] + SumFunctionOnSet(f, D \ {v, w})

LEMMA SumSplits ==
  ASSUME NEW D, IsFiniteSet(D), NEW f \in [D -> Int], NEW v \in D, NEW w \in D, v # w
  PROVE  SplitsAt(D, f, v, w)
<1>1. PICK S \in SUBSET D : S = D \ {v}
  OBVIOUS
<1>2. PICK U \in SUBSET D : U = S \ {w}
  BY <1>1
<1>3. IsFiniteSet(S) /\ IsFiniteSet(U) /\ w \in S /\ U = D \ {v, w}
  BY <1>1, <1>2, FS_Subset
<1>4. SumFunctionOnSet(f, D) = f[v] + SumFunctionOnSet(f, S)
  <2>1. D \in SUBSET D
    OBVIOUS
  <2> QED
    BY <1>1, <2>1, SumRemove
<1>5. SumFunctionOnSet(f, S) = f[w] + SumFunctionOnSet(f, U)
  BY <1>2, <1>3, SumRemove
<1>6. f[v] \in Int /\ f[w] \in Int /\ SumFunctionOnSet(f, U) \in Int
  BY <1>3, SumType
<1> QED
  BY <1>3, <1>4, <1>5, <1>6, SMT DEF SplitsAt

\* A sum of two values and zeros.
IsOfTwo(D, f, v, w) == SumFunctionOnSet(f, D) = f[v] + f[w]

LEMMA TwoValues ==
  ASSUME NEW D, IsFiniteSet(D), NEW f \in [D -> Int], NEW v \in D, NEW w \in D, v # w,
         \A x \in D \ {v, w} : f[x] = 0
  PROVE  IsOfTwo(D, f, v, w)
<1>1. SplitsAt(D, f, v, w)
  BY SumSplits
<1>2. PICK U \in SUBSET D : U = D \ {v, w}
  OBVIOUS
<1>3. SumFunctionOnSet(f, U) = 0
  <2>1. \A x \in U : f[x] = 0
    BY <1>2
  <2> QED
    BY <1>2, <2>1, FS_Subset, SumZero
<1>4. f[v] \in Int /\ f[w] \in Int
  OBVIOUS
<1> QED
  BY <1>1, <1>2, <1>3, <1>4, SMT DEF SplitsAt, IsOfTwo

\* What one value more or less does to a sum.
GrowsBy(D, f, g, k) == SumFunctionOnSet(g, D) = SumFunctionOnSet(f, D) + k

LEMMA SumGrowsBy ==
  ASSUME NEW D, IsFiniteSet(D), NEW f \in [D -> Int], NEW g \in [D -> Int], NEW a \in D,
         NEW k \in Int, g[a] = f[a] + k, \A x \in D \ {a} : g[x] = f[x]
  PROVE  GrowsBy(D, f, g, k)
<1>1. D \in SUBSET D
  OBVIOUS
<1>2. SumFunctionOnSet(g, D) = SumFunctionOnSet(f, D) + (IF a \in D THEN k ELSE 0)
  BY <1>1, SumGrows
<1> QED
  BY <1>2 DEF GrowsBy

LEMMA SumUnchanged ==
  ASSUME NEW D, IsFiniteSet(D), NEW f \in [D -> Int], NEW g \in [D -> Int],
         \A x \in D : g[x] = f[x]
  PROVE  GrowsBy(D, f, g, 0)
<1>1. D \in SUBSET D /\ D \in SUBSET (D \cap D)
  OBVIOUS
<1>2. SumFunctionOnSet(f, D) = SumFunctionOnSet(g, D)
  BY <1>1, SumSame
<1>3. SumFunctionOnSet(f, D) \in Int
  BY <1>1, SumType
<1> QED
  BY <1>2, <1>3, SMT DEF GrowsBy

----------------------------------------------------------------------------
(***************************************************************************)
(* Products.                                                               *)
(***************************************************************************)
LEMMA ProductNat == \A m, n \in Nat : m * n \in Nat
  BY SMT

LEMMA ProductInt == \A m, n \in Int : m * n \in Int
  BY SMT

LEMMA SquareNat == \A x \in Int : x * x \in Nat
<1> SUFFICES ASSUME NEW x \in Int PROVE x * x \in Nat
  OBVIOUS
<1>1. CASE x \in Nat
  BY <1>1, ProductNat
<1>2. CASE x \notin Nat
  <2>1. 0 - x \in Nat /\ (0 - x) * (0 - x) = x * x
    BY <1>2, SMT
  <2>2. (0 - x) * (0 - x) \in Nat
    BY <2>1, ProductNat
  <2> QED
    BY <2>1, <2>2
<1> QED
  BY <1>1, <1>2

LEMMA ProductGrows == \A x, y \in Int : \A p \in Nat : x >= y => p * x >= p * y
<1> SUFFICES ASSUME NEW x \in Int, NEW y \in Int, NEW p \in Nat, x >= y PROVE p * x >= p * y
  OBVIOUS
<1>1. x - y \in Nat
  BY SMT
<1>2. p * (x - y) \in Nat
  BY <1>1, ProductNat
<1>3. p * x = p * y + p * (x - y) /\ p * y \in Int
  BY SMT
<1> QED
  BY <1>2, <1>3, SMT

LEMMA FactorCancels == \A x, y \in Int : \A p \in Nat \ {0} : p * x <= p * y => x <= y
<1> SUFFICES ASSUME NEW x \in Int, NEW y \in Int, NEW p \in Nat \ {0}, x > y
             PROVE  p * x > p * y
  BY ProductInt, SMT
<1>1. p * x >= p * (y + 1)
  <2>1. x >= y + 1 /\ y + 1 \in Int
    BY SMT
  <2> QED
    BY <2>1, ProductGrows
<1>2. p * (y + 1) = p * y + p /\ p > 0 /\ p * y \in Int /\ p * x \in Int
  BY SMT
<1> QED
  BY <1>1, <1>2, SMT
=============================================================================
