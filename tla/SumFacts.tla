------------------------------- MODULE SumFacts -------------------------------
(***************************************************************************)
(* What the proofs about the other modules need of finite sets: induction  *)
(* over them and over numbers, sums of functions (SumFunction of module    *)
(* Functions), which the wallet and the courses are written with, and      *)
(* ranks.                                                                  *)
(***************************************************************************)
EXTENDS Integers, FiniteSets, Functions, FiniteSetTheorems, WellFoundedInduction, TLAPS

\* Induction over the subsets of a finite set, with a set in the place of a predicate.
LEMMA SubsetInduction ==
  ASSUME NEW S, IsFiniteSet(S), NEW Good,
         \A T \in SUBSET S : (\A x \in T : T \ {x} \in Good) => T \in Good
  PROVE  S \in Good
<1> SUFFICES ASSUME S \notin Good PROVE FALSE
  OBVIOUS
<1> DEFINE R == OpToRel(<, Nat)
<1> DEFINE Bad == {T \in SUBSET S : T \notin Good}
<1> DEFINE D == {Cardinality(T) : T \in Bad}
<1>1. \A T \in SUBSET S : IsFiniteSet(T) /\ Cardinality(T) \in Nat
  BY FS_Subset, FS_CardinalityType
<1>2. D \subseteq Nat /\ D # {}
  <2>1. Cardinality(S) \in D
    OBVIOUS
  <2> QED
    BY <1>1, <2>1
<1>3. PICK d \in D : \A e \in D : ~ (<<e, d>> \in R)
  BY <1>2, NatLessThanWellFounded, WFMin
<1>4. \A e, n \in Nat : e < n => <<e, n>> \in R
  BY DEF OpToRel
<1> HIDE DEF R
<1>5. PICK T \in Bad : d = Cardinality(T)
  OBVIOUS
<1>6. PICK x \in T : T \ {x} \notin Good
  BY <1>5
<1>7. Cardinality(T \ {x}) = Cardinality(T) - 1
  BY <1>1, <1>5, <1>6, FS_RemoveElement
<1>8. Cardinality(T \ {x}) \in D
  BY <1>5, <1>6
<1>9. d \in Nat /\ Cardinality(T \ {x}) \in Nat /\ Cardinality(T \ {x}) < d
  BY <1>1, <1>5, <1>7
<1>10. <<Cardinality(T \ {x}), d>> \in R
  BY <1>4, <1>9
<1> QED
  BY <1>3, <1>8, <1>10

\* Induction over the first numbers, with a set in the place of a predicate.
LEMMA NumberInduction ==
  ASSUME NEW n \in Nat, NEW Good, 0 \in Good, \A i \in 1..n : i - 1 \in Good => i \in Good
  PROVE  \A i \in 0..n : i \in Good
<1> SUFFICES ASSUME NEW bad \in 0..n, bad \notin Good PROVE FALSE
  OBVIOUS
<1> DEFINE R == OpToRel(<, Nat)
<1> DEFINE D == {i \in 0..n : i \notin Good}
<1>1. D \subseteq Nat /\ D # {}
  OBVIOUS
<1>2. PICK d \in D : \A e \in D : ~ (<<e, d>> \in R)
  BY <1>1, NatLessThanWellFounded, WFMin
<1>3. \A e, i \in Nat : e < i => <<e, i>> \in R
  BY DEF OpToRel
<1> HIDE DEF R
<1>4. d \in 1..n
  OBVIOUS
<1>5. d - 1 \in D /\ d - 1 \in Nat /\ d \in Nat /\ d - 1 < d
  BY <1>4
<1> QED
  BY <1>2, <1>3, <1>5

\* A finite set has an element with the greatest number.
LEMMA GreatestExists ==
  ASSUME NEW S, IsFiniteSet(S), S # {}, NEW k, \A x \in S : k[x] \in Nat
  PROVE  \E z \in S : \A x \in S : k[x] <= k[z]
<1> DEFINE Good == {T \in SUBSET S : T = {} \/ \E z \in T : \A x \in T : k[x] <= k[z]}
<1>1. ASSUME NEW T \in SUBSET S, \A x \in T : T \ {x} \in Good PROVE T \in Good
  <2>1. CASE T = {}
    BY <2>1
  <2>2. CASE T # {}
    <3>1. PICK y \in T : T \ {y} \in Good
      BY <1>1, <2>2
    <3>2. CASE T \ {y} = {}
      <4>1. \A x \in T : k[x] <= k[y]
        BY <3>1, <3>2
      <4> QED
        BY <4>1
    <3>3. CASE T \ {y} # {}
      <4>1. PICK z \in T \ {y} : \A x \in T \ {y} : k[x] <= k[z]
        BY <3>1, <3>3
      <4>2. k[y] \in Nat /\ k[z] \in Nat /\ \A x \in T : k[x] \in Nat
        OBVIOUS
      <4>3. CASE k[y] <= k[z]
        <5>1. z \in T /\ \A x \in T : k[x] <= k[z]
          BY <4>1, <4>3
        <5> QED
          BY <5>1
      <4>4. CASE k[z] < k[y]
        <5>1. \A x \in T : k[x] <= k[y]
          BY <4>1, <4>2, <4>4
        <5> QED
          BY <5>1
      <4> QED
        BY <4>2, <4>3, <4>4
    <3> QED
      BY <3>2, <3>3
  <2> QED
    BY <2>1, <2>2
<1> HIDE DEF Good
<1>2. S \in Good
  BY <1>1, SubsetInduction
<1> QED
  BY <1>2 DEF Good

-----------------------------------------------------------------------------
(***************************************************************************)
(* The recursion behind SumFunctionOnSet has a solution, and only one.     *)
(***************************************************************************)
FirstOf(s) == CHOOSE x \in s : TRUE
FoldTerm(f, g, s) == IF s = {} THEN 0 ELSE f[FirstOf(s)] + g[s \ {FirstOf(s)}]
FoldStep(f, S, g) ==
  [s \in SUBSET S |-> IF s = {} THEN 0 ELSE f[FirstOf(s)] + g[s \ {FirstOf(s)}]]
Folding(f, S) == CHOOSE g : g = FoldStep(f, S, g)

\* The sum is what the recursion gives for the whole set.
LEMMA SumIsFolding ==
  ASSUME NEW f, NEW S
  PROVE  SumFunctionOnSet(f, S) = Folding(f, S)[S]
BY DEF SumFunctionOnSet, FoldFunctionOnSet, MapThenFoldSet, Folding, FoldStep, FirstOf

\* The element that is summed first is one of the set.
LEMMA FirstOfIsMember == ASSUME NEW s, s # {} PROVE FirstOf(s) \in s
BY DEF FirstOf

\* A solution for the subsets of every T: that for T is put together from those of T \ {x}.
LEMMA FoldingExists ==
  ASSUME NEW f, NEW S, IsFiniteSet(S)
  PROVE  \E g : g = FoldStep(f, S, g)
<1> DEFINE Small(n) == {s \in SUBSET S : Cardinality(s) <= n}
<1> DEFINE Solves(n, g) == g = [s \in Small(n) |-> FoldTerm(f, g, s)]
<1> DEFINE Good == {n \in Nat : \E g : Solves(n, g)}
<1>1. \A s \in SUBSET S : IsFiniteSet(s) /\ Cardinality(s) \in Nat
  BY FS_Subset, FS_CardinalityType
<1>2. \A s \in SUBSET S : s # {} =>
        s \ {FirstOf(s)} \in SUBSET S /\ Cardinality(s \ {FirstOf(s)}) = Cardinality(s) - 1
  BY <1>1, FirstOfIsMember, FS_RemoveElement
<1>3. \A s \in SUBSET S : Cardinality(s) = 0 <=> s = {}
  BY <1>1, FS_EmptySet
<1>4. 0 \in Good
  <2> DEFINE g == [s \in Small(0) |-> 0]
  <2>1. \A s \in Small(0) : s = {}
    BY <1>1, <1>3
  <2>2. \A s \in Small(0) : FoldTerm(f, g, s) = 0
    BY <2>1 DEF FoldTerm
  <2>3. g = [s \in Small(0) |-> FoldTerm(f, g, s)]
    BY <2>2
  <2> QED
    BY <2>3
<1>5. ASSUME NEW n \in Good PROVE n + 1 \in Good
  <2>1. PICK g : Solves(n, g)
    OBVIOUS
  <2> DEFINE h == [s \in Small(n + 1) |-> FoldTerm(f, g, s)]
  <2>2. \A s \in Small(n + 1) : s # {} => s \ {FirstOf(s)} \in Small(n)
    BY <1>1, <1>2
  <2>3. \A s \in Small(n) : s \in Small(n + 1) /\ g[s] = FoldTerm(f, g, s)
    <3>1. \A s \in Small(n) : s \in Small(n + 1)
      BY <1>1
    <3> QED
      BY <2>1, <3>1
  <2>4. \A s \in Small(n) : h[s] = g[s]
    BY <2>3
  <2> HIDE DEF Small, Solves
  <2> HIDE DEF h
  <2>5. ASSUME NEW s \in Small(n + 1) PROVE FoldTerm(f, h, s) = FoldTerm(f, g, s)
    <3>1. CASE s = {}
      BY <3>1 DEF FoldTerm
    <3>2. CASE s # {}
      <4>1. h[s \ {FirstOf(s)}] = g[s \ {FirstOf(s)}]
        BY <2>2, <2>4, <3>2
      <4> QED
        BY <3>2, <4>1 DEF FoldTerm
    <3> QED
      BY <3>1, <3>2
  <2>6. h = [s \in Small(n + 1) |-> FoldTerm(f, h, s)]
    BY <2>5 DEF h
  <2>7. Solves(n + 1, h)
    BY <2>6 DEF Solves
  <2> QED
    BY <2>7
<1> HIDE DEF Small, Solves
<1>6. Cardinality(S) \in Good
  <2> SUFFICES ASSUME Cardinality(S) \notin Good PROVE FALSE
    OBVIOUS
  <2> DEFINE R == OpToRel(<, Nat)
  <2> DEFINE Bad == {n \in Nat : n \notin Good}
  <2>1. Cardinality(S) \in Nat /\ Bad # {} /\ Bad \subseteq Nat
    BY <1>1
  <2>2. PICK d \in Bad : \A e \in Bad : ~ (<<e, d>> \in R)
    BY <2>1, NatLessThanWellFounded, WFMin
  <2>3. \A e, n \in Nat : e < n => <<e, n>> \in R
    BY DEF OpToRel
  <2> HIDE DEF R, Good
  <2>4. d # 0 /\ d \in Nat /\ d - 1 \in Nat
    BY <1>4
  <2>5. d - 1 \in Good
    <3>1. <<d - 1, d>> \in R
      BY <2>3, <2>4
    <3> QED
      BY <2>2, <2>4, <3>1
  <2>6. d - 1 + 1 \in Good
    BY <2>5, <1>5
  <2> QED
    BY <2>4, <2>6
<1>7. PICK g : Solves(Cardinality(S), g)
  BY <1>6
<1>8. Small(Cardinality(S)) = SUBSET S
  BY FS_Subset DEF Small
<1>9. g = FoldStep(f, S, g)
  BY <1>7, <1>8 DEF Solves, FoldStep, FoldTerm
<1> QED
  BY <1>9

\* So what CHOOSE picks is a solution.
LEMMA FoldingSolves ==
  ASSUME NEW f, NEW S, IsFiniteSet(S)
  PROVE  Folding(f, S) = FoldStep(f, S, Folding(f, S))
BY FoldingExists DEF Folding

\* Its value for a subset.
LEMMA FoldingValue ==
  ASSUME NEW f, NEW S, IsFiniteSet(S), NEW T \in SUBSET S
  PROVE  /\ T = {} => Folding(f, S)[T] = 0
         /\ T # {} => Folding(f, S)[T] = f[FirstOf(T)] + Folding(f, S)[T \ {FirstOf(T)}]
<1>1. Folding(f, S) = FoldStep(f, S, Folding(f, S))
  BY FoldingSolves
<1> DEFINE g == Folding(f, S)
<1> HIDE DEF g
<1>2. g = FoldStep(f, S, g)
  BY <1>1 DEF g
<1>3. g[T] = IF T = {} THEN 0 ELSE f[FirstOf(T)] + g[T \ {FirstOf(T)}]
  BY <1>2 DEF FoldStep
<1>4. /\ T = {} => g[T] = 0
      /\ T # {} => g[T] = f[FirstOf(T)] + g[T \ {FirstOf(T)}]
  BY <1>3
<1> QED
  BY <1>4 DEF g

\* Its value for a subset that is not empty.
LEMMA FoldingSplits ==
  ASSUME NEW f, NEW S, IsFiniteSet(S), NEW T \in SUBSET S, T # {}
  PROVE  Folding(f, S)[T] = f[FirstOf(T)] + Folding(f, S)[T \ {FirstOf(T)}]
BY FoldingValue

\* What is folded is only looked at where it is summed.
LEMMA FoldingAgrees ==
  ASSUME NEW f, NEW S, IsFiniteSet(S), NEW g, NEW U, IsFiniteSet(U),
         NEW T \in (SUBSET S) \cap (SUBSET U), \A x \in T : f[x] = g[x]
  PROVE  Folding(f, S)[T] = Folding(g, U)[T]
<1> DEFINE Good == {V \in SUBSET T : Folding(f, S)[V] = Folding(g, U)[V]}
<1>1. IsFiniteSet(T)
  BY FS_Subset
<1>2. ASSUME NEW V \in SUBSET T, \A x \in V : V \ {x} \in Good PROVE V \in Good
  <2> V \in SUBSET S /\ V \in SUBSET U
    OBVIOUS
  <2>1. CASE V = {}
    <3>1. Folding(f, S)[V] = 0
      BY <2>1, FoldingValue
    <3>2. Folding(g, U)[V] = 0
      BY <2>1, FoldingValue
    <3> QED
      BY <3>1, <3>2
  <2>2. CASE V # {}
    <3>1. FirstOf(V) \in V
      BY <2>2, FirstOfIsMember
    <3>2. Folding(f, S)[V \ {FirstOf(V)}] = Folding(g, U)[V \ {FirstOf(V)}]
      BY <1>2, <3>1
    <3>3. Folding(f, S)[V] = f[FirstOf(V)] + Folding(f, S)[V \ {FirstOf(V)}]
      BY <2>2, FoldingSplits
    <3>4. Folding(g, U)[V] = g[FirstOf(V)] + Folding(g, U)[V \ {FirstOf(V)}]
      BY <2>2, FoldingSplits
    <3>5. f[FirstOf(V)] = g[FirstOf(V)]
      BY <3>1
    <3> QED
      BY <3>2, <3>3, <3>4, <3>5
  <2> QED
    BY <2>1, <2>2
<1>3. T \in Good
  <2> HIDE DEF Good
  <2> QED
    BY <1>1, <1>2, SubsetInduction
<1> QED
  BY <1>3

-----------------------------------------------------------------------------
(***************************************************************************)
(* What a sum is.                                                          *)
(***************************************************************************)
LEMMA SumOfNothing == ASSUME NEW f PROVE SumFunctionOnSet(f, {}) = 0
<1>1. IsFiniteSet({}) /\ {} \in SUBSET {}
  BY FS_EmptySet
<1>2. Folding(f, {})[{}] = 0
  BY <1>1, FoldingValue
<1> QED
  BY <1>2, SumIsFolding

\* Functions that agree on a set have the same sum over it.
LEMMA SumAgrees ==
  ASSUME NEW f, NEW g, NEW S, IsFiniteSet(S), \A x \in S : f[x] = g[x]
  PROVE  SumFunctionOnSet(f, S) = SumFunctionOnSet(g, S)
<1>1. Folding(f, S)[S] = Folding(g, S)[S]
  BY FoldingAgrees
<1> QED
  BY <1>1, SumIsFolding

\* The recursion of the sum.
LEMMA SumSplitsFirst ==
  ASSUME NEW f, NEW S, IsFiniteSet(S), S # {}
  PROVE  SumFunctionOnSet(f, S) = f[FirstOf(S)] + SumFunctionOnSet(f, S \ {FirstOf(S)})
<1> DEFINE T == S \ {FirstOf(S)}
<1>1. IsFiniteSet(T)
  BY FS_RemoveElement
<1>2. T \in (SUBSET S) \cap (SUBSET T)
  OBVIOUS
<1> HIDE DEF T
<1>3. Folding(f, S)[T] = Folding(f, T)[T]
  BY <1>1, <1>2, FoldingAgrees
<1>4. Folding(f, S)[S] = f[FirstOf(S)] + Folding(f, S)[T]
  BY FoldingValue DEF T
<1>5. SumFunctionOnSet(f, S) = f[FirstOf(S)] + SumFunctionOnSet(f, T)
  BY <1>3, <1>4, SumIsFolding
<1> QED
  BY <1>5 DEF T

\* Sums of integers are integers.
LEMMA SumIsInteger ==
  ASSUME NEW f, NEW S, IsFiniteSet(S), \A x \in S : f[x] \in Int
  PROVE  SumFunctionOnSet(f, S) \in Int
<1> DEFINE Good == {T \in SUBSET S : SumFunctionOnSet(f, T) \in Int}
<1>1. ASSUME NEW T \in SUBSET S, \A x \in T : T \ {x} \in Good PROVE T \in Good
  <2>1. IsFiniteSet(T)
    BY FS_Subset
  <2>2. CASE T = {}
    BY <2>2, SumOfNothing
  <2>3. CASE T # {}
    <3>1. FirstOf(T) \in T
      BY <2>3, FirstOfIsMember
    <3>2. SumFunctionOnSet(f, T \ {FirstOf(T)}) \in Int
      BY <1>1, <3>1
    <3>3. SumFunctionOnSet(f, T) = f[FirstOf(T)] + SumFunctionOnSet(f, T \ {FirstOf(T)})
      BY <2>1, <2>3, SumSplitsFirst
    <3>4. f[FirstOf(T)] \in Int
      BY <3>1
    <3>5. SumFunctionOnSet(f, T) \in Int
      BY <3>2, <3>3, <3>4
    <3> QED
      BY <3>5
  <2> QED
    BY <2>2, <2>3
<1>2. S \in Good
  <2> HIDE DEF Good
  <2> QED
    BY <1>1, SubsetInduction
<1> QED
  BY <1>2

\* Any element may be taken out first.
LEMMA SumSplits ==
  ASSUME NEW f, NEW S, IsFiniteSet(S), \A x \in S : f[x] \in Int, NEW z \in S
  PROVE  SumFunctionOnSet(f, S) = f[z] + SumFunctionOnSet(f, S \ {z})
<1> DEFINE Good == {T \in SUBSET S : \A x \in T :
                      SumFunctionOnSet(f, T) = f[x] + SumFunctionOnSet(f, T \ {x})}
<1>1. ASSUME NEW T \in SUBSET S, \A x \in T : T \ {x} \in Good PROVE T \in Good
  <2> SUFFICES ASSUME NEW x \in T
               PROVE  SumFunctionOnSet(f, T) = f[x] + SumFunctionOnSet(f, T \ {x})
    OBVIOUS
  <2> DEFINE y == FirstOf(T)
  <2>1. IsFiniteSet(T) /\ IsFiniteSet(T \ {x}) /\ IsFiniteSet(T \ {y})
    BY FS_Subset, FS_RemoveElement
  <2>2. y \in T
    BY FirstOfIsMember
  <2>3. SumFunctionOnSet(f, T) = f[y] + SumFunctionOnSet(f, T \ {y})
    BY <2>1, SumSplitsFirst
  <2> HIDE DEF y
  <2>4. CASE x = y
    BY <2>3, <2>4
  <2>5. CASE x # y
    <3> DEFINE U == (T \ {x}) \ {y}
    <3>1. (T \ {y}) \ {x} = U
      OBVIOUS
    <3>2. T \ {x} \in Good /\ T \ {y} \in Good
      BY <1>1, <2>2
    <3>3. SumFunctionOnSet(f, T \ {x}) = f[y] + SumFunctionOnSet(f, U)
      BY <3>2, <2>2, <2>5
    <3>4. SumFunctionOnSet(f, T \ {y}) = f[x] + SumFunctionOnSet(f, U)
      BY <3>1, <3>2, <2>5
    <3>5. SumFunctionOnSet(f, U) \in Int
      <4>1. IsFiniteSet(U) /\ \A u \in U : f[u] \in Int
        BY <2>1, FS_RemoveElement
      <4> QED
        BY <4>1, SumIsInteger
    <3>6. f[x] \in Int /\ f[y] \in Int
      BY <2>2
    <3> HIDE DEF U
    <3> QED
      BY <2>3, <3>3, <3>4, <3>5, <3>6
  <2> QED
    BY <2>4, <2>5
<1>2. S \in Good
  <2> HIDE DEF Good
  <2> QED
    BY <1>1, SubsetInduction
<1> QED
  BY <1>2

\* When one value changes, the sum changes by as much.
LEMMA SumOfOneChanged ==
  ASSUME NEW f, NEW g, NEW S, IsFiniteSet(S), NEW z \in S,
         \A x \in S : f[x] \in Int /\ g[x] \in Int,
         \A x \in S \ {z} : f[x] = g[x]
  PROVE  SumFunctionOnSet(g, S) = SumFunctionOnSet(f, S) - f[z] + g[z]
<1> DEFINE T == S \ {z}
<1>1. IsFiniteSet(T) /\ \A x \in T : f[x] \in Int /\ f[x] = g[x]
  BY FS_RemoveElement
<1>2. SumFunctionOnSet(f, S) = f[z] + SumFunctionOnSet(f, T)
  BY SumSplits
<1>3. SumFunctionOnSet(g, S) = g[z] + SumFunctionOnSet(g, T)
  BY SumSplits
<1> HIDE DEF T
<1>4. SumFunctionOnSet(f, T) = SumFunctionOnSet(g, T)
  BY <1>1, SumAgrees
<1>5. SumFunctionOnSet(f, T) \in Int
  BY <1>1, SumIsInteger
<1>6. f[z] \in Int /\ g[z] \in Int
  OBVIOUS
<1> QED
  BY <1>2, <1>3, <1>4, <1>5, <1>6

\* Sums add up.
LEMMA SumAddsOnSet ==
  ASSUME NEW f, NEW g, NEW h, NEW S, IsFiniteSet(S),
         \A x \in S : f[x] \in Int /\ g[x] \in Int /\ h[x] = f[x] + g[x]
  PROVE  SumFunctionOnSet(h, S) = SumFunctionOnSet(f, S) + SumFunctionOnSet(g, S)
<1> DEFINE Good == {T \in SUBSET S :
                      SumFunctionOnSet(h, T) = SumFunctionOnSet(f, T) + SumFunctionOnSet(g, T)}
<1>1. ASSUME NEW T \in SUBSET S, \A x \in T : T \ {x} \in Good PROVE T \in Good
  <2>1. IsFiniteSet(T)
    BY FS_Subset
  <2>2. CASE T = {}
    BY <2>2, SumOfNothing
  <2>3. CASE T # {}
    <3> DEFINE y == FirstOf(T)
    <3> DEFINE U == T \ {y}
    <3>1. y \in T
      BY <2>3, FirstOfIsMember
    <3>2. U \in Good
      BY <1>1, <3>1
    <3>3. SumFunctionOnSet(f, T) = f[y] + SumFunctionOnSet(f, U)
      BY <2>1, <2>3, SumSplitsFirst
    <3>4. SumFunctionOnSet(g, T) = g[y] + SumFunctionOnSet(g, U)
      BY <2>1, <2>3, SumSplitsFirst
    <3>5. SumFunctionOnSet(h, T) = h[y] + SumFunctionOnSet(h, U)
      BY <2>1, <2>3, SumSplitsFirst
    <3>6. IsFiniteSet(U) /\ \A x \in U : f[x] \in Int /\ g[x] \in Int
      BY <2>1, FS_RemoveElement
    <3>7. SumFunctionOnSet(f, U) \in Int /\ SumFunctionOnSet(g, U) \in Int
      BY <3>6, SumIsInteger
    <3>8. SumFunctionOnSet(h, U) = SumFunctionOnSet(f, U) + SumFunctionOnSet(g, U)
      BY <3>2
    <3>9. f[y] \in Int /\ g[y] \in Int /\ h[y] = f[y] + g[y]
      BY <3>1
    <3>10. SumFunctionOnSet(h, T) = SumFunctionOnSet(f, T) + SumFunctionOnSet(g, T)
      BY <3>3, <3>4, <3>5, <3>7, <3>8, <3>9
    <3> QED
      BY <3>10
  <2> QED
    BY <2>2, <2>3
<1>2. S \in Good
  <2> HIDE DEF Good
  <2> QED
    BY <1>1, SubsetInduction
<1> QED
  BY <1>2

\* Where every term is larger, so is the sum.
LEMMA SumGrowsOnSet ==
  ASSUME NEW f, NEW g, NEW S, IsFiniteSet(S),
         \A x \in S : f[x] \in Int /\ g[x] \in Int /\ f[x] <= g[x]
  PROVE  SumFunctionOnSet(f, S) <= SumFunctionOnSet(g, S)
<1> DEFINE Good == {T \in SUBSET S : SumFunctionOnSet(f, T) <= SumFunctionOnSet(g, T)}
<1>1. ASSUME NEW T \in SUBSET S, \A x \in T : T \ {x} \in Good PROVE T \in Good
  <2>1. IsFiniteSet(T)
    BY FS_Subset
  <2>2. CASE T = {}
    <3>1. SumFunctionOnSet(f, T) = 0 /\ SumFunctionOnSet(g, T) = 0
      BY <2>2, SumOfNothing
    <3> QED
      BY <3>1
  <2>3. CASE T # {}
    <3> DEFINE y == FirstOf(T)
    <3> DEFINE U == T \ {y}
    <3>1. y \in T
      BY <2>3, FirstOfIsMember
    <3>2. U \in Good
      BY <1>1, <3>1
    <3>3. SumFunctionOnSet(f, T) = f[y] + SumFunctionOnSet(f, U)
      BY <2>1, <2>3, SumSplitsFirst
    <3>4. SumFunctionOnSet(g, T) = g[y] + SumFunctionOnSet(g, U)
      BY <2>1, <2>3, SumSplitsFirst
    <3>6. IsFiniteSet(U) /\ \A x \in U : f[x] \in Int /\ g[x] \in Int
      BY <2>1, FS_RemoveElement
    <3>7. SumFunctionOnSet(f, U) \in Int /\ SumFunctionOnSet(g, U) \in Int
      BY <3>6, SumIsInteger
    <3>8. SumFunctionOnSet(f, U) <= SumFunctionOnSet(g, U)
      BY <3>2
    <3>9. f[y] \in Int /\ g[y] \in Int /\ f[y] <= g[y]
      BY <3>1
    <3>10. SumFunctionOnSet(f, T) <= SumFunctionOnSet(g, T)
      BY <3>3, <3>4, <3>7, <3>8, <3>9
    <3> QED
      BY <3>10
  <2> QED
    BY <2>2, <2>3
<1>2. S \in Good
  <2> HIDE DEF Good
  <2> QED
    BY <1>1, SubsetInduction
<1> QED
  BY <1>2

\* The terms may be named otherwise: a sum over S is one over the names that c gives.
LEMMA SumRenamedOnSet ==
  ASSUME NEW f, NEW g, NEW c, NEW S, IsFiniteSet(S),
         \A x, y \in S : c[x] = c[y] => x = y,
         \A x \in S : f[x] \in Int /\ g[c[x]] = f[x]
  PROVE  SumFunctionOnSet(g, {c[x] : x \in S}) = SumFunctionOnSet(f, S)
<1> DEFINE Named(T) == {c[x] : x \in T}
<1> DEFINE Good == {T \in SUBSET S : /\ IsFiniteSet(Named(T))
                                     /\ SumFunctionOnSet(g, Named(T)) = SumFunctionOnSet(f, T)}
<1>1. ASSUME NEW T \in SUBSET S, \A x \in T : T \ {x} \in Good PROVE T \in Good
  <2>1. IsFiniteSet(T)
    BY FS_Subset
  <2>2. CASE T = {}
    <3>1. Named(T) = {}
      BY <2>2
    <3> QED
      BY <2>2, <3>1, SumOfNothing, FS_EmptySet
  <2>3. CASE T # {}
    <3> DEFINE y == FirstOf(T)
    <3> DEFINE U == T \ {y}
    <3>1. y \in T
      BY <2>3, FirstOfIsMember
    <3>2. U \in Good
      BY <1>1, <3>1
    <3>3. SumFunctionOnSet(f, T) = f[y] + SumFunctionOnSet(f, U)
      BY <2>1, <2>3, SumSplitsFirst
    <3> HIDE DEF y
    <3>4. Named(U) = Named(T) \ {c[y]}
      BY <3>1
    <3>5. Named(T) = Named(U) \cup {c[y]} /\ c[y] \in Named(T)
      BY <3>1
    <3>6. IsFiniteSet(Named(T))
      <4>1. IsFiniteSet(Named(U))
        BY <3>2
      <4> HIDE DEF Named, U
      <4>2. IsFiniteSet(Named(U) \cup {c[y]})
        BY <4>1, FS_AddElement
      <4> QED
        BY <3>5, <4>2
    <3>7. \A z \in Named(T) : g[z] \in Int
      OBVIOUS
    <3>8. SumFunctionOnSet(g, Named(T)) = g[c[y]] + SumFunctionOnSet(g, Named(T) \ {c[y]})
      <4> HIDE DEF Named
      <4> QED
        BY <3>5, <3>6, <3>7, SumSplits
    <3>9. SumFunctionOnSet(g, Named(U)) = SumFunctionOnSet(f, U)
      BY <3>2
    <3>10. SumFunctionOnSet(g, Named(T)) = SumFunctionOnSet(f, T)
      BY <3>1, <3>3, <3>4, <3>8, <3>9
    <3> QED
      BY <3>6, <3>10
  <2> QED
    BY <2>2, <2>3
<1>2. S \in Good
  <2> HIDE DEF Good
  <2> QED
    BY <1>1, SubsetInduction
<1> QED
  BY <1>2

\* Terms that are zero need not be summed.
LEMMA SumOfTheRest ==
  ASSUME NEW f, NEW S, IsFiniteSet(S), NEW Z \in SUBSET S,
         \A x \in S : f[x] \in Int, \A x \in Z : f[x] = 0
  PROVE  SumFunctionOnSet(f, S) = SumFunctionOnSet(f, S \ Z)
<1> DEFINE Good == {T \in SUBSET Z : SumFunctionOnSet(f, S) = SumFunctionOnSet(f, S \ T)}
<1>1. ASSUME NEW T \in SUBSET Z, \A x \in T : T \ {x} \in Good PROVE T \in Good
  <2>1. CASE T = {}
    <3>1. S \ T = S
      BY <2>1
    <3> QED
      BY <3>1
  <2>2. CASE T # {}
    <3>1. PICK x \in T : TRUE
      BY <2>2
    <3> DEFINE U == T \ {x}
    <3>2. SumFunctionOnSet(f, S) = SumFunctionOnSet(f, S \ U)
      BY <1>1
    <3>3. IsFiniteSet(S \ U) /\ \A y \in S \ U : f[y] \in Int
      BY FS_Difference
    <3>4. x \in S \ U /\ f[x] = 0 /\ (S \ U) \ {x} = S \ T
      OBVIOUS
    <3>5. SumFunctionOnSet(f, S \ U) = f[x] + SumFunctionOnSet(f, (S \ U) \ {x})
      <4> DEFINE V == S \ U
      <4>1. IsFiniteSet(V) /\ x \in V /\ \A y \in V : f[y] \in Int
        BY <3>3, <3>4
      <4> HIDE DEF V
      <4>2. SumFunctionOnSet(f, V) = f[x] + SumFunctionOnSet(f, V \ {x})
        BY <4>1, SumSplits
      <4> QED
        BY <4>2 DEF V
    <3>6. SumFunctionOnSet(f, S \ T) \in Int
      <4>1. IsFiniteSet(S \ T) /\ \A y \in S \ T : f[y] \in Int
        BY FS_Difference
      <4> QED
        BY <4>1, SumIsInteger
    <3>7. SumFunctionOnSet(f, S) = SumFunctionOnSet(f, S \ T)
      <4> DEFINE V == S \ U
      <4> DEFINE W == S \ T
      <4>1. V \ {x} = W /\ f[x] = 0
        BY <3>4
      <4>2. SumFunctionOnSet(f, S) = SumFunctionOnSet(f, V)
        BY <3>2
      <4>3. SumFunctionOnSet(f, V) = f[x] + SumFunctionOnSet(f, V \ {x})
        BY <3>5
      <4>4. SumFunctionOnSet(f, W) \in Int
        BY <3>6
      <4> HIDE DEF V, W
      <4>5. SumFunctionOnSet(f, V) = 0 + SumFunctionOnSet(f, W)
        BY <4>1, <4>3, Zenon
      <4>6. SumFunctionOnSet(f, S) = SumFunctionOnSet(f, W)
        BY <4>2, <4>4, <4>5
      <4> QED
        BY <4>6 DEF W
    <3> QED
      BY <3>7
  <2> QED
    BY <2>1, <2>2
<1>2. Z \in Good
  <2>1. IsFiniteSet(Z)
    BY FS_Subset
  <2> HIDE DEF Good
  <2> QED
    BY <1>1, <2>1, SubsetInduction
<1> QED
  BY <1>2

-----------------------------------------------------------------------------
(***************************************************************************)
(* The same of the sum of all values of a function.                        *)
(***************************************************************************)
LEMMA SumType ==
  ASSUME NEW S, IsFiniteSet(S), NEW f \in [S -> Int]
  PROVE  SumFunction(f) \in Int
BY SumIsInteger DEF SumFunction

\* Two functions that differ in one place.
LEMMA SumChanges ==
  ASSUME NEW S, IsFiniteSet(S), NEW f \in [S -> Int], NEW g \in [S -> Int], NEW z \in S,
         \A x \in S \ {z} : f[x] = g[x]
  PROVE  SumFunction(g) = SumFunction(f) - f[z] + g[z]
<1>1. SumFunctionOnSet(g, S) = SumFunctionOnSet(f, S) - f[z] + g[z]
  BY SumOfOneChanged
<1>2. SumFunction(g) = SumFunctionOnSet(g, S) /\ SumFunction(f) = SumFunctionOnSet(f, S)
  BY DEF SumFunction
<1> QED
  BY <1>1, <1>2

\* A function that is 0 everywhere.
LEMMA SumOfZeros ==
  ASSUME NEW S, IsFiniteSet(S), NEW f \in [S -> Int], \A x \in S : f[x] = 0
  PROVE  SumFunction(f) = 0
<1>1. S \ S = {}
  OBVIOUS
<1>2. SumFunctionOnSet(f, S) = SumFunctionOnSet(f, S \ S)
  BY SumOfTheRest
<1>3. SumFunctionOnSet(f, S) = SumFunctionOnSet(f, {})
  BY <1>1, <1>2, Zenon
<1> QED
  BY <1>3, SumOfNothing DEF SumFunction

\* The sum of a sum of functions.
LEMMA SumAdds ==
  ASSUME NEW S, IsFiniteSet(S), NEW f \in [S -> Int], NEW g \in [S -> Int],
         NEW h \in [S -> Int], \A x \in S : h[x] = f[x] + g[x]
  PROVE  SumFunction(h) = SumFunction(f) + SumFunction(g)
BY SumAddsOnSet DEF SumFunction

\* Greater values have a greater sum.
LEMMA SumGrows ==
  ASSUME NEW S, IsFiniteSet(S), NEW f \in [S -> Int], NEW g \in [S -> Int],
         \A x \in S : f[x] <= g[x]
  PROVE  SumFunction(f) <= SumFunction(g)
<1>1. SumFunctionOnSet(f, S) <= SumFunctionOnSet(g, S)
  BY SumGrowsOnSet
<1>2. SumFunction(g) = SumFunctionOnSet(g, S) /\ SumFunction(f) = SumFunctionOnSet(f, S)
  BY DEF SumFunction
<1> QED
  BY <1>1, <1>2

\* A sum of natural numbers is one, and at least each of them.
LEMMA SumCovers ==
  ASSUME NEW S, IsFiniteSet(S), NEW f \in [S -> Nat]
  PROVE  /\ SumFunction(f) \in Nat
         /\ \A x \in S : f[x] <= SumFunction(f)
<1>1. ASSUME NEW g \in [S -> Nat] PROVE SumFunction(g) \in Nat
  <2> DEFINE zero == [x \in S |-> 0]
  <2>1. zero \in [S -> Int] /\ g \in [S -> Int] /\ \A x \in S : zero[x] <= g[x] /\ zero[x] = 0
    OBVIOUS
  <2> HIDE DEF zero
  <2>2. SumFunction(zero) = 0 /\ SumFunction(zero) <= SumFunction(g) /\ SumFunction(g) \in Int
    BY <2>1, SumOfZeros, SumGrows, SumType
  <2> QED
    BY <2>2
<1>2. ASSUME NEW x \in S PROVE f[x] <= SumFunction(f)
  <2> DEFINE rest == [y \in S |-> IF y = x THEN 0 ELSE f[y]]
  <2>1. /\ rest \in [S -> Nat] /\ rest \in [S -> Int] /\ f \in [S -> Int] /\ rest[x] = 0
        /\ \A y \in S \ {x} : rest[y] = f[y]
    OBVIOUS
  <2> HIDE DEF rest
  <2>2. SumFunction(f) = SumFunction(rest) - rest[x] + f[x]
    BY <2>1, SumChanges
  <2>3. SumFunction(rest) \in Nat
    BY <1>1, <2>1
  <2>4. f[x] \in Nat
    OBVIOUS
  <2> QED
    BY <2>1, <2>2, <2>3, <2>4
<1> QED
  BY <1>1, <1>2

\* Values that are moved to other places, where all others are zero, have the same sum.
LEMMA SumMoves ==
  ASSUME NEW S, IsFiniteSet(S), NEW T, IsFiniteSet(T), NEW f \in [S -> Int],
         NEW g \in [T -> Int], NEW c \in [S -> T],
         \A x, y \in S : c[x] = c[y] => x = y,
         \A x \in S : g[c[x]] = f[x],
         \A y \in T : (\A x \in S : c[x] # y) => g[y] = 0
  PROVE  SumFunction(g) = SumFunction(f)
<1> DEFINE R == {c[x] : x \in S}
<1> DEFINE Z == T \ R
<1>1. SumFunctionOnSet(g, R) = SumFunctionOnSet(f, S)
  BY SumRenamedOnSet
<1>2. R \subseteq T /\ T \ Z = R /\ Z \in SUBSET T /\ \A y \in Z : g[y] = 0
  OBVIOUS
<1> HIDE DEF R, Z
<1>3. SumFunctionOnSet(g, T) = SumFunctionOnSet(g, T \ Z)
  BY <1>2, SumOfTheRest
<1>4. SumFunctionOnSet(g, T) = SumFunctionOnSet(f, S)
  BY <1>1, <1>2, <1>3, Zenon
<1> QED
  BY <1>4 DEF SumFunction

-----------------------------------------------------------------------------
(***************************************************************************)
(* The first n elements of a finite set of numbers, those with fewer than  *)
(* n elements below them, are n.                                           *)
(***************************************************************************)
Below(S, u) == {v \in S : v < u}

\* A rank is less than the number of elements.
LEMMA RankIsNumber ==
  ASSUME NEW S \in SUBSET Nat, IsFiniteSet(S), NEW u \in S
  PROVE  Cardinality(Below(S, u)) \in 0..(Cardinality(S) - 1)
<1>1. Below(S, u) \subseteq S /\ Below(S, u) # S /\ u \in Nat
  BY DEF Below
<1>2. /\ Cardinality(Below(S, u)) <= Cardinality(S) /\ IsFiniteSet(Below(S, u))
      /\ Cardinality(S) # Cardinality(Below(S, u))
  BY <1>1, FS_Subset
<1>3. Cardinality(S) \in Nat /\ Cardinality(Below(S, u)) \in Nat
  BY <1>2, FS_CardinalityType
<1> QED
  BY <1>2, <1>3

\* A greater element has a greater rank.
LEMMA RankGrows ==
  ASSUME NEW S \in SUBSET Nat, IsFiniteSet(S), NEW u \in S, NEW v \in S, u < v
  PROVE  Cardinality(Below(S, u)) < Cardinality(Below(S, v))
<1> u \in Nat /\ v \in Nat
  OBVIOUS
<1>1. /\ Below(S, u) \subseteq Below(S, v) /\ u \in Below(S, v) /\ u \notin Below(S, u)
      /\ Below(S, v) \subseteq S
  <2>1. ASSUME NEW w \in S, w < u PROVE w < v
    <3> w \in Nat
      OBVIOUS
    <3> QED
      BY <2>1
  <2>2. ~(u < u)
    OBVIOUS
  <2>3. Below(S, u) \subseteq Below(S, v)
    BY <2>1 DEF Below
  <2>4. u \in Below(S, v) /\ u \notin Below(S, u) /\ Below(S, v) \subseteq S
    BY <2>2, u < v, Zenon DEF Below
  <2> QED
    BY <2>3, <2>4
<1>2. IsFiniteSet(Below(S, v))
  BY <1>1, FS_Subset
<1>3. /\ Cardinality(Below(S, u)) <= Cardinality(Below(S, v)) /\ IsFiniteSet(Below(S, u))
      /\ Cardinality(Below(S, u)) # Cardinality(Below(S, v))
  BY <1>1, <1>2, FS_Subset
<1>4. Cardinality(Below(S, u)) \in Nat /\ Cardinality(Below(S, v)) \in Nat
  BY <1>2, <1>3, FS_CardinalityType
<1> QED
  BY <1>3, <1>4

\* There are n numbers below n.
LEMMA NumbersBelow ==
  ASSUME NEW n \in Nat
  PROVE  IsFiniteSet(0..(n - 1)) /\ Cardinality(0..(n - 1)) = n
<1>1. 0 \in Int /\ n - 1 \in Int
  OBVIOUS
<1>2. IsFiniteSet(0..(n - 1)) /\ Cardinality(0..(n - 1)) = IF 0 > n - 1 THEN 0 ELSE (n - 1) - 0 + 1
  BY <1>1, FS_Interval
<1> QED
  BY <1>2

\* Each number below the size of the set is the rank of one element.
LEMMA RankIsOnto ==
  ASSUME NEW S \in SUBSET Nat, IsFiniteSet(S)
  PROVE  /\ \A u, v \in S : Cardinality(Below(S, u)) = Cardinality(Below(S, v)) => u = v
         /\ \A i \in 0..(Cardinality(S) - 1) : \E u \in S : Cardinality(Below(S, u)) = i
<1> DEFINE m == Cardinality(S)
           rank == [u \in S |-> Cardinality(Below(S, u))]
<1>1. m \in Nat
  BY FS_CardinalityType
<1>2. IsFiniteSet(0..(m - 1)) /\ Cardinality(0..(m - 1)) = m
  BY <1>1, NumbersBelow
<1>3. rank \in [S -> 0..(m - 1)]
  BY RankIsNumber
<1>4. \A u, v \in S : rank[u] = rank[v] => u = v
  <2> SUFFICES ASSUME NEW u \in S, NEW v \in S, rank[u] = rank[v] PROVE u = v
    OBVIOUS
  <2>1. rank[u] \in Int /\ ~(rank[u] < rank[v]) /\ ~(rank[v] < rank[u])
    BY <1>1, <1>3
  <2>2. ~(u < v) /\ ~(v < u)
    BY <2>1, RankGrows
  <2> QED
    BY <2>2
<1>5. rank \in Injection(S, 0..(m - 1))
  BY <1>3, <1>4 DEF Injection, IsInjective
<1>6. rank \in Surjection(S, 0..(m - 1))
  BY <1>2, <1>5, FS_Injection
<1>7. \A i \in 0..(m - 1) : \E u \in S : rank[u] = i
  BY <1>6 DEF Surjection
<1> QED
  BY <1>4, <1>7

LEMMA FirstOnesCount ==
  ASSUME NEW S \in SUBSET Nat, IsFiniteSet(S), NEW n \in Nat, n <= Cardinality(S)
  PROVE  LET first == {u \in S : Cardinality(Below(S, u)) < n}
         IN IsFiniteSet(first) /\ Cardinality(first) = n
<1> DEFINE m == Cardinality(S)
           first == {u \in S : Cardinality(Below(S, u)) < n}
           part == [u \in first |-> Cardinality(Below(S, u))]
<1>1. m \in Nat
  BY FS_CardinalityType
<1>2. first \subseteq S /\ IsFiniteSet(first)
  BY FS_Subset
<1>3. IsFiniteSet(0..(n - 1)) /\ Cardinality(0..(n - 1)) = n
  BY NumbersBelow
<1>4. part \in [first -> 0..(n - 1)]
  <2> SUFFICES ASSUME NEW u \in first PROVE Cardinality(Below(S, u)) \in 0..(n - 1)
    OBVIOUS
  <2>1. Cardinality(Below(S, u)) \in 0..(m - 1) /\ Cardinality(Below(S, u)) < n
    BY RankIsNumber
  <2> QED
    BY <2>1, <1>1
<1>5. part \in Injection(first, 0..(n - 1))
  BY <1>2, <1>4, RankIsOnto DEF Injection, IsInjective
<1>6. \A i \in 0..(n - 1) : \E u \in first : part[u] = i
  <2> SUFFICES ASSUME NEW i \in 0..(n - 1) PROVE \E u \in first : part[u] = i
    OBVIOUS
  <2>1. i \in 0..(m - 1)
    BY <1>1
  <2>2. PICK u \in S : Cardinality(Below(S, u)) = i
    BY <2>1, RankIsOnto
  <2> QED
    BY <2>2
<1>7. part \in Surjection(first, 0..(n - 1))
  BY <1>4, <1>6 DEF Surjection
<1> QED
  BY <1>2, <1>3, <1>5, <1>7, FS_Injection
===============================================================================
