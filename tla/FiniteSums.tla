------------------------------ MODULE FiniteSums ------------------------------
(***************************************************************************)
(* Induction over the naturals and over the subsets of a finite set, and   *)
(* sums over finite sets: what the theorems about balances that add up     *)
(* need of FoldFunction.  The library's induction theorems take a          *)
(* predicate as a parameter; that there is no least counterexample (WFMin) *)
(* serves as well, for predicates that are sets.                           *)
(***************************************************************************)
EXTENDS Functions, FiniteSetTheorems, WellFoundedInduction, TLAPS

(* A set that holds 0, and n + 1 with every n, holds the naturals.         *)
LEMMA NatSetInduction ==
  ASSUME NEW S, 0 \in S, \A n \in Nat : n \in S => n + 1 \in S
  PROVE  \A n \in Nat : n \in S
<1> SUFFICES ASSUME Nat \ S # {} PROVE FALSE
  OBVIOUS
<1>1. PICK n \in Nat \ S : \A m \in Nat \ S : ~ (<<m, n>> \in OpToRel(<, Nat))
  BY NatLessThanWellFounded, WFMin
<1>2. n - 1 \in Nat \ S
  OBVIOUS
<1>3. <<n - 1, n>> \in OpToRel(<, Nat)
  BY <1>2 DEF OpToRel
<1> QED
  BY <1>1, <1>2, <1>3

(* FoldFunction(+, 0, f), taken apart: it folds over DOMAIN f by taking    *)
(* elements out of it, whichever CHOOSE gives; sums(f)[T] is the sum of f  *)
(* over a part T.                                                          *)
anyOf(T) == CHOOSE x \in T : TRUE
sumStep(f, g, T) == IF T = {} THEN 0 ELSE f[anyOf(T)] + g[T \ {anyOf(T)}]
sums(f) == CHOOSE g : g = [T \in SUBSET DOMAIN f |-> sumStep(f, g, T)]

LEMMA FoldIsSum ==
  ASSUME NEW f
  PROVE  FoldFunction(+, 0, f) = sums(f)[DOMAIN f]
BY DEF FoldFunction, FoldFunctionOnSet, MapThenFoldSet, sums, anyOf, sumStep

LEMMA AnyIsMember ==
  ASSUME NEW T, T # {}
  PROVE  anyOf(T) \in T
BY DEF anyOf

(* The subsets of S of up to n elements.                                   *)
upTo(S, n) == {T \in SUBSET S : Cardinality(T) <= n}

LEMMA SmallerSubset ==
  ASSUME NEW S, IsFiniteSet(S), NEW n \in Nat, NEW T \in upTo(S, n + 1), NEW x \in T
  PROVE  T \ {x} \in upTo(S, n)
<1>1. IsFiniteSet(T)
  BY FS_Subset DEF upTo
<1>2. Cardinality(T \ {x}) = Cardinality(T) - 1
  BY <1>1, FS_RemoveElement
<1> QED
  BY <1>1, <1>2, FS_CardinalityType DEF upTo

LEMMA SubsetsUpTo ==
  ASSUME NEW S, IsFiniteSet(S)
  PROVE  /\ \A T \in upTo(S, 0) : T = {}
         /\ \A n \in Nat : upTo(S, n) \subseteq upTo(S, n + 1)
         /\ upTo(S, Cardinality(S)) = SUBSET S
<1>1. \A T \in SUBSET S : IsFiniteSet(T) /\ Cardinality(T) \in Nat /\ Cardinality(T) <= Cardinality(S)
  BY FS_Subset, FS_CardinalityType
<1>2. \A T \in upTo(S, 0) : T = {}
  BY <1>1, FS_EmptySet DEF upTo
<1>3. \A n \in Nat : upTo(S, n) \subseteq upTo(S, n + 1)
  BY <1>1 DEF upTo
<1>4. upTo(S, Cardinality(S)) = SUBSET S
  BY <1>1 DEF upTo
<1> QED
  BY <1>2, <1>3, <1>4

LEMMA SumsAreDefined ==
  ASSUME NEW f, IsFiniteSet(DOMAIN f)
  PROVE  sums(f) = [T \in SUBSET DOMAIN f |-> sumStep(f, sums(f), T)]
<1> DEFINE S == DOMAIN f
           defined(n) == \E g : g = [T \in upTo(S, n) |-> sumStep(f, g, T)]
           N == {n \in Nat : defined(n)}
<1>1. 0 \in N
  <2> DEFINE g == [T \in upTo(S, 0) |-> 0]
  <2>1. \A T \in upTo(S, 0) : T = {}
    BY SubsetsUpTo
  <2>2. g = [T \in upTo(S, 0) |-> sumStep(f, g, T)]
    BY <2>1 DEF sumStep
  <2> QED
    BY <2>2
<1>2. ASSUME NEW n \in Nat, n \in N PROVE n + 1 \in N
  <2>1. PICK g : g = [T \in upTo(S, n) |-> sumStep(f, g, T)]
    BY <1>2
  <2> DEFINE h == [T \in upTo(S, n + 1) |-> sumStep(f, g, T)]
  <2>2. ASSUME NEW T \in upTo(S, n) PROVE T \in upTo(S, n + 1) /\ h[T] = g[T]
    <3>1. T \in upTo(S, n + 1)
      BY SubsetsUpTo
    <3>2. g[T] = sumStep(f, g, T)
      BY <2>1
    <3> QED
      BY <3>1, <3>2
  <2>3. ASSUME NEW T \in upTo(S, n + 1) PROVE sumStep(f, h, T) = sumStep(f, g, T)
    <3>1. CASE T = {}
      BY <3>1 DEF sumStep
    <3>2. CASE T # {}
      <4>1. h[T \ {anyOf(T)}] = g[T \ {anyOf(T)}]
        BY <2>2, <3>2, SmallerSubset, AnyIsMember
      <4> HIDE DEF h
      <4> QED
        BY <3>2, <4>1 DEF sumStep
    <3> QED
      BY <3>1, <3>2
  <2>4. h = [T \in upTo(S, n + 1) |-> sumStep(f, h, T)]
    BY <2>3
  <2>5. defined(n + 1)
    BY <2>4
  <2> QED
    BY <2>5
<1>3. Cardinality(S) \in N
  <2> HIDE DEF N
  <2> QED
    BY <1>1, <1>2, NatSetInduction, FS_CardinalityType
<1>4. upTo(S, Cardinality(S)) = SUBSET S
  BY SubsetsUpTo
<1>5. \E g : g = [T \in SUBSET S |-> sumStep(f, g, T)]
  BY <1>3, <1>4
<1> QED
  BY <1>5 DEF sums

(* The sum over T, one element at a time. *)
LEMMA SumOfEmpty ==
  ASSUME NEW f, IsFiniteSet(DOMAIN f)
  PROVE  sums(f)[{}] = 0
BY SumsAreDefined DEF sumStep

LEMMA SumOfAny ==
  ASSUME NEW f, IsFiniteSet(DOMAIN f), NEW T \in SUBSET DOMAIN f, T # {}
  PROVE  sums(f)[T] = f[anyOf(T)] + sums(f)[T \ {anyOf(T)}]
BY SumsAreDefined DEF sumStep

(* Induction over the subsets of a finite set. *)
LEMMA SubsetInduction ==
  ASSUME NEW S, IsFiniteSet(S), NEW C, {} \in C,
         \A T \in SUBSET S : T # {} /\ (\A x \in T : T \ {x} \in C) => T \in C
  PROVE  \A T \in SUBSET S : T \in C
<1> DEFINE N == {n \in Nat : upTo(S, n) \subseteq C}
<1>1. 0 \in N
  BY FS_Subset, FS_EmptySet, FS_CardinalityType DEF upTo
<1>2. ASSUME NEW n \in Nat, n \in N PROVE n + 1 \in N
  <2>1. ASSUME NEW T \in upTo(S, n + 1) PROVE T \in C
    <3>1. \A x \in T : T \ {x} \in C
      BY <1>2, SmallerSubset
    <3> QED
      BY <3>1 DEF upTo
  <2> QED
    BY <2>1
<1>3. Cardinality(S) \in N
  <2> HIDE DEF N
  <2> QED
    BY <1>1, <1>2, NatSetInduction, FS_CardinalityType
<1> QED
  BY <1>3, FS_Subset DEF upTo

LEMMA SumIsInt ==
  ASSUME NEW S, IsFiniteSet(S), NEW f \in [S -> Int]
  PROVE  \A T \in SUBSET S : sums(f)[T] \in Int
<1> DEFINE C == {T \in SUBSET S : sums(f)[T] \in Int}
<1>1. {} \in C
  BY SumOfEmpty
<1>2. ASSUME NEW T \in SUBSET S, T # {}, \A x \in T : T \ {x} \in C PROVE T \in C
  <2>1. sums(f)[T] = f[anyOf(T)] + sums(f)[T \ {anyOf(T)}]
    BY <1>2, SumOfAny
  <2>2. anyOf(T) \in T
    BY <1>2, AnyIsMember
  <2>3. f[anyOf(T)] \in Int /\ sums(f)[T \ {anyOf(T)}] \in Int
    BY <1>2, <2>2
  <2>4. sums(f)[T] \in Int
    BY <2>1, <2>3
  <2> QED
    BY <2>4
<1>3. \A T \in SUBSET S : T \in C
  <2> HIDE DEF C
  <2> QED
    BY <1>1, <1>2, SubsetInduction
<1> QED
  BY <1>3

(* Any element can be taken out first.                                     *)
LEMMA SumOfElement ==
  ASSUME NEW S, IsFiniteSet(S), NEW f \in [S -> Int]
  PROVE  \A T \in SUBSET S : \A x \in T : sums(f)[T] = f[x] + sums(f)[T \ {x}]
<1> DEFINE C == {T \in SUBSET S : \A x \in T : sums(f)[T] = f[x] + sums(f)[T \ {x}]}
<1>1. {} \in C
  OBVIOUS
<1>2. ASSUME NEW T \in SUBSET S, T # {}, \A x \in T : T \ {x} \in C PROVE T \in C
  <2>1. ASSUME NEW x \in T PROVE sums(f)[T] = f[x] + sums(f)[T \ {x}]
    <3> DEFINE y == anyOf(T)
    <3>1. y \in T /\ sums(f)[T] = f[y] + sums(f)[T \ {y}]
      BY <1>2, SumOfAny, AnyIsMember
    <3>2. CASE x = y
      BY <3>1, <3>2
    <3>3. CASE x # y
      <4> HIDE DEF y
      <4>1. (T \ {y}) \ {x} = (T \ {x}) \ {y}
        OBVIOUS
      <4>2. sums(f)[T \ {y}] = f[x] + sums(f)[(T \ {y}) \ {x}]
        BY <1>2, <3>1, <3>3
      <4>3. sums(f)[T \ {x}] = f[y] + sums(f)[(T \ {x}) \ {y}]
        BY <1>2, <3>1, <3>3
      <4>4. sums(f)[(T \ {x}) \ {y}] \in Int /\ f[x] \in Int /\ f[y] \in Int
        BY <3>1, SumIsInt
      <4> DEFINE both == sums(f)[(T \ {x}) \ {y}]
      <4>5. sums(f)[T] = f[y] + (f[x] + both)
        BY <3>1, <4>1, <4>2
      <4>6. sums(f)[T \ {x}] = f[y] + both
        BY <4>3
      <4> HIDE DEF both
      <4>7. f[y] + (f[x] + both) = f[x] + (f[y] + both)
        BY <4>4 DEF both
      <4> QED
        BY <4>5, <4>6, <4>7
    <3> QED
      BY <3>2, <3>3
  <2> QED
    BY <2>1
<1>3. \A T \in SUBSET S : T \in C
  <2> HIDE DEF C
  <2> QED
    BY <1>1, <1>2, SubsetInduction
<1> QED
  BY <1>3

(* The sum over a part of a set is that of the function on this part.      *)
LEMMA SumOfPart ==
  ASSUME NEW S, IsFiniteSet(S), NEW f \in [S -> Int], NEW T \in SUBSET S
  PROVE  FoldFunction(+, 0, [x \in T |-> f[x]]) = sums(f)[T]
<1> DEFINE g == [x \in T |-> f[x]]
           C == {U \in SUBSET T : sums(g)[U] = sums(f)[U]}
<1>1. g \in [T -> Int] /\ DOMAIN g = T /\ IsFiniteSet(T) /\ \A x \in T : g[x] = f[x]
  BY FS_Subset
<1> HIDE DEF g
<1>2. {} \in C
  BY <1>1, SumOfEmpty
<1>3. ASSUME NEW U \in SUBSET T, U # {}, \A x \in U : U \ {x} \in C PROVE U \in C
  <2>1. PICK x \in U : TRUE
    BY <1>3
  <2>2. sums(g)[U] = g[x] + sums(g)[U \ {x}]
    BY <1>1, SumOfElement
  <2>3. sums(f)[U] = f[x] + sums(f)[U \ {x}]
    BY SumOfElement
  <2>4. sums(g)[U \ {x}] = sums(f)[U \ {x}] /\ g[x] = f[x]
    BY <1>1, <1>3
  <2> QED
    BY <2>2, <2>3, <2>4
<1>4. \A U \in SUBSET T : U \in C
  <2> HIDE DEF C
  <2>1. IsFiniteSet(T)
    BY <1>1
  <2> QED
    BY <1>2, <1>3, <2>1, SubsetInduction
<1>5. sums(g)[T] = sums(f)[T]
  BY <1>4
<1> QED
  BY <1>1, <1>5, FoldIsSum DEF g

(* More elements that are not negative are not less.                       *)
LEMMA SumGrows ==
  ASSUME NEW S, IsFiniteSet(S), NEW f \in [S -> Nat], NEW U \in SUBSET S
  PROVE  \A T \in SUBSET S : U \subseteq T => sums(f)[U] <= sums(f)[T]
<1> DEFINE C == {T \in SUBSET S : U \subseteq T => sums(f)[U] <= sums(f)[T]}
<1>0. f \in [S -> Int]
  OBVIOUS
<1>1. {} \in C
  <2>1. U \subseteq {} => U = {}
    OBVIOUS
  <2>2. sums(f)[{}] = 0
    BY <1>0, SumOfEmpty
  <2> QED
    BY <2>1, <2>2
<1>2. ASSUME NEW T \in SUBSET S, T # {}, \A x \in T : T \ {x} \in C PROVE T \in C
  <2> SUFFICES ASSUME U \subseteq T PROVE sums(f)[U] <= sums(f)[T]
    OBVIOUS
  <2>1. sums(f)[U] \in Int /\ sums(f)[T] \in Int
    BY <1>0, SumIsInt
  <2>2. CASE U = T
    BY <2>1, <2>2
  <2>3. CASE U # T
    <3>1. PICK x \in T : x \notin U
      BY <2>3
    <3>2. sums(f)[T] = f[x] + sums(f)[T \ {x}]
      BY <1>0, SumOfElement
    <3>3. sums(f)[U] <= sums(f)[T \ {x}]
      BY <1>2, <3>1
    <3>4. sums(f)[T \ {x}] \in Int /\ f[x] \in Nat
      BY <1>0, SumIsInt
    <3> QED
      BY <2>1, <3>2, <3>3, <3>4
  <2> QED
    BY <2>2, <2>3
<1>3. \A T \in SUBSET S : T \in C
  <2> HIDE DEF C
  <2> QED
    BY <1>1, <1>2, SubsetInduction
<1> QED
  BY <1>3
===============================================================================
