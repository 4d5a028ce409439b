------------------------------- MODULE FoldFacts -------------------------------
(***************************************************************************)
(* Induction and recursion over finite sets, in a form that can be cited:  *)
(* about sets and functions where the library's theorems are about         *)
(* operators.                                                              *)
(***************************************************************************)
EXTENDS Naturals, FiniteSets, FiniteSetTheorems, NaturalsInduction, WellFoundedInduction, TLAPS

\* Every set of natural numbers that is not empty has a least element.
LEMMA LeastOf ==
  ASSUME NEW T, T \subseteq Nat, T # {}
  PROVE  \E n \in T : \A m \in T : n <= m
<1> DEFINE R == OpToRel(<, Nat)
<1>1. IsWellFoundedOn(R, Nat)
  BY NatLessThanWellFounded
<1>2. \A m, n \in Nat : m < n => <<m, n>> \in R
  BY DEF OpToRel
<1> HIDE DEF R
<1>3. \E n \in T : \A m \in T : <<m, n>> \notin R
  BY <1>1, WFMin
<1>4. PICK n \in T : \A m \in T : <<m, n>> \notin R
  BY <1>3
<1>5. \A m \in T : ~(m < n)
  BY <1>2, <1>4
<1> QED BY <1>5

\* Induction, for a set.
LEMMA Reaches ==
  ASSUME NEW T, 0 \in T, \A n \in Nat : n \in T => n + 1 \in T
  PROVE  \A n \in Nat : n \in T
<1> SUFFICES ASSUME Nat \ T # {} PROVE FALSE
  OBVIOUS
<1>1. PICK n \in Nat \ T : \A m \in Nat \ T : n <= m
  BY LeastOf
<1>2. n # 0 /\ n - 1 \in Nat /\ n - 1 + 1 = n /\ n - 1 \in T
  BY <1>1
<1> QED BY <1>1, <1>2

\* A finite set of natural numbers that is not empty has a largest element.
LEMMA LargestOf ==
  ASSUME NEW T, T \subseteq Nat, T # {}, NEW b \in Nat, \A n \in T : n <= b
  PROVE  \E n \in T : \A m \in T : m <= n
<1> DEFINE U == {b - n : n \in T}
<1>1. U \subseteq Nat /\ U # {}
  <2>1. \A n \in T : b - n \in Nat
    OBVIOUS
  <2> QED BY <2>1
<1>2. PICK u \in U : \A v \in U : u <= v
  BY <1>1, LeastOf
<1>3. PICK n \in T : u = b - n
  OBVIOUS
<1>4. \A m \in T : b - m \in U /\ m <= b /\ m \in Nat
  OBVIOUS
<1> QED BY <1>2, <1>3, <1>4

LEMMA FiniteLargest ==
  ASSUME NEW T, IsFiniteSet(T), T \subseteq Nat, T # {}
  PROVE  \E n \in T : \A m \in T : m <= n
<1> DEFINE Bounded(n) == \A S \in SUBSET T : Cardinality(S) = n =>
                           \E b \in Nat : \A m \in S : m <= b
           U == {n \in Nat : Bounded(n)}
<1>1. \A S \in SUBSET T : IsFiniteSet(S) /\ Cardinality(S) \in Nat
  BY FS_Subset, FS_CardinalityType
<1>2. 0 \in U
  <2>1. \A S \in SUBSET T : Cardinality(S) = 0 => S = {}
    BY <1>1, FS_EmptySet
  <2> QED BY <2>1
<1>3. ASSUME NEW n \in Nat, n \in U PROVE n + 1 \in U
  <2> SUFFICES ASSUME NEW S \in SUBSET T, Cardinality(S) = n + 1
               PROVE  \E b \in Nat : \A m \in S : m <= b
    <3>1. n + 1 \in Nat
      OBVIOUS
    <3> QED BY <3>1
  <2>0. Bounded(n)
    BY <1>3
  <2>1. S # {}
    BY FS_EmptySet
  <2>2. PICK x \in S : TRUE
    BY <2>1
  <2>3. Cardinality(S \ {x}) = n
    <3>1. IsFiniteSet(S)
      BY <1>1
    <3>2. Cardinality(S \ {x}) = Cardinality(S) - 1
      BY <3>1, FS_RemoveElement
    <3> QED BY <3>2
  <2>4. PICK b \in Nat : \A m \in S \ {x} : m <= b
    BY <2>0, <2>3
  <2>5. x \in Nat /\ b + x \in Nat
    OBVIOUS
  <2>6. \A m \in S : m <= b + x
    <3> SUFFICES ASSUME NEW m \in S PROVE m <= b + x
      OBVIOUS
    <3>1. m \in Nat /\ (m = x \/ m <= b)
      BY <2>4
    <3> QED BY <2>5, <3>1
  <2> QED BY <2>5, <2>6
<1>4. Cardinality(T) \in U
  <2> HIDE DEF U
  <2> QED BY <1>1, <1>2, <1>3, Reaches
<1>5. PICK b \in Nat : \A m \in T : m <= b
  BY <1>4
<1> QED BY <1>5, LargestOf

-----------------------------------------------------------------------------
\* What folds are made of: a function of the subsets of a finite set may be defined from
\* the value without an element that is picked.
Picks(pick, E) == \A S \in SUBSET E : S # {} => pick[S] \in S
IsFold(f, E, pick, base, step) ==
  \A S \in SUBSET E : f[S] = IF S = {} THEN base ELSE step[<<pick[S], f[S \ {pick[S]}]>>]

LEMMA FoldExists ==
  ASSUME NEW E, IsFiniteSet(E), NEW pick, Picks(pick, E),
         NEW V, NEW base \in V, NEW step \in [E \X V -> V]
  PROVE  \E f \in [SUBSET E -> V] : IsFold(f, E, pick, base, step)
<1> USE DEF Picks
<1> DEFINE Small(n) == {S \in SUBSET E : Cardinality(S) <= n}
           Folds(f, n) == /\ f \in [Small(n) -> V]
                          /\ \A S \in Small(n) : f[S] = IF S = {} THEN base ELSE
                                                   step[<<pick[S], f[S \ {pick[S]}]>>]
           T == {n \in Nat : \E f : Folds(f, n)}
<1>1. \A S \in SUBSET E : IsFiniteSet(S) /\ Cardinality(S) \in Nat
  BY FS_Subset, FS_CardinalityType
<1>2. \A S \in SUBSET E : S # {} => /\ Cardinality(S \ {pick[S]}) = Cardinality(S) - 1
                                    /\ S \ {pick[S]} \in SUBSET E
  BY <1>1, FS_RemoveElement
<1>3. \A S \in SUBSET E : Cardinality(S) <= 0 <=> S = {}
  BY <1>1, FS_EmptySet
<1>4. 0 \in T
  <2>1. Small(0) = {{}}
    BY <1>3
  <2>2. Folds([S \in Small(0) |-> base], 0)
    BY <2>1
  <2> QED BY <2>2
<1>5. ASSUME NEW n \in Nat, n \in T PROVE n + 1 \in T
  <2>1. PICK f : Folds(f, n)
    BY <1>5
  <2> DEFINE g == [S \in Small(n + 1) |->
                     IF S = {} THEN base ELSE step[<<pick[S], f[S \ {pick[S]}]>>]]
  <2>2. \A S \in Small(n + 1) : S # {} => /\ S \ {pick[S]} \in Small(n) /\ pick[S] \in E
                                          /\ S \ {pick[S]} \in Small(n + 1)
    BY <1>1, <1>2
  <2>3. g \in [Small(n + 1) -> V]
    BY <2>1, <2>2
  <2>4. \A S \in Small(n) : S \in Small(n + 1) /\ g[S] = f[S]
    BY <1>1, <2>1
  <2>5. \A S \in Small(n + 1) : g[S] = IF S = {} THEN base ELSE
                                         step[<<pick[S], g[S \ {pick[S]}]>>]
    BY <2>2, <2>4
  <2>6. Folds(g, n + 1)
    BY <2>3, <2>5
  <2> HIDE DEF g, Folds
  <2> QED BY <2>6
<1>6. Cardinality(E) \in T
  <2>1. \A n \in Nat : n \in T
    <3> HIDE DEF T
    <3> QED BY <1>4, <1>5, Reaches
  <2> QED BY <1>1, <2>1
<1>7. PICK f : Folds(f, Cardinality(E))
  BY <1>6
<1>8. Small(Cardinality(E)) = SUBSET E
  BY FS_Subset
<1> QED BY <1>7, <1>8 DEF IsFold

-----------------------------------------------------------------------------
(* Folds of sequences from the left: over sets of numbers, the largest first. *)

Highest(S) == CHOOSE x \in S : \A y \in S : x >= y

LEMMA HighestType ==
  ASSUME NEW n \in Nat, NEW S \in SUBSET (1 .. n), S # {}
  PROVE  Highest(S) \in S /\ \A y \in S : Highest(S) >= y
<1>1. S \subseteq Nat /\ \A x \in S : x <= n
  OBVIOUS
<1>2. PICK x \in S : \A y \in S : y <= x
  BY <1>1, LargestOf
<1>3. \A y \in S : x >= y
  BY <1>1, <1>2
<1> QED BY <1>3 DEF Highest

\* What is left of the first k numbers when the largest is taken is the first k - 1.
LEMMA FirstNumbers ==
  ASSUME NEW n \in Nat, NEW k \in 1 .. n
  PROVE  /\ 1 .. k \in SUBSET (1 .. n) /\ 1 .. k # {}
         /\ Highest(1 .. k) = k /\ (1 .. k) \ {k} = 1 .. k - 1
<1>1. 1 .. k \in SUBSET (1 .. n) /\ k \in 1 .. k
  OBVIOUS
<1>2. Highest(1 .. k) \in 1 .. k /\ Highest(1 .. k) >= k
  BY <1>1, HighestType
<1> QED BY <1>1, <1>2

IsLeftFold(f, n, base, step) ==
  \A S \in SUBSET (1 .. n) :
    f[S] = IF S = {} THEN base ELSE step[<<Highest(S), f[S \ {Highest(S)}]>>]

LEMMA LeftFoldExists ==
  ASSUME NEW n \in Nat, NEW V, NEW base \in V, NEW step \in [(1 .. n) \X V -> V]
  PROVE  \E f \in [SUBSET (1 .. n) -> V] : IsLeftFold(f, n, base, step)
<1> DEFINE E == 1 .. n
           pick == [S \in SUBSET E |-> Highest(S)]
<1>1. \A S \in SUBSET E : S # {} => pick[S] \in S
  BY HighestType
<1>2. IsFiniteSet(E) /\ \A S \in SUBSET E : pick[S] = Highest(S)
  BY FS_Interval
<1>3. Picks(pick, E)
  BY <1>1 DEF Picks
<1> HIDE DEF pick
<1>4. PICK f \in [SUBSET E -> V] : IsFold(f, E, pick, base, step)
  <2> HIDE DEF E
  <2>1. step \in [E \X V -> V]
    BY DEF E
  <2> QED BY <1>2, <1>3, <2>1, FoldExists
<1> QED BY <1>2, <1>4, ZenonT(60) DEF IsFold, IsLeftFold
=============================================================================
