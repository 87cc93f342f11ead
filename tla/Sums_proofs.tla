----------------------------- MODULE Sums_proofs -----------------------------
(***************************************************************************)
(* The sum of the values of a function, as FoldFunction of the community   *)
(* modules defines it: what one changed value does to it, for every finite *)
(* domain.  The library's induction theorems take an operator and cannot   *)
(* be instantiated here, so induction is done over sets: a set of numbers  *)
(* that has 0 and every successor, a set of subsets that has {} and every  *)
(* set whose remainder it has.                                             *)
(***************************************************************************)
EXTENDS Integers, Functions, FiniteSetTheorems, TLAPS

Sum(f) == FoldFunction(LAMBDA x, y : x + y, 0, f)

\* The value the fold takes from a set first, and the recursion it makes over
\* the subsets of a set of indices.
First(s) == CHOOSE x \in s : TRUE

Step(f, g, s) == IF s = {} THEN 0 ELSE f[First(s)] + g[s \ {First(s)}]

Partial(f, S) == CHOOSE g : g = [s \in SUBSET S |-> Step(f, g, s)]

LEMMA SumIsPartial == ASSUME NEW S, NEW f \in [S -> Int] PROVE Sum(f) = Partial(f, S)[S]
  <1>1. DOMAIN f = S
    OBVIOUS
  <1> QED
    BY <1>1 DEF Sum, FoldFunction, FoldFunctionOnSet, MapThenFoldSet, Partial, Step, First

\* Induction on the natural numbers, over a set of them.
LEMMA NumbersByInduction ==
    ASSUME NEW P, P \subseteq Nat, 0 \in P, \A n \in P : n + 1 \in P
    PROVE  P = Nat
  <1> SUFFICES ASSUME Nat \ P # {} PROVE FALSE
    OBVIOUS
  <1>1. PICK n \in Nat \ P : \A m \in Nat \ P : ~ (<<m, n>> \in OpToRel(<, Nat))
    BY NatLessThanWellFounded, WFMin
  <1>2. n # 0 /\ n - 1 \in Nat /\ n - 1 < n
    OBVIOUS
  <1>3. n - 1 \in P
    BY <1>1, <1>2 DEF OpToRel
  <1> QED BY <1>2, <1>3

\* Induction on the subsets of a finite set, the way the fold takes them apart.
LEMMA SubsetsByInduction ==
    ASSUME NEW S, IsFiniteSet(S), NEW P, {} \in P,
           \A s \in SUBSET S : s # {} /\ s \ {First(s)} \in P => s \in P
    PROVE  SUBSET S \subseteq P
  <1> DEFINE Q == {n \in Nat : \A s \in SUBSET S : Cardinality(s) = n => s \in P}
  <1>0. \A s \in SUBSET S : IsFiniteSet(s) /\ Cardinality(s) \in Nat
    BY FS_Subset, FS_CardinalityType
  <1>1. 0 \in Q
    BY <1>0, FS_EmptySet
  <1>2. ASSUME NEW n \in Q PROVE n + 1 \in Q
    <2> SUFFICES ASSUME NEW s \in SUBSET S, Cardinality(s) = n + 1 PROVE s \in P
      OBVIOUS
    <2>1. s # {}
      BY FS_EmptySet
    <2>2. First(s) \in s
      BY <2>1 DEF First
    <2>3. Cardinality(s \ {First(s)}) = n
      <3>1. Cardinality(s \ {First(s)}) = Cardinality(s) - 1
        BY <1>0, <2>2, FS_RemoveElement
      <3>2. n \in Nat
        OBVIOUS
      <3> QED BY <3>1, <3>2
    <2>4. s \ {First(s)} \in P
      BY <2>3
    <2> QED BY <2>1, <2>4
  <1>3. Q = Nat
    <2> HIDE DEF Q
    <2>1. Q \subseteq Nat
      BY DEF Q
    <2> QED BY <1>1, <1>2, <2>1, NumbersByInduction
  <1> QED BY <1>0, <1>3

\* The recursion has a solution: one for the subsets of every size, each from
\* the one before.
LEMMA PartialExists ==
    ASSUME NEW S, IsFiniteSet(S), NEW f \in [S -> Int]
    PROVE  \E g \in [SUBSET S -> Int] : g = [s \in SUBSET S |-> Step(f, g, s)]
  <1> DEFINE UpTo(n) == {s \in SUBSET S : Cardinality(s) <= n}
             Solves(g, n) == \A s \in UpTo(n) : g[s] = Step(f, g, s)
             Q == {n \in Nat : \E g \in [UpTo(n) -> Int] : Solves(g, n)}
  <1>0. \A s \in SUBSET S : IsFiniteSet(s) /\ Cardinality(s) \in Nat
    BY FS_Subset, FS_CardinalityType
  <1>1. 0 \in Q
    <2>1. \A s \in UpTo(0) : s = {}
      BY <1>0, FS_EmptySet
    <2>2. [s \in UpTo(0) |-> 0] \in [UpTo(0) -> Int]
      OBVIOUS
    <2>3. Solves([s \in UpTo(0) |-> 0], 0)
      BY <2>1 DEF Step
    <2> QED BY <2>2, <2>3
  <1>2. ASSUME NEW n \in Q PROVE n + 1 \in Q
    <2>1. PICK g \in [UpTo(n) -> Int] : Solves(g, n)
      OBVIOUS
    <2> DEFINE h == [s \in UpTo(n + 1) |-> Step(f, g, s)]
    <2>2. ASSUME NEW s \in UpTo(n + 1), s # {}
          PROVE  First(s) \in S /\ s \ {First(s)} \in UpTo(n)
      <3>1. First(s) \in s
        BY <2>2 DEF First
      <3>2. Cardinality(s \ {First(s)}) = Cardinality(s) - 1
        BY <1>0, <3>1, FS_RemoveElement
      <3> QED BY <1>0, <3>1, <3>2
    <2>3. \A s \in UpTo(n + 1) : Step(f, g, s) \in Int
      <3> SUFFICES ASSUME NEW s \in UpTo(n + 1) PROVE Step(f, g, s) \in Int
        OBVIOUS
      <3>1. CASE s = {}
        BY <3>1 DEF Step
      <3>2. CASE s # {}
        <4>1. f[First(s)] \in Int /\ g[s \ {First(s)}] \in Int
          BY <2>2, <3>2
        <4> QED BY <3>2, <4>1 DEF Step
      <3> QED BY <3>1, <3>2
    <2>4. h \in [UpTo(n + 1) -> Int]
      BY <2>3
    <2>5. \A s \in UpTo(n) : s \in UpTo(n + 1) /\ h[s] = g[s]
      BY <1>0, <2>1
    <2>6. \A s \in UpTo(n + 1) : Step(f, h, s) = Step(f, g, s)
      BY <2>2, <2>5 DEF Step
    <2>7. Solves(h, n + 1)
      BY <2>6
    <2>8. n + 1 \in Nat
      OBVIOUS
    <2> HIDE DEF h, Solves
    <2> QED BY <2>4, <2>7, <2>8
  <1>3. Cardinality(S) \in Q
    <2>1. Q = Nat
      <3> HIDE DEF Q
      <3>1. Q \subseteq Nat
        BY DEF Q
      <3> QED BY <1>1, <1>2, <3>1, NumbersByInduction
    <2> QED BY <2>1, <1>0
  <1>4. UpTo(Cardinality(S)) = SUBSET S
    BY FS_Subset
  <1>5. PICK g \in [SUBSET S -> Int] : \A s \in SUBSET S : g[s] = Step(f, g, s)
    BY <1>3, <1>4
  <1>6. g = [s \in SUBSET S |-> Step(f, g, s)]
    BY <1>5
  <1> QED BY <1>6

\* So Partial is one.
LEMMA PartialSolves ==
    ASSUME NEW S, IsFiniteSet(S), NEW f \in [S -> Int]
    PROVE  \A s \in SUBSET S : Partial(f, S)[s] = Step(f, Partial(f, S), s)
  <1>1. Partial(f, S) = [s \in SUBSET S |-> Step(f, Partial(f, S), s)]
    BY PartialExists DEF Partial
  <1> HIDE DEF Partial
  <1> QED BY <1>1

LEMMA PartialIsInt ==
    ASSUME NEW S, IsFiniteSet(S), NEW f \in [S -> Int]
    PROVE  \A s \in SUBSET S : Partial(f, S)[s] \in Int
  <1> DEFINE g == Partial(f, S)
             P == {s \in SUBSET S : g[s] \in Int}
  <1>1. \A s \in SUBSET S : g[s] = Step(f, g, s)
    BY PartialSolves
  <1> HIDE DEF g
  <1>2. {} \in P
    BY <1>1 DEF Step
  <1>3. ASSUME NEW s \in SUBSET S, s # {}, s \ {First(s)} \in P PROVE s \in P
    <2>1. f[First(s)] \in Int
      BY <1>3 DEF First
    <2>2. g[s \ {First(s)}] \in Int
      BY <1>3
    <2>3. g[s] = f[First(s)] + g[s \ {First(s)}]
      BY <1>1, <1>3 DEF Step
    <2>4. g[s] \in Int
      BY <2>1, <2>2, <2>3
    <2> QED BY <2>4
  <1>4. SUBSET S \subseteq P
    <2> HIDE DEF P
    <2> QED BY <1>2, <1>3, SubsetsByInduction
  <1> QED BY <1>4 DEF g

\* The sum of whole numbers is one.
LEMMA SumIsInt == ASSUME NEW S, IsFiniteSet(S), NEW f \in [S -> Int] PROVE Sum(f) \in Int
  BY SumIsPartial, PartialIsInt

\* The sum of nothing but zeros is zero.
LEMMA SumOfZeros ==
    ASSUME NEW S, IsFiniteSet(S), NEW f \in [S -> Int], \A x \in S : f[x] = 0
    PROVE  Sum(f) = 0
  <1> DEFINE g == Partial(f, S)
             P == {s \in SUBSET S : g[s] = 0}
  <1>1. \A s \in SUBSET S : g[s] = Step(f, g, s)
    BY PartialSolves
  <1> HIDE DEF g
  <1>2. {} \in P
    BY <1>1 DEF Step
  <1>3. ASSUME NEW s \in SUBSET S, s # {}, s \ {First(s)} \in P PROVE s \in P
    <2>1. f[First(s)] = 0
      BY <1>3 DEF First
    <2> QED BY <1>1, <1>3, <2>1 DEF Step
  <1>4. SUBSET S \subseteq P
    <2> HIDE DEF P
    <2> QED BY <1>2, <1>3, SubsetsByInduction
  <1> QED BY <1>4, SumIsPartial DEF g

\* One changed value changes the sum by as much.
LEMMA SumOfOneChange ==
    ASSUME NEW S, IsFiniteSet(S), NEW f \in [S -> Int], NEW a \in S, NEW v \in Int
    PROVE  Sum([f EXCEPT ![a] = v]) = Sum(f) + v - f[a]
  <1> DEFINE h == [f EXCEPT ![a] = v]
             F == Partial(f, S)
             H == Partial(h, S)
             P == {s \in SUBSET S : H[s] = IF a \in s THEN F[s] + v - f[a] ELSE F[s]}
  <1>1. /\ h \in [S -> Int] /\ h[a] = v
        /\ \A x \in S \ {a} : h[x] = f[x]
    OBVIOUS
  <1> HIDE DEF h
  <1>2. /\ \A s \in SUBSET S : F[s] = Step(f, F, s) /\ F[s] \in Int
        /\ \A s \in SUBSET S : H[s] = Step(h, H, s) /\ H[s] \in Int
    BY <1>1, PartialSolves, PartialIsInt
  <1>3. Sum(f) = F[S] /\ Sum(h) = H[S]
    BY <1>1, SumIsPartial
  <1> HIDE DEF F, H
  <1>4. {} \in P
    BY <1>2 DEF Step
  <1>5. ASSUME NEW s \in SUBSET S, s # {}, s \ {First(s)} \in P PROVE s \in P
    <2> DEFINE x == First(s)
               r == s \ {x}
    <2>1. x \in s /\ x \in S /\ f[x] \in Int /\ f[a] \in Int
      BY <1>5 DEF First
    <2>2. F[s] = f[x] + F[r] /\ H[s] = h[x] + H[r]
      BY <1>2, <1>5 DEF Step
    <2>3. r \in SUBSET S /\ F[r] \in Int /\ H[r] \in Int
      BY <1>2
    <2>4. H[r] = IF a \in r THEN F[r] + v - f[a] ELSE F[r]
      BY <1>5
    <2>5. x = a \/ (x # a /\ h[x] = f[x])
      BY <1>1, <2>1
    <2>6. (a \in r <=> a \in s /\ a # x) /\ x \in s
      BY <2>1
    <2> HIDE DEF x, r
    <2>7. H[s] = IF a \in s THEN F[s] + v - f[a] ELSE F[s]
      BY <1>1, <2>1, <2>2, <2>3, <2>4, <2>5, <2>6
    <2> QED BY <2>7
  <1>6. SUBSET S \subseteq P
    <2> HIDE DEF P
    <2> QED BY <1>4, <1>5, SubsetsByInduction
  <1>7. S \in P
    BY <1>6
  <1> QED BY <1>3, <1>7 DEF h
=============================================================================
