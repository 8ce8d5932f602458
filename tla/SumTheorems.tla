---------------------------- MODULE SumTheorems ----------------------------
(***************************************************************************)
(* What SumFunction returns, for any function into the integers with a      *)
(* finite domain.                                                          *)
(***************************************************************************)
EXTENDS Integers, Functions, FiniteSetTheorems, WellFoundedInduction, TLAPS

OneOf(s) == CHOOSE x \in s : TRUE

\* What the fold of f makes of s when it has made F of the smaller sets.
Step(F, f, s) == IF s = {} THEN 0 ELSE f[OneOf(s)] + F[s \ {OneOf(s)}]

\* F is the fold of f over the subsets of S.
FoldOf(F, f, S) == F = [s \in SUBSET S |-> Step(F, f, s)]

\* The natural numbers are the least set with 0 and all successors.
LEMMA Induction ==
  ASSUME NEW B, B \subseteq Nat, 0 \in B, \A n \in B : n + 1 \in B
  PROVE  B = Nat
<1> SUFFICES ASSUME B # Nat PROVE FALSE
  OBVIOUS
<1> DEFINE T == Nat \ B
<1>1. T \subseteq Nat /\ T # {}
  OBVIOUS
<1>2. PICK n \in T : \A m \in T : ~ (<<m, n>> \in OpToRel(<, Nat))
  BY <1>1, NatLessThanWellFounded, WFMin
<1>3. n # 0 /\ n \in Nat
  OBVIOUS
<1>4. n - 1 \in Nat /\ n - 1 < n
  BY <1>3
<1>5. n - 1 \notin T
  BY <1>2, <1>3, <1>4 DEF OpToRel
<1>6. n - 1 + 1 \in B
  BY <1>4, <1>5
<1> QED
  BY <1>3, <1>6

LEMMA OneOfIsIn == ASSUME NEW s, s # {} PROVE OneOf(s) \in s
  BY DEF OneOf

\* To prove something of every subset of S it is enough to prove it of a set
\* for which it holds without one of its elements.
LEMMA SubsetInduction ==
  ASSUME NEW S, IsFiniteSet(S), NEW B,
         {} \in B,
         \A s \in SUBSET S : s # {} /\ s \ {OneOf(s)} \in B => s \in B
  PROVE  SUBSET S \subseteq B
<1> DEFINE N == {n \in Nat : \A s \in SUBSET S : Cardinality(s) <= n => s \in B}
<1>1. \A s \in SUBSET S : IsFiniteSet(s) /\ Cardinality(s) \in Nat
  BY FS_Subset, FS_CardinalityType
<1>2. 0 \in N
  <2> SUFFICES ASSUME NEW s \in SUBSET S, Cardinality(s) <= 0 PROVE s \in B
    OBVIOUS
  <2>1. IsFiniteSet(s) /\ Cardinality(s) = 0
    BY <1>1
  <2>2. s = {}
    BY <2>1, FS_EmptySet
  <2> QED
    BY <2>2
<1>3. ASSUME NEW n \in N PROVE n + 1 \in N
  <2>1. SUFFICES ASSUME NEW s \in SUBSET S, Cardinality(s) <= n + 1, s # {}
                 PROVE  s \in B
    OBVIOUS
  <2>2. OneOf(s) \in s
    BY <2>1, OneOfIsIn
  <2>3. /\ Cardinality(s \ {OneOf(s)}) = Cardinality(s) - 1
        /\ s \ {OneOf(s)} \in SUBSET S
    BY <1>1, <2>2, FS_RemoveElement
  <2>4. Cardinality(s \ {OneOf(s)}) <= n
    BY <1>1, <2>1, <2>3
  <2> QED
    BY <2>1, <2>3, <2>4
<1>4. N = Nat
  <2> HIDE DEF N
  <2>1. N \subseteq Nat
    BY DEF N
  <2> QED
    BY <1>2, <1>3, <2>1, Induction
<1>5. Cardinality(S) \in N
  BY <1>1, <1>4
<1> QED
  BY <1>1, <1>5, FS_Subset

\* Every function into the integers with a finite domain has a fold.
LEMMA FoldExists ==
  ASSUME NEW S, IsFiniteSet(S), NEW f \in [S -> Int]
  PROVE  \E F \in [SUBSET S -> Int] : FoldOf(F, f, S)
<1> DEFINE Upto(F, n) == \A s \in SUBSET S : Cardinality(s) <= n => F[s] = Step(F, f, s)
           N == {n \in Nat : \E F \in [SUBSET S -> Int] : Upto(F, n)}
<1>1. \A s \in SUBSET S : IsFiniteSet(s) /\ Cardinality(s) \in Nat
  BY FS_Subset, FS_CardinalityType
<1>2. 0 \in N
  <2> DEFINE F == [s \in SUBSET S |-> 0]
  <2>1. F \in [SUBSET S -> Int]
    OBVIOUS
  <2>2. Upto(F, 0)
    BY <1>1, FS_EmptySet DEF Step
  <2> QED
    BY <2>1, <2>2
<1>3. ASSUME NEW n \in N PROVE n + 1 \in N
  <2>1. PICK F \in [SUBSET S -> Int] : Upto(F, n)
    OBVIOUS
  <2> DEFINE G == [s \in SUBSET S |-> Step(F, f, s)]
  <2>2. ASSUME NEW s \in SUBSET S, s # {}
        PROVE  /\ OneOf(s) \in S
               /\ s \ {OneOf(s)} \in SUBSET S
               /\ Cardinality(s \ {OneOf(s)}) = Cardinality(s) - 1
    BY <1>1, <2>2, OneOfIsIn, FS_RemoveElement
  <2>3. G \in [SUBSET S -> Int]
    <3>1. ASSUME NEW s \in SUBSET S PROVE Step(F, f, s) \in Int
      <4>1. CASE s = {}
        BY <4>1 DEF Step
      <4>2. CASE s # {}
        <5>1. f[OneOf(s)] \in Int /\ F[s \ {OneOf(s)}] \in Int
          BY <2>2, <4>2
        <5> QED
          BY <4>2, <5>1 DEF Step
      <4> QED
        BY <4>1, <4>2
    <3> QED
      BY <3>1
  <2>4. ASSUME NEW s \in SUBSET S, Cardinality(s) <= n + 1
        PROVE  G[s] = Step(G, f, s)
    <3>1. CASE s = {}
      BY <3>1 DEF Step
    <3>2. CASE s # {}
      <4>1. /\ s \ {OneOf(s)} \in SUBSET S
            /\ Cardinality(s \ {OneOf(s)}) <= n
        BY <1>1, <2>2, <2>4, <3>2
      <4>2. F[s \ {OneOf(s)}] = Step(F, f, s \ {OneOf(s)})
        BY <2>1, <4>1
      <4>3. F[s \ {OneOf(s)}] = G[s \ {OneOf(s)}]
        BY <4>1, <4>2
      <4>4. G[s] = Step(F, f, s)
        OBVIOUS
      <4> HIDE DEF G
      <4> QED
        BY <3>2, <4>3, <4>4 DEF Step
    <3> QED
      BY <3>1, <3>2
  <2>5. Upto(G, n + 1)
    BY <2>4
  <2> HIDE DEF G
  <2>6. \E H \in [SUBSET S -> Int] : Upto(H, n + 1)
    BY <2>3, <2>5
  <2> HIDE DEF Upto
  <2> QED
    BY <2>6
<1>4. Cardinality(S) \in N
  <2> HIDE DEF N
  <2>1. N \subseteq Nat
    BY DEF N
  <2>2. N = Nat
    BY <1>2, <1>3, <2>1, Induction
  <2> QED
    BY <1>1, <2>2
<1>5. PICK F \in [SUBSET S -> Int] : Upto(F, Cardinality(S))
  BY <1>4
<1>6. \A s \in SUBSET S : F[s] = Step(F, f, s)
  BY <1>1, <1>5, FS_Subset
<1>7. FoldOf(F, f, S)
  BY <1>6 DEF FoldOf
<1> QED
  BY <1>7

LEMMA SumIsFold ==
  ASSUME NEW S, IsFiniteSet(S), NEW f \in [S -> Int]
  PROVE  \E F \in [SUBSET S -> Int] : FoldOf(F, f, S) /\ SumFunction(f) = F[S]
<1> DEFINE iter == CHOOSE F : FoldOf(F, f, S)
<1>1. PICK G \in [SUBSET S -> Int] : FoldOf(G, f, S)
  BY FoldExists
<1>2. FoldOf(iter, f, S)
  BY <1>1
<1>3. SumFunction(f) = iter[S]
  BY DEF SumFunction, SumFunctionOnSet, FoldFunctionOnSet, MapThenFoldSet, FoldOf, Step, OneOf
<1>4. iter \in [SUBSET S -> Int]
  <2> HIDE DEF iter
  <2> DEFINE B == {s \in SUBSET S : iter[s] \in Int}
  <2>1. \A s \in SUBSET S : iter[s] = Step(iter, f, s)
    BY <1>2 DEF FoldOf
  <2>2. {} \in B
    <3>1. {} \in SUBSET S /\ iter[{}] = 0
      BY <2>1 DEF Step
    <3> QED
      BY <3>1
  <2>3. ASSUME NEW s \in SUBSET S, s # {}, s \ {OneOf(s)} \in B
        PROVE  s \in B
    <3>1. f[OneOf(s)] \in Int /\ iter[s \ {OneOf(s)}] \in Int
      BY <2>3, OneOfIsIn
    <3>2. iter[s] = f[OneOf(s)] + iter[s \ {OneOf(s)}]
      BY <2>1, <2>3 DEF Step
    <3> QED
      BY <3>1, <3>2
  <2>4. SUBSET S \subseteq B
    <3> HIDE DEF B
    <3> QED
      BY <2>2, <2>3, SubsetInduction
  <2>5. iter = [s \in SUBSET S |-> iter[s]]
    BY <1>2 DEF FoldOf
  <2> QED
    BY <2>4, <2>5
<1> HIDE DEF iter
<1> QED
  BY <1>2, <1>3, <1>4

(***************************************************************************)
(* Moving one value of a function moves its sum by as much.                *)
(***************************************************************************)
THEOREM SumOfUpdate ==
  ASSUME NEW S, IsFiniteSet(S), NEW x \in S,
         NEW f \in [S -> Int], NEW g \in [S -> Int],
         \A y \in S : y # x => g[y] = f[y]
  PROVE  SumFunction(g) = SumFunction(f) + (g[x] - f[x])
<1>1. PICK F \in [SUBSET S -> Int] : FoldOf(F, f, S) /\ SumFunction(f) = F[S]
  BY SumIsFold
<1>2. PICK G \in [SUBSET S -> Int] : FoldOf(G, g, S) /\ SumFunction(g) = G[S]
  BY SumIsFold
<1> DEFINE B == {s \in SUBSET S :
                    G[s] = IF x \in s THEN F[s] + (g[x] - f[x]) ELSE F[s]}
<1>3. \A s \in SUBSET S : F[s] = Step(F, f, s) /\ G[s] = Step(G, g, s)
  BY <1>1, <1>2 DEF FoldOf
<1>4. {} \in B
  BY <1>3 DEF Step
<1>5. ASSUME NEW s \in SUBSET S, s # {}, s \ {OneOf(s)} \in B
      PROVE  s \in B
  <2>1. PICK y : y = OneOf(s)
    OBVIOUS
  <2>2. PICK t : t = s \ {y}
    OBVIOUS
  <2>3. y \in s /\ y \in S /\ t \in SUBSET S
    BY <1>5, <2>1, <2>2, OneOfIsIn
  <2>4. F[s] = f[y] + F[t] /\ G[s] = g[y] + G[t]
    BY <1>3, <1>5, <2>1, <2>2 DEF Step
  <2>5. f[y] \in Int /\ g[y] \in Int /\ F[t] \in Int /\ G[t] \in Int
    BY <2>3
  <2>6. G[t] = IF x \in t THEN F[t] + (g[x] - f[x]) ELSE F[t]
    BY <1>5, <2>1, <2>2
  <2>7. CASE x = y
    <3>1. x \notin t /\ x \in s
      BY <2>2, <2>3, <2>7
    <3> QED
      BY <2>4, <2>5, <2>6, <2>7, <3>1
  <2>8. CASE x # y
    <3>1. (x \in t <=> x \in s) /\ g[y] = f[y]
      BY <2>2, <2>3, <2>8
    <3>2. x \in s => g[x] \in Int /\ f[x] \in Int
      OBVIOUS
    <3> QED
      BY <2>4, <2>5, <2>6, <3>1, <3>2
  <2> QED
    BY <2>7, <2>8
<1>6. SUBSET S \subseteq B
  <2> HIDE DEF B
  <2> QED
    BY <1>4, <1>5, SubsetInduction
<1> QED
  BY <1>1, <1>2, <1>6

COROLLARY SumOfExcept ==
  ASSUME NEW S, IsFiniteSet(S), NEW x \in S, NEW f \in [S -> Int], NEW v \in Int
  PROVE  SumFunction([f EXCEPT ![x] = v]) = SumFunction(f) + (v - f[x])
<1>1. PICK g : g = [f EXCEPT ![x] = v]
  OBVIOUS
<1>2. g \in [S -> Int] /\ g[x] = v /\ \A y \in S : y # x => g[y] = f[y]
  BY <1>1
<1>3. SumFunction(g) = SumFunction(f) + (g[x] - f[x])
  BY <1>2, SumOfUpdate
<1> QED
  BY <1>1, <1>2, <1>3

THEOREM SumType ==
  ASSUME NEW S, IsFiniteSet(S), NEW f \in [S -> Int]
  PROVE  SumFunction(f) \in Int
<1>1. PICK F \in [SUBSET S -> Int] : FoldOf(F, f, S) /\ SumFunction(f) = F[S]
  BY SumIsFold
<1> QED
  BY <1>1

\* The sum of nothing, or of nothing but zeros, is zero.
THEOREM SumOfZeros ==
  ASSUME NEW S, IsFiniteSet(S), NEW f \in [S -> {0}]
  PROVE  SumFunction(f) = 0
<1>1. PICK F \in [SUBSET S -> Int] : FoldOf(F, f, S) /\ SumFunction(f) = F[S]
  BY SumIsFold
<1> DEFINE B == {s \in SUBSET S : F[s] = 0}
<1>2. \A s \in SUBSET S : F[s] = Step(F, f, s)
  BY <1>1 DEF FoldOf
<1>3. {} \in B
  BY <1>2 DEF Step
<1>4. ASSUME NEW s \in SUBSET S, s # {}, s \ {OneOf(s)} \in B
      PROVE  s \in B
  <2>1. f[OneOf(s)] = 0
    BY <1>4, OneOfIsIn
  <2> QED
    BY <1>2, <1>4, <2>1 DEF Step
<1>5. SUBSET S \subseteq B
  <2> HIDE DEF B
  <2> QED
    BY <1>3, <1>4, SubsetInduction
<1> QED
  BY <1>1, <1>5

\* The sum of a constant.
THEOREM SumOfConstant ==
  ASSUME NEW S, IsFiniteSet(S), NEW c \in Int, NEW f \in [S -> {c}]
  PROVE  SumFunction(f) = c * Cardinality(S)
<1>1. f \in [S -> Int]
  OBVIOUS
<1>2. PICK F \in [SUBSET S -> Int] : FoldOf(F, f, S) /\ SumFunction(f) = F[S]
  BY <1>1, SumIsFold
<1> DEFINE B == {s \in SUBSET S : F[s] = c * Cardinality(s)}
<1>3. \A s \in SUBSET S : F[s] = Step(F, f, s)
  BY <1>2 DEF FoldOf
<1>4. \A s \in SUBSET S : IsFiniteSet(s) /\ Cardinality(s) \in Nat
  BY FS_Subset, FS_CardinalityType
<1>5. {} \in B
  <2>1. {} \in SUBSET S /\ F[{}] = 0 /\ Cardinality({}) = 0
    BY <1>3, FS_EmptySet DEF Step
  <2> QED
    BY <2>1
<1>6. ASSUME NEW s \in SUBSET S, s # {}, s \ {OneOf(s)} \in B
      PROVE  s \in B
  <2>1. PICK t : t = s \ {OneOf(s)}
    OBVIOUS
  <2>2. F[s] = c + F[t]
    <3>1. f[OneOf(s)] = c
      BY <1>6, OneOfIsIn
    <3> QED
      BY <1>3, <1>6, <2>1, <3>1 DEF Step
  <2>3. Cardinality(t) = Cardinality(s) - 1
    BY <1>4, <1>6, <2>1, OneOfIsIn, FS_RemoveElement
  <2>4. F[t] = c * Cardinality(t)
    BY <1>6, <2>1
  <2>5. PICK k \in Nat : k = Cardinality(t) /\ Cardinality(s) = k + 1
    BY <1>4, <1>6, <2>1, <2>3
  <2>6. c * (k + 1) = c + c * k
    OBVIOUS
  <2> QED
    BY <2>2, <2>4, <2>5, <2>6
<1>7. SUBSET S \subseteq B
  <2> HIDE DEF B
  <2> QED
    BY <1>5, <1>6, SubsetInduction
<1> QED
  BY <1>2, <1>7

\* Larger values have a larger sum.
THEOREM SumIsMonotonic ==
  ASSUME NEW S, IsFiniteSet(S), NEW f \in [S -> Int], NEW g \in [S -> Int],
         \A x \in S : f[x] <= g[x]
  PROVE  SumFunction(f) <= SumFunction(g)
<1>1. PICK F \in [SUBSET S -> Int] : FoldOf(F, f, S) /\ SumFunction(f) = F[S]
  BY SumIsFold
<1>2. PICK G \in [SUBSET S -> Int] : FoldOf(G, g, S) /\ SumFunction(g) = G[S]
  BY SumIsFold
<1> DEFINE B == {s \in SUBSET S : F[s] <= G[s]}
<1>3. \A s \in SUBSET S : F[s] = Step(F, f, s) /\ G[s] = Step(G, g, s)
  BY <1>1, <1>2 DEF FoldOf
<1>4. {} \in B
  <2>1. {} \in SUBSET S /\ F[{}] = 0 /\ G[{}] = 0
    BY <1>3 DEF Step
  <2> QED
    BY <2>1
<1>5. ASSUME NEW s \in SUBSET S, s # {}, s \ {OneOf(s)} \in B
      PROVE  s \in B
  <2>1. PICK y : y = OneOf(s)
    OBVIOUS
  <2>2. PICK t : t = s \ {y}
    OBVIOUS
  <2>3. y \in S /\ t \in SUBSET S /\ F[s] = f[y] + F[t] /\ G[s] = g[y] + G[t]
    BY <1>3, <1>5, <2>1, <2>2, OneOfIsIn DEF Step
  <2>4. /\ f[y] \in Int /\ g[y] \in Int /\ F[t] \in Int /\ G[t] \in Int
        /\ f[y] <= g[y] /\ F[t] <= G[t]
    BY <1>5, <2>1, <2>2, <2>3
  <2> QED
    BY <2>3, <2>4
<1>6. SUBSET S \subseteq B
  <2> HIDE DEF B
  <2> QED
    BY <1>4, <1>5, SubsetInduction
<1> QED
  BY <1>1, <1>2, <1>6

(***************************************************************************)
(* A sum of natural numbers is one, and covers each of them.               *)
(***************************************************************************)
THEOREM SumOfNaturals ==
  ASSUME NEW S, IsFiniteSet(S), NEW f \in [S -> Nat]
  PROVE  SumFunction(f) \in Nat /\ \A x \in S : f[x] <= SumFunction(f)
<1>1. f \in [S -> Int]
  OBVIOUS
<1>2. PICK F \in [SUBSET S -> Int] : FoldOf(F, f, S) /\ SumFunction(f) = F[S]
  BY <1>1, SumIsFold
<1> DEFINE B == {s \in SUBSET S : F[s] \in Nat /\ \A x \in s : f[x] <= F[s]}
<1>3. \A s \in SUBSET S : F[s] = Step(F, f, s)
  BY <1>2 DEF FoldOf
<1>4. {} \in B
  <2>1. {} \in SUBSET S /\ F[{}] = 0
    BY <1>3 DEF Step
  <2> QED
    BY <2>1
<1>5. ASSUME NEW s \in SUBSET S, s # {}, s \ {OneOf(s)} \in B
      PROVE  s \in B
  <2>1. PICK y : y = OneOf(s)
    OBVIOUS
  <2>2. PICK t : t = s \ {y}
    OBVIOUS
  <2>3. y \in S /\ F[s] = f[y] + F[t]
    BY <1>3, <1>5, <2>1, <2>2, OneOfIsIn DEF Step
  <2>4. f[y] \in Nat /\ F[t] \in Nat /\ \A x \in t : f[x] <= F[t]
    BY <1>5, <2>1, <2>2, <2>3
  <2>5. F[s] \in Nat
    BY <2>3, <2>4
  <2>6. ASSUME NEW x \in s PROVE f[x] <= F[s]
    <3>1. f[x] \in Nat
      OBVIOUS
    <3>2. CASE x = y
      BY <2>3, <2>4, <3>2
    <3>3. CASE x # y
      <4>1. f[x] <= F[t]
        BY <2>2, <2>4, <3>3
      <4> QED
        BY <2>3, <2>4, <3>1, <4>1
    <3> QED
      BY <3>2, <3>3
  <2> QED
    BY <2>5, <2>6
<1>6. SUBSET S \subseteq B
  <2> HIDE DEF B
  <2> QED
    BY <1>4, <1>5, SubsetInduction
<1> QED
  BY <1>2, <1>6

\* The sum of zeros and ones counts the ones.
THEOREM SumCounts ==
  ASSUME NEW S, IsFiniteSet(S), NEW f \in [S -> {0, 1}]
  PROVE  SumFunction(f) = Cardinality({x \in S : f[x] = 1})
<1>1. f \in [S -> Int]
  OBVIOUS
<1>2. PICK F \in [SUBSET S -> Int] : FoldOf(F, f, S) /\ SumFunction(f) = F[S]
  BY <1>1, SumIsFold
<1> DEFINE Ones(s) == {x \in s : f[x] = 1}
           B == {s \in SUBSET S : F[s] = Cardinality(Ones(s))}
<1>3. \A s \in SUBSET S : F[s] = Step(F, f, s)
  BY <1>2 DEF FoldOf
<1>4. \A s \in SUBSET S : IsFiniteSet(Ones(s)) /\ Cardinality(Ones(s)) \in Nat
  <2>1. \A s \in SUBSET S : Ones(s) \in SUBSET S
    OBVIOUS
  <2> QED
    BY <2>1, FS_Subset, FS_CardinalityType
<1>5. {} \in B
  <2>1. {} \in SUBSET S /\ F[{}] = 0 /\ Cardinality({}) = 0 /\ Ones({}) = {}
    BY <1>3, FS_EmptySet DEF Step
  <2> QED
    BY <2>1
<1>6. ASSUME NEW s \in SUBSET S, s # {}, s \ {OneOf(s)} \in B
      PROVE  s \in B
  <2>1. PICK y : y = OneOf(s)
    OBVIOUS
  <2>2. PICK t : t = s \ {y}
    OBVIOUS
  <2>3. y \in s /\ t \in SUBSET S /\ F[s] = f[y] + F[t]
    BY <1>3, <1>6, <2>1, <2>2, OneOfIsIn DEF Step
  <2>4. F[t] = Cardinality(Ones(t))
    BY <1>6, <2>1, <2>2
  <2>5. CASE f[y] = 0
    <3>1. Ones(s) = Ones(t)
      BY <2>2, <2>5
    <3>2. Cardinality(Ones(t)) \in Nat
      BY <1>4, <2>3
    <3> HIDE DEF Ones
    <3>3. F[s] = Cardinality(Ones(s))
      BY <2>3, <2>4, <2>5, <3>1, <3>2
    <3> QED
      BY <3>3
  <2>6. CASE f[y] = 1
    <3>1. Ones(s) = Ones(t) \cup {y} /\ y \notin Ones(t)
      BY <2>2, <2>3, <2>6
    <3>2. IsFiniteSet(Ones(t)) /\ Cardinality(Ones(t)) \in Nat
      BY <1>4, <2>3
    <3> HIDE DEF Ones
    <3>3. Cardinality(Ones(s)) = Cardinality(Ones(t)) + 1
      BY <3>1, <3>2, FS_AddElement
    <3>4. F[s] = Cardinality(Ones(s))
      BY <2>3, <2>4, <2>6, <3>2, <3>3
    <3> QED
      BY <3>4
  <2>7. f[y] \in {0, 1}
    BY <2>3
  <2> QED
    BY <2>5, <2>6, <2>7
<1>7. SUBSET S \subseteq B
  <2> HIDE DEF B
  <2> QED
    BY <1>5, <1>6, SubsetInduction
<1> QED
  BY <1>2, <1>7

=============================================================================
