------------------------- MODULE ThresholdShares_proofs -------------------------
(***************************************************************************)
(* Proofs about the arithmetic of the shares, for every prime, committee   *)
(* size and threshold:                                                     *)
(*   - induction over a natural number and over a finite set, in the form  *)
(*     of a set that holds the base and every next case (from the library's*)
(*     WFMin: no theorem with an operator parameter is needed);            *)
(*   - what a fold, a sum and a product over a finite set give, part by    *)
(*     part, and that the order does not matter;                           *)
(*   - divisibility by P, and that what P does not divide has an inverse;  *)
(*   - the weights of Lagrange's interpolation: their moments vanish;      *)
(*   - the interpolation of the shares, the polynomials that are zero at   *)
(*     given points, and the bits of a bitmap.                             *)
(***************************************************************************)
EXTENDS ThresholdShares, FiniteSetTheorems, WellFoundedInduction, TLAPS

------------------------------------------------------------------------------
\* A set of naturals that is not empty has a least element.
LEMMA LeastNatural ==
  ASSUME NEW T, T \subseteq Nat, T # {}
  PROVE  \E m \in T : \A n \in T : m <= n
<1>1. PICK x \in T : \A y \in T : ~ (<<y, x>> \in OpToRel(<, Nat))
  BY NatLessThanWellFounded, WFMin
<1>2. ASSUME NEW y \in T PROVE x <= y
  <2>1. ~ (<<y, x>> \in OpToRel(<, Nat))
    BY <1>1
  <2>2. ~ (y < x)
    BY <2>1 DEF OpToRel
  <2> QED BY <2>2
<1> QED BY <1>2

\* Induction over the naturals, for a set of them.
LEMMA NaturalsBySteps ==
  ASSUME NEW T, 0 \in T, \A n \in Nat : n \in T => n + 1 \in T
  PROVE  Nat \subseteq T
<1> SUFFICES ASSUME Nat \ T # {} PROVE FALSE
  OBVIOUS
<1>1. PICK m \in Nat \ T : \A n \in Nat \ T : m <= n
  BY LeastNatural
<1>2. m # 0 /\ m - 1 \in Nat /\ ~ (m <= m - 1)
  OBVIOUS
<1>3. m - 1 \in T
  BY <1>1, <1>2
<1> QED BY <1>2, <1>3

\* A property of subsets of a finite set that holds somewhere holds for a
\* smallest one.
LEMMA SmallestSubset ==
  ASSUME NEW S, IsFiniteSet(S), NEW T, T \subseteq SUBSET S, T # {}
  PROVE  \E A \in T : \A B \in T : ~ (B \subseteq A /\ B # A)
<1>1. IsWellFoundedOn(StrictSubsetOrdering(S), FiniteSubsetsOf(S))
  BY FS_StrictSubsetOrderingWellFounded
<1>2. T \subseteq FiniteSubsetsOf(S)
  BY FS_Subset DEF FiniteSubsetsOf
<1>3. PICK A \in T : \A B \in T : ~ (<<B, A>> \in StrictSubsetOrdering(S))
  BY <1>1, <1>2, WFMin
<1>4. ASSUME NEW B \in T, B \subseteq A, B # A PROVE FALSE
  BY <1>3, <1>4 DEF StrictSubsetOrdering
<1> QED BY <1>4

\* Induction over the subsets of a finite set, one element at a time.
LEMMA SetBySteps ==
  ASSUME NEW S, IsFiniteSet(S), NEW T, {} \in T,
         \A A \in SUBSET S : \A x \in S \ A : A \in T => A \cup {x} \in T
  PROVE  S \in T
<1> SUFFICES ASSUME S \notin T PROVE FALSE
  OBVIOUS
<1> DEFINE B == {A \in SUBSET S : A \notin T}
<1>1. B \subseteq SUBSET S /\ B # {}
  OBVIOUS
<1> HIDE DEF B
<1>2. PICK A \in B : \A C \in B : ~ (C \subseteq A /\ C # A)
  BY <1>1, SmallestSubset
<1> USE DEF B
<1>3. PICK x : x \in A
  OBVIOUS
<1>4. A \ {x} \in T /\ A = (A \ {x}) \cup {x}
  BY <1>2, <1>3
<1>5. A \in T
  BY <1>3, <1>4
<1> QED BY <1>5

------------------------------------------------------------------------------
\* The recursive function of a fold: the order in which pick takes the elements
\* of a set, the step G that adds one, and the function f from sets to results.
Picks(pick, S) == \A s \in SUBSET S : s # {} => pick[s] \in s

IsStep(G, S, V) == G \in [S \X V -> V]

IsFold(f, S, V, base, G, pick) ==
  /\ f \in [SUBSET S -> V]
  /\ \A s \in SUBSET S :
       f[s] = IF s = {} THEN base ELSE G[<<pick[s], f[s \ {pick[s]}]>>]

Commutes(G, S, V) ==
  \A x, y \in S, v \in V : G[<<x, G[<<y, v>>]>>] = G[<<y, G[<<x, v>>]>>]

\* It exists: it is built one size at a time.
LEMMA FoldExists ==
  ASSUME NEW S, IsFiniteSet(S), NEW V, NEW base \in V, NEW G, IsStep(G, S, V),
         NEW pick, Picks(pick, S)
  PROVE  \E f : IsFold(f, S, V, base, G, pick)
<1> USE DEF Picks, IsStep, IsFold
<1> DEFINE Sized(n) == {s \in SUBSET S : Cardinality(s) <= n}
           T == {n \in Nat : \E f \in [SUBSET S -> V] : \A s \in Sized(n) :
                   f[s] = IF s = {} THEN base ELSE G[<<pick[s], f[s \ {pick[s]}]>>]}
<1>1. \A s \in SUBSET S : IsFiniteSet(s) /\ Cardinality(s) \in Nat
  BY FS_Subset, FS_CardinalityType
<1>2. \A s \in SUBSET S : s # {} =>
        /\ pick[s] \in S /\ s \ {pick[s]} \in SUBSET S
        /\ Cardinality(s \ {pick[s]}) = Cardinality(s) - 1
  <2> SUFFICES ASSUME NEW s \in SUBSET S, s # {}
               PROVE  /\ pick[s] \in S /\ s \ {pick[s]} \in SUBSET S
                      /\ Cardinality(s \ {pick[s]}) = Cardinality(s) - 1
    OBVIOUS
  <2> QED BY <1>1, FS_RemoveElement
<1>3. 0 \in T
  <2>1. [s \in SUBSET S |-> base] \in [SUBSET S -> V]
    OBVIOUS
  <2>2. \A s \in Sized(0) : s = {}
    <3> SUFFICES ASSUME NEW s \in SUBSET S, Cardinality(s) <= 0 PROVE s = {}
      OBVIOUS
    <3>1. Cardinality(s) = 0
      BY <1>1
    <3> QED BY <1>1, <3>1, FS_EmptySet
  <2> QED BY <2>1, <2>2
<1>4. ASSUME NEW n \in Nat, n \in T PROVE n + 1 \in T
  <2>1. PICK f \in [SUBSET S -> V] : \A s \in Sized(n) :
                   f[s] = IF s = {} THEN base ELSE G[<<pick[s], f[s \ {pick[s]}]>>]
    BY <1>4
  <2> DEFINE g == [s \in SUBSET S |->
                     IF s = {} THEN base ELSE G[<<pick[s], f[s \ {pick[s]}]>>]]
  <2>2. g \in [SUBSET S -> V]
    BY <1>2
  <2>3. \A s \in Sized(n) : g[s] = f[s]
    BY <2>1
  <2>4. ASSUME NEW s \in Sized(n + 1), s # {}
        PROVE  g[s] = G[<<pick[s], g[s \ {pick[s]}]>>]
    <3>1. s \ {pick[s]} \in Sized(n)
      BY <1>1, <1>2, <2>4
    <3>2. g[s \ {pick[s]}] = f[s \ {pick[s]}]
      BY <2>3, <3>1
    <3> QED BY <2>4, <3>2
  <2>5. g[{}] = base
    OBVIOUS
  <2> HIDE DEF g
  <2>6. \A s \in Sized(n + 1) :
          g[s] = IF s = {} THEN base ELSE G[<<pick[s], g[s \ {pick[s]}]>>]
    BY <2>4, <2>5
  <2>7. n + 1 \in Nat
    OBVIOUS
  <2> HIDE DEF Sized
  <2> QED BY <2>2, <2>6, <2>7
<1> HIDE DEF T
<1>5. Cardinality(S) \in T
  BY <1>1, <1>3, <1>4, NaturalsBySteps
<1> USE DEF T
<1>6. \A s \in SUBSET S : s \in Sized(Cardinality(S))
  BY FS_Subset
<1> QED BY <1>5, <1>6

\* If the order of two elements makes no difference, any element of a set can
\* be taken first.
LEMMA FoldAnyFirst ==
  ASSUME NEW S, IsFiniteSet(S), NEW V, NEW base \in V, NEW G, IsStep(G, S, V),
         Commutes(G, S, V), NEW pick, Picks(pick, S),
         NEW f, IsFold(f, S, V, base, G, pick)
  PROVE  \A A \in SUBSET S : \A x \in A : f[A] = G[<<x, f[A \ {x}]>>]
<1> USE DEF Picks, IsStep, IsFold, Commutes
<1> DEFINE T == {A \in SUBSET S : \E x \in A : f[A] # G[<<x, f[A \ {x}]>>]}
<1> SUFFICES ASSUME T # {} PROVE FALSE
  OBVIOUS
<1>1. T \subseteq SUBSET S
  OBVIOUS
<1> HIDE DEF T
<1>2. PICK A \in T : \A B \in T : ~ (B \subseteq A /\ B # A)
  BY <1>1, SmallestSubset
<1> USE DEF T
<1>3. PICK x \in A : f[A] # G[<<x, f[A \ {x}]>>]
  OBVIOUS
<1> DEFINE c == pick[A]
<1>4. c \in A /\ f[A] = G[<<c, f[A \ {c}]>>] /\ c \in S /\ x \in S
  OBVIOUS
<1> HIDE DEF c
<1>5. c # x
  BY <1>3, <1>4
<1>6. A \ {c} \notin T /\ A \ {x} \notin T
  <2> HIDE DEF T
  <2> QED BY <1>2, <1>4, <1>3
<1>7. f[A \ {c}] = G[<<x, f[(A \ {c}) \ {x}]>>] /\ f[A \ {x}] = G[<<c, f[(A \ {x}) \ {c}]>>]
  BY <1>3, <1>4, <1>5, <1>6
<1>8. PICK D \in SUBSET S : D = (A \ {c}) \ {x} /\ D = (A \ {x}) \ {c}
  OBVIOUS
<1>9. f[D] \in V
  OBVIOUS
<1>10. G[<<x, G[<<c, f[D]>>]>>] = G[<<c, G[<<x, f[D]>>]>>]
  BY <1>4, <1>9
<1> QED BY <1>3, <1>4, <1>7, <1>8, <1>10

------------------------------------------------------------------------------
\* The function of the fold of a sum, and that it depends on the elements only.
IsSum(f, S, h) ==
  f = [s \in SUBSET S |-> IF s = {} THEN 0
                          ELSE LET x == CHOOSE x \in s : TRUE IN h[x] + f[s \ {x}]]

LEMMA SumAgrees ==
  ASSUME NEW S, NEW R, NEW A, IsFiniteSet(A), A \subseteq S, A \subseteq R, NEW g, NEW h,
         \A x \in A : g[x] = h[x],
         NEW e, IsSum(e, S, g), NEW f, IsSum(f, R, h)
  PROVE  e[A] = f[A]
<1> DEFINE T == {B \in SUBSET A : e[B] # f[B]}
<1> SUFFICES ASSUME T # {} PROVE FALSE
  OBVIOUS
<1>1. T \subseteq SUBSET A
  OBVIOUS
<1> HIDE DEF T
<1>2. PICK B \in T : \A C \in T : ~ (C \subseteq B /\ C # B)
  BY <1>1, SmallestSubset
<1> USE DEF T
<1> DEFINE c == CHOOSE y \in B : TRUE
<1>3. B \in SUBSET S /\ B \in SUBSET R
  OBVIOUS
<1>4. B # {}
  BY <1>3 DEF IsSum
<1>5. c \in B
  BY <1>4
<1>6. e[B] = g[c] + e[B \ {c}] /\ f[B] = h[c] + f[B \ {c}]
  BY <1>3, <1>4 DEF IsSum
<1> HIDE DEF c
<1>7. e[B \ {c}] = f[B \ {c}]
  BY <1>2, <1>5
<1>8. g[c] = h[c]
  BY <1>5
<1> QED BY <1>6, <1>7, <1>8

IsAdditive(f, S, h) ==
  /\ f \in [SUBSET S -> Int]
  /\ f[{}] = 0
  /\ \A A \in SUBSET S : \A x \in A : f[A] = h[x] + f[A \ {x}]

LEMMA SumByParts ==
  ASSUME NEW S, IsFiniteSet(S), NEW h, \A x \in S : h[x] \in Int
  PROVE  \E f : IsSum(f, S, h) /\ IsAdditive(f, S, h)
<1> DEFINE G == [p \in S \X Int |-> h[p[1]] + p[2]]
           pick == [s \in SUBSET S |-> CHOOSE x \in s : TRUE]
<1>1. IsStep(G, S, Int) /\ 0 \in Int
  BY DEF IsStep
<1>2. \A x \in S, v \in Int : G[<<x, v>>] = h[x] + v
  OBVIOUS
<1>3. Commutes(G, S, Int)
  BY <1>2 DEF Commutes
<1>4. Picks(pick, S) /\ \A s \in SUBSET S : pick[s] = CHOOSE x \in s : TRUE
  BY DEF Picks
<1> HIDE DEF G, pick
<1>5. PICK f : IsFold(f, S, Int, 0, G, pick)
  BY <1>1, <1>4, FoldExists
<1>6. \A A \in SUBSET S : \A x \in A : f[A] = G[<<x, f[A \ {x}]>>]
  BY <1>1, <1>3, <1>4, <1>5, FoldAnyFirst
<1>7. f \in [SUBSET S -> Int] /\ f[{}] = 0
  BY <1>5 DEF IsFold
<1>8. \A A \in SUBSET S : \A x \in A : f[A] = h[x] + f[A \ {x}]
  BY <1>2, <1>6, <1>7
<1>9. \A s \in SUBSET S : f[s] = IF s = {} THEN 0
                          ELSE LET x == CHOOSE x \in s : TRUE IN h[x] + f[s \ {x}]
  BY <1>7, <1>8
<1>10. IsSum(f, S, h)
  BY <1>7, <1>9 DEF IsSum
<1> QED BY <1>7, <1>8, <1>10 DEF IsAdditive

LEMMA SumIs ==
  ASSUME NEW S, IsFiniteSet(S), NEW h, \A x \in S : h[x] \in Int,
         NEW f, IsSum(f, S, h)
  PROVE  \A A \in SUBSET S : SumFunctionOnSet(h, A) = f[A]
<1> SUFFICES ASSUME NEW A \in SUBSET S PROVE SumFunctionOnSet(h, A) = f[A]
  OBVIOUS
<1>1. IsFiniteSet(A)
  BY FS_Subset
<1>2. \E g : IsSum(g, A, h)
  BY <1>1, SumByParts
<1>3. SumFunctionOnSet(h, A) = (CHOOSE g : IsSum(g, A, h))[A]
  BY DEF SumFunctionOnSet, FoldFunctionOnSet, MapThenFoldSet, IsSum
<1>4. IsSum(CHOOSE g : IsSum(g, A, h), A, h)
  BY <1>2
<1> QED BY <1>1, <1>3, <1>4, SumAgrees

\* A sum over part of a finite set S of integers, one element at a time.
LEMMA SumSteps ==
  ASSUME NEW S, IsFiniteSet(S), NEW h \in [S -> Int]
  PROVE  /\ \A A \in SUBSET S : SumFunctionOnSet(h, A) \in Int
         /\ SumFunctionOnSet(h, {}) = 0
         /\ \A A \in SUBSET S : \A x \in A :
              SumFunctionOnSet(h, A) = h[x] + SumFunctionOnSet(h, A \ {x})
         /\ \A A \in SUBSET S : \A x \in S \ A :
              SumFunctionOnSet(h, A \cup {x}) = h[x] + SumFunctionOnSet(h, A)
<1>1. PICK f : IsSum(f, S, h) /\ IsAdditive(f, S, h)
  BY SumByParts
<1>2. \A A \in SUBSET S : SumFunctionOnSet(h, A) = f[A]
  BY <1>1, SumIs
<1>3. \A A \in SUBSET S : \A x \in A : A \ {x} \in SUBSET S
  OBVIOUS
<1>4. \A A \in SUBSET S : \A x \in A :
              SumFunctionOnSet(h, A) = h[x] + SumFunctionOnSet(h, A \ {x})
  BY <1>1, <1>2, <1>3 DEF IsAdditive
<1>5. ASSUME NEW A \in SUBSET S, NEW x \in S \ A
      PROVE  SumFunctionOnSet(h, A \cup {x}) = h[x] + SumFunctionOnSet(h, A)
  <2>1. A \cup {x} \in SUBSET S /\ x \in A \cup {x} /\ (A \cup {x}) \ {x} = A
    OBVIOUS
  <2> QED BY <1>4, <2>1
<1>6. SumFunctionOnSet(h, {}) = 0 /\ \A A \in SUBSET S : SumFunctionOnSet(h, A) \in Int
  BY <1>1, <1>2 DEF IsAdditive
<1> QED BY <1>4, <1>5, <1>6

\* The sum of zeros, of two functions added up, and of multiples.
LEMMA SumZero ==
  ASSUME NEW S, IsFiniteSet(S), NEW f \in [S -> Int], \A x \in S : f[x] = 0
  PROVE  SumFunctionOnSet(f, S) = 0
<1> DEFINE T == {A \in SUBSET S : SumFunctionOnSet(f, A) = 0}
<1>1. {} \in T
  BY SumSteps
<1>2. ASSUME NEW A \in SUBSET S, NEW x \in S \ A, A \in T PROVE A \cup {x} \in T
  BY <1>2, SumSteps
<1>3. S \in T
  <2> HIDE DEF T
  <2> QED BY <1>1, <1>2, SetBySteps
<1> QED BY <1>3

LEMMA SumPlus ==
  ASSUME NEW S, IsFiniteSet(S), NEW f \in [S -> Int], NEW g \in [S -> Int],
         NEW h \in [S -> Int], \A x \in S : f[x] = g[x] + h[x]
  PROVE  SumFunctionOnSet(f, S) = SumFunctionOnSet(g, S) + SumFunctionOnSet(h, S)
<1> DEFINE T == {A \in SUBSET S : SumFunctionOnSet(f, A)
                   = SumFunctionOnSet(g, A) + SumFunctionOnSet(h, A)}
<1>1. {} \in T
  BY SumSteps
<1>2. ASSUME NEW A \in SUBSET S, NEW x \in S \ A, A \in T PROVE A \cup {x} \in T
  <2>1. /\ SumFunctionOnSet(f, A \cup {x}) = f[x] + SumFunctionOnSet(f, A)
        /\ SumFunctionOnSet(g, A \cup {x}) = g[x] + SumFunctionOnSet(g, A)
        /\ SumFunctionOnSet(h, A \cup {x}) = h[x] + SumFunctionOnSet(h, A)
        /\ SumFunctionOnSet(g, A) \in Int
        /\ SumFunctionOnSet(h, A) \in Int
    BY SumSteps
  <2>2. f[x] = g[x] + h[x] /\ g[x] \in Int /\ h[x] \in Int
    OBVIOUS
  <2> QED BY <1>2, <2>1, <2>2
<1>3. S \in T
  <2> HIDE DEF T
  <2> QED BY <1>1, <1>2, SetBySteps
<1> QED BY <1>3

LEMMA SumTimes ==
  ASSUME NEW S, IsFiniteSet(S), NEW f \in [S -> Int], NEW g \in [S -> Int],
         NEW a \in Int, \A x \in S : f[x] = a * g[x]
  PROVE  SumFunctionOnSet(f, S) = a * SumFunctionOnSet(g, S)
<1> DEFINE T == {A \in SUBSET S : SumFunctionOnSet(f, A) = a * SumFunctionOnSet(g, A)}
<1>1. {} \in T
  BY SumSteps
<1>2. ASSUME NEW A \in SUBSET S, NEW x \in S \ A, A \in T PROVE A \cup {x} \in T
  <2>1. PICK G \in Int, v \in Int : G = SumFunctionOnSet(g, A) /\ v = g[x]
    BY SumSteps
  <2>2. /\ SumFunctionOnSet(f, A \cup {x}) = f[x] + SumFunctionOnSet(f, A)
        /\ SumFunctionOnSet(g, A \cup {x}) = v + G
    BY <2>1, SumSteps
  <2>3. f[x] = a * v /\ SumFunctionOnSet(f, A) = a * G
    BY <1>2, <2>1
  <2>4. a * v + a * G = a * (v + G)
    OBVIOUS
  <2> QED BY <2>2, <2>3, <2>4
<1>3. S \in T
  <2> HIDE DEF T
  <2> QED BY <1>1, <1>2, SetBySteps
<1> QED BY <1>3

\* Functions that agree on a set have the same sum over it.
LEMMA SumSame ==
  ASSUME NEW S, NEW R, NEW A, IsFiniteSet(S), IsFiniteSet(R), A \subseteq S, A \subseteq R,
         NEW g \in [S -> Int], NEW h \in [R -> Int], \A x \in A : g[x] = h[x]
  PROVE  SumFunctionOnSet(g, A) = SumFunctionOnSet(h, A)
<1>1. PICK e : IsSum(e, S, g)
  BY SumByParts
<1>2. PICK f : IsSum(f, R, h)
  BY SumByParts
<1>3. IsFiniteSet(A)
  BY FS_Subset
<1>4. e[A] = f[A]
  BY <1>1, <1>2, <1>3, SumAgrees
<1>5. SumFunctionOnSet(g, A) = e[A] /\ SumFunctionOnSet(h, A) = f[A]
  BY <1>1, <1>2, SumIs
<1> QED BY <1>4, <1>5

\* A sum over other names of the same elements.
LEMMA SumRenamed ==
  ASSUME NEW S, IsFiniteSet(S), NEW R, IsFiniteSet(R), NEW g \in [S -> Int],
         NEW h \in [R -> Int], NEW name \in [S -> R],
         \A x, y \in S : name[x] = name[y] => x = y,
         \A z \in R : \E x \in S : name[x] = z,
         \A x \in S : g[x] = h[name[x]]
  PROVE  SumFunctionOnSet(g, S) = SumFunctionOnSet(h, R)
<1> DEFINE Named(A) == {name[x] : x \in A}
           T == {A \in SUBSET S : SumFunctionOnSet(g, A) = SumFunctionOnSet(h, Named(A))}
<1>1. {} \in T
  <2>1. Named({}) = {}
    OBVIOUS
  <2> QED BY <2>1, SumSteps
<1>2. ASSUME NEW A \in SUBSET S, NEW x \in S \ A, A \in T PROVE A \cup {x} \in T
  <2>1. /\ Named(A) \in SUBSET R
        /\ name[x] \in R \ Named(A)
        /\ Named(A \cup {x}) = Named(A) \cup {name[x]}
    OBVIOUS
  <2>2. SumFunctionOnSet(h, Named(A) \cup {name[x]})
          = h[name[x]] + SumFunctionOnSet(h, Named(A))
    <3> HIDE DEF Named
    <3> QED BY <2>1, SumSteps
  <2>3. SumFunctionOnSet(g, A \cup {x}) = g[x] + SumFunctionOnSet(g, A)
    BY SumSteps
  <2> QED BY <1>2, <2>1, <2>2, <2>3
<1>3. S \in T
  <2> HIDE DEF T
  <2> QED BY <1>1, <1>2, SetBySteps
<1>4. Named(S) = R
  OBVIOUS
<1> QED BY <1>3, <1>4

\* The order of two sums does not matter.
LEMMA SumSwap ==
  ASSUME NEW S, IsFiniteSet(S), NEW R, IsFiniteSet(R), NEW h \in [S \X R -> Int]
  PROVE  SumFunctionOnSet([x \in S |-> SumFunctionOnSet([y \in R |-> h[<<x, y>>]], R)], S)
           = SumFunctionOnSet([y \in R |-> SumFunctionOnSet([x \in S |-> h[<<x, y>>]], S)], R)
<1> DEFINE row == [x \in S |-> SumFunctionOnSet([y \in R |-> h[<<x, y>>]], R)]
           col(A) == [y \in R |-> SumFunctionOnSet([x \in S |-> h[<<x, y>>]], A)]
           T == {A \in SUBSET S : SumFunctionOnSet(row, A) = SumFunctionOnSet(col(A), R)}
<1>1. \A x \in S : [y \in R |-> h[<<x, y>>]] \in [R -> Int]
  OBVIOUS
<1>2. \A y \in R : [x \in S |-> h[<<x, y>>]] \in [S -> Int]
  OBVIOUS
<1>3. row \in [S -> Int]
  BY <1>1, SumSteps
<1>4. \A A \in SUBSET S : col(A) \in [R -> Int]
  BY <1>2, SumSteps
<1>5. {} \in T
  <2>1. SumFunctionOnSet(row, {}) = 0
    BY <1>3, SumSteps
  <2>2. ASSUME NEW y \in R PROVE col({})[y] = 0
    <3>1. SumFunctionOnSet([x \in S |-> h[<<x, y>>]], {}) = 0
      BY <1>2, SumSteps
    <3> QED BY <3>1
  <2>3. {} \in SUBSET S /\ 0 \in Int
    OBVIOUS
  <2>4. SumFunctionOnSet(col({}), R) = 0
    <3> HIDE DEF col
    <3> QED BY <1>4, <2>2, <2>3, SumZero
  <2> QED BY <2>1, <2>3, <2>4
<1>6. ASSUME NEW A \in SUBSET S, NEW x \in S \ A, A \in T PROVE A \cup {x} \in T
  <2> DEFINE line == [y \in R |-> h[<<x, y>>]]
  <2>1. A \cup {x} \in SUBSET S
    OBVIOUS
  <2>2. ASSUME NEW y \in R PROVE col(A \cup {x})[y] = line[y] + col(A)[y]
    <3>1. PICK f \in [S -> Int] : f = [z \in S |-> h[<<z, y>>]]
      BY <1>2
    <3>2. SumFunctionOnSet(f, A \cup {x}) = f[x] + SumFunctionOnSet(f, A)
      BY SumSteps
    <3>3. f[x] = line[y]
      BY <3>1
    <3>4. col(A \cup {x})[y] = SumFunctionOnSet(f, A \cup {x}) /\ col(A)[y] = SumFunctionOnSet(f, A)
      BY <3>1
    <3> QED BY <3>2, <3>3, <3>4
  <2>3. line \in [R -> Int]
    OBVIOUS
  <2>4. row[x] = SumFunctionOnSet(line, R)
    OBVIOUS
  <2>5. col(A \cup {x}) \in [R -> Int] /\ col(A) \in [R -> Int]
    BY <1>4, <2>1
  <2>6. SumFunctionOnSet(col(A \cup {x}), R)
          = SumFunctionOnSet(line, R) + SumFunctionOnSet(col(A), R)
    <3>1. PICK f \in [R -> Int], g \in [R -> Int], k \in [R -> Int] :
            f = col(A \cup {x}) /\ g = line /\ k = col(A)
      BY <2>3, <2>5
    <3>2. \A y \in R : f[y] = g[y] + k[y]
      BY <2>2, <3>1
    <3>3. SumFunctionOnSet(f, R) = SumFunctionOnSet(g, R) + SumFunctionOnSet(k, R)
      BY <3>2, SumPlus
    <3> HIDE DEF col, line
    <3> QED BY <3>1, <3>3
  <2>7. SumFunctionOnSet(row, A \cup {x}) = row[x] + SumFunctionOnSet(row, A)
    <3> HIDE DEF row
    <3> QED BY <1>3, SumSteps
  <2>8. SumFunctionOnSet(row, A) = SumFunctionOnSet(col(A), R)
    BY <1>6
  <2> HIDE DEF row, col, line
  <2> QED BY <2>1, <2>4, <2>6, <2>7, <2>8
<1>7. S \in T
  <2> HIDE DEF T
  <2> QED BY <1>5, <1>6, SetBySteps
<1> QED BY <1>7

------------------------------------------------------------------------------
\* Arithmetic modulo P.  Two numbers are the same modulo P when P divides their
\* difference.
Divides(a) == \E k \in Int : a = P * k

LEMMA PrimeIsLarge == P \in Nat /\ P >= 2
BY SharesAssumption

LEMMA Remainder ==
  ASSUME NEW a \in Int
  PROVE  a % P \in Field /\ a % P \in Int /\ Divides(a - (a % P))
<1>1. a % P \in 0 .. P - 1 /\ a = P * (a \div P) + (a % P) /\ a \div P \in Int
  BY PrimeIsLarge
<1>2. a - (a % P) = P * (a \div P)
  BY <1>1, PrimeIsLarge
<1> QED BY <1>1, <1>2 DEF Divides, Field

LEMMA DividesPlus ==
  ASSUME NEW a \in Int, NEW b \in Int, Divides(a), Divides(b)
  PROVE  Divides(a + b) /\ Divides(a - b)
<1>1. PICK j \in Int, k \in Int : a = P * j /\ b = P * k
  BY DEF Divides
<1>2. j + k \in Int /\ j - k \in Int
  OBVIOUS
<1>3. a + b = P * (j + k) /\ a - b = P * (j - k)
  BY <1>1, PrimeIsLarge
<1> QED BY <1>2, <1>3 DEF Divides

LEMMA DividesTimes ==
  ASSUME NEW a \in Int, NEW b \in Int, Divides(a)
  PROVE  Divides(a * b) /\ Divides(b * a)
<1>1. PICK j \in Int : a = P * j
  BY DEF Divides
<1>2. PICK n \in Int : n = j * b
  OBVIOUS
<1>3. (P * j) * b = P * (j * b)
  BY PrimeIsLarge
<1>4. a * b = P * n /\ b * a = P * n
  BY <1>1, <1>2, <1>3
<1> QED BY <1>4 DEF Divides

LEMMA DividesSmall ==
  ASSUME NEW a \in Int, -P < a, a < P, Divides(a)
  PROVE  a = 0
<1>1. PICK j \in Int : a = P * j
  BY DEF Divides
<1>2. CASE j >= 1
  <2>1. P * j >= P * 1
    BY <1>2, PrimeIsLarge
  <2> QED BY <1>1, <2>1, PrimeIsLarge
<1>3. CASE j <= -1
  <2>1. P * j <= P * (-1)
    BY <1>3, PrimeIsLarge
  <2> QED BY <1>1, <2>1, PrimeIsLarge
<1>4. CASE j = 0
  BY <1>1, <1>4, PrimeIsLarge
<1> QED BY <1>2, <1>3, <1>4

\* The same modulo P: a number of the field, and equal remainders.
LEMMA SameInField ==
  ASSUME NEW a \in Field, NEW b \in Field, Divides(a - b)
  PROVE  a = b
<1>1. a \in Int /\ b \in Int /\ a - b \in Int /\ -P < a - b /\ a - b < P
  BY PrimeIsLarge DEF Field
<1>2. a - b = 0
  BY <1>1, DividesSmall
<1> QED BY <1>1, <1>2

LEMMA SameRemainder ==
  ASSUME NEW a \in Int, NEW b \in Int
  PROVE  Divides(a - b) <=> a % P = b % P
<1>1. PICK u \in Int, v \in Int : u = a % P /\ v = b % P
  BY Remainder
<1>2. Divides(a - u) /\ Divides(b - v) /\ u \in Field /\ v \in Field
  BY <1>1, Remainder
<1>3. Divides((a - u) - (b - v))
  BY <1>2, DividesPlus
<1>4. ASSUME Divides(a - b) PROVE u = v
  <2>1. Divides((a - b) - ((a - u) - (b - v)))
    BY <1>3, <1>4, DividesPlus
  <2>2. (a - b) - ((a - u) - (b - v)) = u - v
    OBVIOUS
  <2> QED BY <2>1, <2>2, <1>2, SameInField
<1>5. ASSUME u = v PROVE Divides(a - b)
  <2>1. (a - u) - (b - v) = a - b
    BY <1>5
  <2> QED BY <1>3, <2>1
<1> QED BY <1>1, <1>4, <1>5

LEMMA FieldRemainder ==
  ASSUME NEW a \in Field
  PROVE  a \in Int /\ a % P = a
<1>1. a \in Int
  BY PrimeIsLarge DEF Field
<1>2. a % P \in Field /\ Divides(a - (a % P))
  BY <1>1, Remainder
<1> QED BY <1>1, <1>2, SameInField

\* Every number that P does not divide has an inverse: the least one without
\* would have a smaller one without, the remainder of P by it.
LEMMA InverseExists ==
  ASSUME NEW a \in Int, ~ Divides(a)
  PROVE  \E b \in Int : Divides(a * b - 1)
<1> DEFINE T == {m \in 1 .. P - 1 : ~ \E b \in Int : Divides(m * b - 1)}
<1>1. T = {}
  <2> SUFFICES ASSUME T # {} PROVE FALSE
    OBVIOUS
  <2>1. T \subseteq Nat
    BY PrimeIsLarge
  <2> HIDE DEF T
  <2>2. PICK m \in T : \A n \in T : m <= n
    BY <2>1, LeastNatural
  <2> USE DEF T
  <2>3. m \in 1 .. P - 1 /\ m \in Int /\ ~ \E b \in Int : Divides(m * b - 1)
    BY <2>2, PrimeIsLarge
  <2>4. m # 1
    <3> SUFFICES ASSUME m = 1 PROVE FALSE
      OBVIOUS
    <3>1. m * 1 - 1 = P * 0 /\ 0 \in Int /\ 1 \in Int
      BY PrimeIsLarge
    <3>2. Divides(m * 1 - 1)
      BY <3>1 DEF Divides
    <3> QED BY <2>3, <3>1, <3>2
  <2>5. P % m # 0
    <3>1. m \in 2 .. P - 1
      BY <2>3, <2>4, PrimeIsLarge
    <3> QED BY <3>1, SharesAssumption
  <2>e. /\ P % m \in 0 .. m - 1 /\ P = m * (P \div m) + (P % m)
        /\ P \div m \in Int /\ P % m \in Int
    BY <2>3, PrimeIsLarge
  <2>f. PICK q \in Int, r \in Int : q = P \div m /\ r = P % m
    BY <2>e
  <2>6. P = m * q + r /\ 0 <= r /\ r < m /\ r = P % m
    BY <2>e, <2>f, <2>3
  <2>7. r \in 1 .. P - 1 /\ ~ (m <= r)
    BY <2>3, <2>5, <2>6, PrimeIsLarge
  <2>8. r \notin T
    <3> HIDE DEF T
    <3> QED BY <2>2, <2>7
  <2>9. PICK b \in Int : Divides(r * b - 1)
    BY <2>7, <2>8
  <2>10. Divides(P * b)
    BY PrimeIsLarge DEF Divides
  <2>11. Divides((r * b - 1) - P * b)
    BY <2>9, <2>10, DividesPlus, PrimeIsLarge
  <2>12. (r * b - 1) - P * b = m * (-(q * b)) - 1
    <3>1. (r * b - 1) - (m * q + r) * b = m * (-(q * b)) - 1
      BY <2>3
    <3> QED BY <2>6, <3>1
  <2>13. -(q * b) \in Int
    OBVIOUS
  <2> QED BY <2>3, <2>11, <2>12, <2>13
<1>2. PICK r \in Int : r = a % P /\ r \in Field /\ Divides(a - r)
  BY Remainder
<1>3. r # 0
  BY <1>2
<1>4. r \in 1 .. P - 1
  BY <1>2, <1>3, PrimeIsLarge DEF Field
<1>5. PICK b \in Int : Divides(r * b - 1)
  BY <1>1, <1>4
<1>6. Divides((a - r) * b)
  BY <1>2, DividesTimes
<1>7. Divides((a - r) * b + (r * b - 1))
  BY <1>5, <1>6, DividesPlus
<1>8. (a - r) * b + (r * b - 1) = a * b - 1
  OBVIOUS
<1> QED BY <1>7, <1>8

LEMMA DividesFactor ==
  ASSUME NEW a \in Int, NEW b \in Int, Divides(a * b), ~ Divides(a)
  PROVE  Divides(b)
<1>1. PICK c \in Int : Divides(a * c - 1)
  BY InverseExists
<1>t. a * b \in Int /\ a * c - 1 \in Int /\ (a * b) * c \in Int /\ (a * c - 1) * b \in Int
  OBVIOUS
<1>2. Divides((a * b) * c) /\ Divides((a * c - 1) * b)
  BY <1>1, <1>t, DividesTimes
<1>3. Divides((a * b) * c - (a * c - 1) * b)
  BY <1>2, <1>t, DividesPlus
<1>4. (a * b) * c - (a * c - 1) * b = b
  OBVIOUS
<1> QED BY <1>3, <1>4

\* ModInverse gives an inverse of every number but 0.
LEMMA ModInverseInverts ==
  ASSUME NEW a \in Field, a # 0
  PROVE  ModInverse(a) \in Field /\ ModInverse(a) \in Int /\ Divides(a * ModInverse(a) - 1)
<1>1. a \in Int /\ ~ Divides(a)
  <2>1. a \in Int /\ a - 0 = a /\ 0 \in Field
    BY PrimeIsLarge DEF Field
  <2> QED BY <2>1, SameInField
<1>2. PICK c \in Int : Divides(a * c - 1)
  BY <1>1, InverseExists
<1>3. PICK b \in Int : b = c % P /\ b \in Field /\ Divides(c - b)
  BY Remainder
<1>4. Divides((c - b) * a) /\ (a * c - 1) - (c - b) * a = a * b - 1
  BY <1>1, <1>3, DividesTimes
<1>5. Divides(a * b - 1)
  <2>1. a * c - 1 \in Int /\ (c - b) * a \in Int
    BY <1>1
  <2> QED BY <1>2, <1>4, <2>1, DividesPlus
<1>6. \A d \in Field : Divides(a * d - 1) <=> (a * d) % P = 1
  <2> SUFFICES ASSUME NEW d \in Field PROVE Divides(a * d - 1) <=> (a * d) % P = 1
    OBVIOUS
  <2>1. d \in Int /\ a * d \in Int
    BY <1>1, FieldRemainder
  <2>2. 1 \in Field
    BY PrimeIsLarge DEF Field
  <2>3. 1 % P = 1
    BY <2>2, FieldRemainder
  <2>4. 1 \in Int
    OBVIOUS
  <2>5. Divides(a * d - 1) <=> (a * d) % P = 1 % P
    BY <2>1, <2>4, SameRemainder
  <2> QED BY <2>3, <2>5
<1>7. (a * ModInverse(a)) % P = 1 /\ ModInverse(a) \in Field
  BY <1>3, <1>5, <1>6 DEF ModInverse
<1> QED BY <1>6, <1>7, FieldRemainder

\* Sums modulo P: term by term.
LEMMA DividesSum ==
  ASSUME NEW S, IsFiniteSet(S), NEW h \in [S -> Int], \A x \in S : Divides(h[x])
  PROVE  Divides(SumFunctionOnSet(h, S))
<1> DEFINE T == {A \in SUBSET S : Divides(SumFunctionOnSet(h, A))}
<1>1. {} \in T
  <2>1. 0 = P * 0 /\ 0 \in Int
    BY PrimeIsLarge
  <2>2. Divides(0)
    BY <2>1 DEF Divides
  <2> QED BY <2>2, SumSteps
<1>2. ASSUME NEW A \in SUBSET S, NEW x \in S \ A, A \in T PROVE A \cup {x} \in T
  <2>1. /\ SumFunctionOnSet(h, A \cup {x}) = h[x] + SumFunctionOnSet(h, A)
        /\ SumFunctionOnSet(h, A) \in Int
    BY SumSteps
  <2>2. Divides(SumFunctionOnSet(h, A)) /\ Divides(h[x]) /\ h[x] \in Int
    BY <1>2
  <2>3. Divides(h[x] + SumFunctionOnSet(h, A))
    BY <2>1, <2>2, DividesPlus
  <2> QED BY <2>1, <2>3
<1>3. S \in T
  <2> HIDE DEF T
  <2> QED BY <1>1, <1>2, SetBySteps
<1> QED BY <1>3

LEMMA SumModulo ==
  ASSUME NEW S, IsFiniteSet(S), NEW f \in [S -> Int], NEW g \in [S -> Int],
         \A x \in S : Divides(f[x] - g[x])
  PROVE  Divides(SumFunctionOnSet(f, S) - SumFunctionOnSet(g, S))
<1>0. [x \in S |-> f[x] - g[x]] \in [S -> Int]
  OBVIOUS
<1>1. PICK d \in [S -> Int] : d = [x \in S |-> f[x] - g[x]]
  BY <1>0
<1>2. \A x \in S : f[x] = d[x] + g[x]
  BY <1>1
<1>3. SumFunctionOnSet(f, S) = SumFunctionOnSet(d, S) + SumFunctionOnSet(g, S)
  BY <1>2, SumPlus
<1>4. Divides(SumFunctionOnSet(d, S))
  BY <1>1, DividesSum
<1>5. SumFunctionOnSet(d, S) \in Int /\ SumFunctionOnSet(g, S) \in Int
  BY SumSteps
<1>6. SumFunctionOnSet(f, S) - SumFunctionOnSet(g, S) = SumFunctionOnSet(d, S)
  BY <1>3, <1>5
<1> QED BY <1>4, <1>6

\* The function of the fold of a product, and that it depends on the factors
\* only.
IsProduct(f, S, h) ==
  f = [s \in SUBSET S |-> IF s = {} THEN 1
                          ELSE LET x == CHOOSE x \in s : TRUE
                               IN  (f[s \ {x}] * h[x]) % P]

LEMMA ProductAgrees ==
  ASSUME NEW S, NEW R, NEW A, IsFiniteSet(A), A \subseteq S, A \subseteq R, NEW g, NEW h,
         \A x \in A : g[x] = h[x],
         NEW e, IsProduct(e, S, g), NEW f, IsProduct(f, R, h)
  PROVE  e[A] = f[A]
<1> DEFINE T == {B \in SUBSET A : e[B] # f[B]}
<1> SUFFICES ASSUME T # {} PROVE FALSE
  OBVIOUS
<1>1. T \subseteq SUBSET A
  OBVIOUS
<1> HIDE DEF T
<1>2. PICK B \in T : \A C \in T : ~ (C \subseteq B /\ C # B)
  BY <1>1, SmallestSubset
<1> USE DEF T
<1> DEFINE c == CHOOSE y \in B : TRUE
<1>3. B \in SUBSET S /\ B \in SUBSET R
  OBVIOUS
<1>4. B # {}
  BY <1>3 DEF IsProduct
<1>5. c \in B
  BY <1>4
<1>6. e[B] = (e[B \ {c}] * g[c]) % P /\ f[B] = (f[B \ {c}] * h[c]) % P
  BY <1>3, <1>4 DEF IsProduct
<1> HIDE DEF c
<1>7. e[B \ {c}] = f[B \ {c}]
  BY <1>2, <1>5
<1>8. g[c] = h[c]
  BY <1>5
<1> QED BY <1>6, <1>7, <1>8

IsMultiplicative(f, S, h) ==
  /\ f \in [SUBSET S -> Int]
  /\ f[{}] = 1
  /\ \A A \in SUBSET S : \A x \in A : f[A] = (f[A \ {x}] * h[x]) % P

LEMMA ProductByParts ==
  ASSUME NEW S, IsFiniteSet(S), NEW h \in [S -> Int]
  PROVE  \E f : IsProduct(f, S, h) /\ IsMultiplicative(f, S, h)
<1> DEFINE G == [p \in S \X Int |-> (p[2] * h[p[1]]) % P]
           pick == [s \in SUBSET S |-> CHOOSE x \in s : TRUE]
<1>1. IsStep(G, S, Int) /\ 1 \in Int
  <2> SUFFICES ASSUME NEW p \in S \X Int PROVE (p[2] * h[p[1]]) % P \in Int
    BY DEF IsStep
  <2>1. p[2] * h[p[1]] \in Int
    OBVIOUS
  <2> QED BY <2>1, Remainder
<1>2. \A x \in S, v \in Int : G[<<x, v>>] = (v * h[x]) % P
  OBVIOUS
<1>3. Commutes(G, S, Int)
  <2> SUFFICES ASSUME NEW x \in S, NEW y \in S, NEW v \in Int
               PROVE  G[<<x, G[<<y, v>>]>>] = G[<<y, G[<<x, v>>]>>]
    BY DEF Commutes
  <2>1. PICK a \in Int, b \in Int : a = h[x] /\ b = h[y]
    OBVIOUS
  <2>2. PICK c \in Int, d \in Int : c = (v * a) % P /\ d = (v * b) % P
    BY Remainder
  <2>3. v * a \in Int /\ v * b \in Int /\ (v * a) * b \in Int /\ (v * b) * a \in Int
    OBVIOUS
  <2>4. Divides(v * a - c) /\ Divides(v * b - d) /\ v * a - c \in Int /\ v * b - d \in Int
    BY <2>2, <2>3, Remainder
  <2>5. Divides((v * a - c) * b) /\ Divides((v * b - d) * a)
    BY <2>4, DividesTimes
  <2>6. Divides((v * a - c) * b - (v * b - d) * a)
    <3>1. (v * a - c) * b \in Int /\ (v * b - d) * a \in Int
      OBVIOUS
    <3> QED BY <2>5, <3>1, DividesPlus
  <2>7. (v * a - c) * b - (v * b - d) * a = d * a - c * b
    OBVIOUS
  <2>8. (d * a) % P = (c * b) % P
    BY <2>6, <2>7, SameRemainder
  <2>9. G[<<y, v>>] = d /\ G[<<x, v>>] = c /\ G[<<x, d>>] = (d * a) % P /\ G[<<y, c>>] = (c * b) % P
    BY <1>2, <2>1, <2>2
  <2> QED BY <2>8, <2>9
<1>4. Picks(pick, S) /\ \A s \in SUBSET S : pick[s] = CHOOSE x \in s : TRUE
  BY DEF Picks
<1> HIDE DEF G, pick
<1>5. PICK f : IsFold(f, S, Int, 1, G, pick)
  BY <1>1, <1>4, FoldExists
<1>6. \A A \in SUBSET S : \A x \in A : f[A] = G[<<x, f[A \ {x}]>>]
  <2> DEFINE V == Int
             one == 1
  <2>1. IsStep(G, S, V) /\ one \in V /\ Commutes(G, S, V) /\ IsFold(f, S, V, one, G, pick)
    BY <1>1, <1>3, <1>5
  <2> HIDE DEF V, one
  <2> QED BY <2>1, <1>4, FoldAnyFirst
<1>7. f \in [SUBSET S -> Int] /\ f[{}] = 1
  BY <1>5 DEF IsFold
<1>8. \A A \in SUBSET S : \A x \in A : f[A] = (f[A \ {x}] * h[x]) % P
  BY <1>2, <1>6, <1>7
<1>9. \A s \in SUBSET S : f[s] = IF s = {} THEN 1
                          ELSE LET x == CHOOSE x \in s : TRUE IN (f[s \ {x}] * h[x]) % P
  BY <1>7, <1>8
<1>10. IsProduct(f, S, h)
  BY <1>7, <1>9 DEF IsProduct
<1> QED BY <1>7, <1>8, <1>10 DEF IsMultiplicative

LEMMA ProductIs ==
  ASSUME NEW S, IsFiniteSet(S), NEW h \in [S -> Int], NEW f, IsProduct(f, S, h),
         NEW A \in SUBSET S, NEW g \in [A -> Int], \A x \in A : g[x] = h[x]
  PROVE  Product(g) = f[A]
<1>1. IsFiniteSet(A) /\ DOMAIN g = A
  BY FS_Subset
<1>2. \E e : IsProduct(e, A, g)
  BY <1>1, ProductByParts
<1>3. Product(g) = (CHOOSE e : IsProduct(e, A, g))[A]
  BY <1>1 DEF Product, FoldFunction, FoldFunctionOnSet, MapThenFoldSet, IsProduct
<1>4. IsProduct(CHOOSE e : IsProduct(e, A, g), A, g)
  BY <1>2
<1> QED BY <1>1, <1>3, <1>4, ProductAgrees

\* A product, one factor at a time.
LEMMA ProductSteps ==
  ASSUME NEW S, IsFiniteSet(S), NEW h \in [S -> Int]
  PROVE  /\ Product(h) \in Field /\ Product(h) \in Int
         /\ S = {} => Product(h) = 1
         /\ \A x \in S : \A g \in [S \ {x} -> Int] :
              (\A y \in S \ {x} : g[y] = h[y]) => Divides(Product(h) - Product(g) * h[x])
<1>1. PICK f : IsProduct(f, S, h) /\ IsMultiplicative(f, S, h)
  BY ProductByParts
<1>2. Product(h) = f[S]
  BY <1>1, ProductIs
<1>3. S = {} => Product(h) = 1
  BY <1>1, <1>2 DEF IsMultiplicative
<1>4. \A x \in S : f[S] = (f[S \ {x}] * h[x]) % P /\ f[S \ {x}] \in Int
  BY <1>1 DEF IsMultiplicative
<1>5. Product(h) \in Field
  <2>1. CASE S = {}
    BY <2>1, <1>3, PrimeIsLarge DEF Field
  <2>2. CASE S # {}
    <3>1. PICK x : x \in S
      BY <2>2
    <3>2. f[S \ {x}] * h[x] \in Int
      BY <1>4, <3>1
    <3> QED BY <1>2, <1>4, <3>1, <3>2, Remainder
  <2> QED BY <2>1, <2>2
<1>6. ASSUME NEW x \in S, NEW g \in [S \ {x} -> Int], \A y \in S \ {x} : g[y] = h[y]
      PROVE  Divides(Product(h) - Product(g) * h[x])
  <2>1. PICK A \in SUBSET S : A = S \ {x}
    OBVIOUS
  <2>2. Product(g) = f[A]
    BY <1>1, <1>6, <2>1, ProductIs
  <2>3. PICK a \in Int, b \in Int, c \in Int : a = f[S \ {x}] /\ b = h[x] /\ c = (a * b) % P
    <3>1. PICK a \in Int, b \in Int : a = f[S \ {x}] /\ b = h[x]
      BY <1>4
    <3>2. (a * b) % P \in Int
      BY Remainder
    <3> QED BY <3>1, <3>2
  <2>4. Divides(a * b - c)
    BY <2>3, Remainder
  <2>5. Divides((a * b - c) * (-1))
    BY <2>4, DividesTimes
  <2>6. (a * b - c) * (-1) = c - a * b
    OBVIOUS
  <2> QED BY <1>2, <1>4, <2>1, <2>2, <2>3, <2>5, <2>6
<1> QED BY <1>3, <1>5, <1>6, FieldRemainder

LEMMA ProductNonzero ==
  ASSUME NEW S, IsFiniteSet(S), NEW h \in [S -> Int], \A x \in S : ~ Divides(h[x])
  PROVE  ~ Divides(Product(h))
<1> DEFINE part(A) == [x \in A |-> h[x]]
           T == {A \in SUBSET S : ~ Divides(Product(part(A)))}
<1>1. {} \in T
  <2>1. Product(part({})) = 1
    <3>1. part({}) \in [{} -> Int] /\ IsFiniteSet({})
      BY FS_EmptySet
    <3> HIDE DEF part
    <3> QED BY <3>1, ProductSteps
  <2>2. 1 \in Int /\ 1 # 0 /\ -P < 1 /\ 1 < P
    BY PrimeIsLarge
  <2> QED BY <2>1, <2>2, DividesSmall
<1>2. ASSUME NEW A \in SUBSET S, NEW x \in S \ A, A \in T PROVE A \cup {x} \in T
  <2> DEFINE B == A \cup {x}
  <2>1. part(B) \in [B -> Int] /\ part(A) \in [A -> Int] /\ IsFiniteSet(B) /\ IsFiniteSet(A)
    BY FS_Subset
  <2>2. B \ {x} = A /\ x \in B /\ \A y \in B \ {x} : part(A)[y] = part(B)[y]
    OBVIOUS
  <2>3. Divides(Product(part(B)) - Product(part(A)) * part(B)[x])
    <3> HIDE DEF part, B
    <3> QED BY <2>1, <2>2, ProductSteps
  <2>4. PICK b \in Int, a \in Int, u \in Int :
          b = Product(part(B)) /\ a = Product(part(A)) /\ u = part(B)[x]
    <3>1. part(B)[x] \in Int
      OBVIOUS
    <3> HIDE DEF part, B
    <3> QED BY <2>1, <3>1, ProductSteps
  <2>5. ~ Divides(a) /\ ~ Divides(u)
    BY <1>2, <2>4
  <2>6. ASSUME Divides(b) PROVE FALSE
    <3>1. Divides(b - a * u) /\ a * u \in Int
      BY <2>3, <2>4
    <3>2. Divides(b - (b - a * u)) /\ b - (b - a * u) = a * u
      BY <2>6, <3>1, DividesPlus
    <3> QED BY <2>5, <3>2, DividesFactor
  <2> QED BY <2>4, <2>6
<1>3. S \in T
  <2> HIDE DEF T
  <2> QED BY <1>1, <1>2, SetBySteps
<1>4. part(S) = h
  OBVIOUS
<1> QED BY <1>3, <1>4

\* A power, one factor at a time.
LEMMA PowerSteps ==
  ASSUME NEW x \in Int, NEW n \in Nat
  PROVE  /\ Power(x, n) \in Int
         /\ Power(x, 0) = 1
         /\ Divides(Power(x, n + 1) - x * Power(x, n))
<1>1. \A m \in Int : IsFiniteSet(1 .. m) /\ [k \in 1 .. m |-> x] \in [1 .. m -> Int]
  BY FS_Interval
<1>2. Power(x, n) \in Int
  <2>1. IsFiniteSet(1 .. n) /\ [k \in 1 .. n |-> x] \in [1 .. n -> Int]
    BY <1>1
  <2> QED BY <2>1, ProductSteps DEF Power
<1>3. Power(x, 0) = 1
  <2>1. 1 .. 0 = {} /\ IsFiniteSet(1 .. 0) /\ [k \in 1 .. 0 |-> x] \in [1 .. 0 -> Int]
    BY <1>1
  <2> QED BY <2>1, ProductSteps DEF Power
<1>4. Divides(Power(x, n + 1) - Power(x, n) * x)
  <2>1. PICK S : S = 1 .. n + 1
    OBVIOUS
  <2>2. PICK h \in [S -> Int] : h = [k \in S |-> x]
    OBVIOUS
  <2>3. n + 1 \in S /\ S \ {n + 1} = 1 .. n /\ IsFiniteSet(S) /\ h[n + 1] = x
    BY <1>1, <2>1, <2>2
  <2>4. PICK g \in [S \ {n + 1} -> Int] : g = [k \in 1 .. n |-> x]
    BY <2>3
  <2>5. \A y \in S \ {n + 1} : g[y] = h[y]
    BY <2>2, <2>3, <2>4
  <2>6. Divides(Product(h) - Product(g) * h[n + 1])
    BY <2>3, <2>5, ProductSteps
  <2>7. Power(x, n + 1) = Product(h) /\ Power(x, n) = Product(g)
    BY <2>1, <2>2, <2>4 DEF Power
  <2> QED BY <2>3, <2>6, <2>7
<1>5. Power(x, n) * x = x * Power(x, n)
  BY <1>2
<1> QED BY <1>2, <1>3, <1>4, <1>5

------------------------------------------------------------------------------
\* The coefficients of the interpolation.
LEMMA DividesCombination ==
  ASSUME NEW a \in Int, NEW b \in Int, NEW x \in Int, NEW y \in Int, Divides(a), Divides(b)
  PROVE  Divides(x * a + y * b)
<1>1. Divides(x * a) /\ Divides(y * b) /\ x * a \in Int /\ y * b \in Int
  BY DividesTimes
<1> QED BY <1>1, DividesPlus

Point == 1 .. P - 1

LEMMA PointsDiffer ==
  ASSUME NEW x \in Point, NEW y \in Point
  PROVE  ~ Divides(-y) /\ (x # y => ~ Divides(x - y))
<1>1. x \in Int /\ y \in Int /\ -P < -y /\ -y < P /\ -y # 0 /\ -y \in Int
  BY PrimeIsLarge DEF Point
<1>2. x - y \in Int /\ -P < x - y /\ x - y < P /\ (x # y => x - y # 0)
  BY PrimeIsLarge DEF Point
<1>3. ~ Divides(-y)
  BY <1>1, DividesSmall
<1>4. x # y => ~ Divides(x - y)
  BY <1>2, DividesSmall
<1> QED BY <1>3, <1>4

\* The coefficient is the quotient of two products, and the divisor is not 0.
Above(xs, x) == Product([y \in xs \ {x} |-> -y])
Below(xs, x) == Product([y \in xs \ {x} |-> x - y])

LEMMA LagrangeFraction ==
  ASSUME NEW xs \in SUBSET Point, NEW x \in xs
  PROVE  /\ LagrangeCoeffAtZero(xs, x) \in Int
         /\ Above(xs, x) \in Int /\ Below(xs, x) \in Int
         /\ ~ Divides(Above(xs, x)) /\ ~ Divides(Below(xs, x))
         /\ Divides(LagrangeCoeffAtZero(xs, x) * Below(xs, x) - Above(xs, x))
<1>1. IsFiniteSet(xs \ {x})
  <2>1. IsFiniteSet(Point) /\ xs \ {x} \in SUBSET Point
    BY FS_Interval, PrimeIsLarge DEF Point
  <2> QED BY <2>1, FS_Subset
<1>2. x \in Point /\ x \in Int /\ \A y \in xs \ {x} : y \in Point /\ y \in Int
  BY DEF Point
<1>t. /\ [y \in xs \ {x} |-> -y] \in [xs \ {x} -> Int]
      /\ [y \in xs \ {x} |-> x - y] \in [xs \ {x} -> Int]
  BY <1>2
<1>3. PICK f \in [xs \ {x} -> Int], g \in [xs \ {x} -> Int] :
        f = [y \in xs \ {x} |-> -y] /\ g = [y \in xs \ {x} |-> x - y]
  BY <1>t
<1>4. \A y \in xs \ {x} : ~ Divides(f[y]) /\ ~ Divides(g[y])
  BY <1>2, <1>3, PointsDiffer
<1>5. PICK num \in Int, den \in Int :
        num = Above(xs, x) /\ den = Below(xs, x) /\ den \in Field
          /\ ~ Divides(num) /\ ~ Divides(den)
  BY <1>1, <1>3, <1>4, ProductSteps, ProductNonzero DEF Above, Below
<1>6. den # 0
  <2>1. 0 = P * 0 /\ 0 \in Int
    BY PrimeIsLarge
  <2> QED BY <1>5, <2>1 DEF Divides
<1>7. PICK inv \in Int : inv = ModInverse(den) /\ Divides(den * inv - 1)
  BY <1>5, <1>6, ModInverseInverts
<1>8. LagrangeCoeffAtZero(xs, x) = (num * inv) % P
  BY <1>5, <1>7 DEF LagrangeCoeffAtZero, Above, Below
<1>9. PICK l \in Int : l = LagrangeCoeffAtZero(xs, x) /\ Divides(num * inv - l)
  <2>1. num * inv \in Int
    OBVIOUS
  <2> QED BY <1>8, <2>1, Remainder
<1>10. Divides((-den) * (num * inv - l) + num * (den * inv - 1))
  <2>1. -den \in Int /\ num * inv - l \in Int /\ den * inv - 1 \in Int
    OBVIOUS
  <2> QED BY <1>7, <1>9, <2>1, DividesCombination
<1>11. (-den) * (num * inv - l) + num * (den * inv - 1) = l * den - num
  OBVIOUS
<1> QED BY <1>5, <1>9, <1>10, <1>11

LEMMA LagrangeNonzero ==
  ASSUME NEW xs \in SUBSET Point, NEW x \in xs
  PROVE  ~ Divides(LagrangeCoeffAtZero(xs, x))
<1>1. PICK l \in Int, num \in Int, den \in Int :
        /\ l = LagrangeCoeffAtZero(xs, x) /\ ~ Divides(num) /\ Divides(l * den - num)
  BY LagrangeFraction
<1>2. ASSUME Divides(l) PROVE FALSE
  <2>1. Divides(den * l + (-1) * (l * den - num))
    <3>1. -1 \in Int /\ l * den - num \in Int
      OBVIOUS
    <3> QED BY <1>1, <1>2, <3>1, DividesCombination
  <2>2. den * l + (-1) * (l * den - num) = num
    OBVIOUS
  <2> QED BY <1>1, <2>1, <2>2
<1> QED BY <1>1, <1>2

\* One more point multiplies the coefficient of another by -z / (x - z).
LEMMA LagrangeAdd ==
  ASSUME NEW xs \in SUBSET Point, NEW x \in xs, NEW z \in Point \ xs
  PROVE  Divides((x - z) * LagrangeCoeffAtZero(xs \cup {z}, x) + z * LagrangeCoeffAtZero(xs, x))
<1> DEFINE ys == xs \cup {z}
<1>1. ys \in SUBSET Point /\ x \in ys /\ x \in Int /\ z \in Int /\ z # x /\ x \in Point
  BY DEF Point
<1>2. IsFiniteSet(ys \ {x})
  <2>1. IsFiniteSet(Point) /\ ys \ {x} \in SUBSET Point
    BY FS_Interval, PrimeIsLarge, <1>1 DEF Point
  <2> QED BY <2>1, FS_Subset
<1>3. z \in ys \ {x} /\ (ys \ {x}) \ {z} = xs \ {x}
  BY <1>1
<1>t. \A y \in ys : y \in Int
  BY <1>1 DEF Point
<1>4. PICK l \in Int, num \in Int, den \in Int :
        /\ l = LagrangeCoeffAtZero(xs, x) /\ num = Above(xs, x) /\ den = Below(xs, x)
        /\ ~ Divides(den) /\ Divides(l * den - num)
  BY LagrangeFraction
<1>5. PICK m \in Int, top \in Int, bot \in Int :
        /\ m = LagrangeCoeffAtZero(ys, x) /\ top = Above(ys, x) /\ bot = Below(ys, x)
        /\ Divides(m * bot - top)
  <2> HIDE DEF ys
  <2> QED BY <1>1, LagrangeFraction
<1>6. Divides(top - num * (-z))
  <2> DEFINE f == [y \in ys \ {x} |-> -y]
             g == [y \in xs \ {x} |-> -y]
  <2>1. f \in [ys \ {x} -> Int] /\ g \in [(ys \ {x}) \ {z} -> Int]
    BY <1>t, <1>3
  <2>2. (\A y \in (ys \ {x}) \ {z} : g[y] = f[y]) /\ f[z] = -z
    BY <1>3
  <2> HIDE DEF f, g, ys
  <2>3. Divides(Product(f) - Product(g) * f[z])
    BY <1>2, <1>3, <2>1, <2>2, ProductSteps
  <2> QED BY <1>4, <1>5, <2>2, <2>3 DEF Above, f, g
<1>7. Divides(bot - den * (x - z))
  <2> DEFINE f == [y \in ys \ {x} |-> x - y]
             g == [y \in xs \ {x} |-> x - y]
  <2>1. f \in [ys \ {x} -> Int] /\ g \in [(ys \ {x}) \ {z} -> Int]
    BY <1>t, <1>3
  <2>2. (\A y \in (ys \ {x}) \ {z} : g[y] = f[y]) /\ f[z] = x - z
    BY <1>3
  <2> HIDE DEF f, g, ys
  <2>3. Divides(Product(f) - Product(g) * f[z])
    BY <1>2, <1>3, <2>1, <2>2, ProductSteps
  <2> QED BY <1>4, <1>5, <2>2, <2>3 DEF Below, f, g
<1> HIDE DEF ys
<1>8. Divides((-m) * (bot - den * (x - z)) + 1 * (m * bot - top))
  <2>1. -m \in Int /\ bot - den * (x - z) \in Int /\ m * bot - top \in Int /\ 1 \in Int
    BY <1>1
  <2> QED BY <1>5, <1>7, <2>1, DividesCombination
<1>9. Divides(1 * (top - num * (-z)) + z * (l * den - num))
  <2>1. top - num * (-z) \in Int /\ l * den - num \in Int /\ 1 \in Int
    BY <1>1
  <2> QED BY <1>1, <1>4, <1>6, <2>1, DividesCombination
<1>10. PICK u \in Int, v \in Int :
          /\ u = (-m) * (bot - den * (x - z)) + 1 * (m * bot - top)
          /\ v = 1 * (top - num * (-z)) + z * (l * den - num)
  BY <1>1
<1>11. u + v = den * ((x - z) * m + z * l)
  BY <1>1, <1>10
<1>12. Divides(den * ((x - z) * m + z * l))
  BY <1>8, <1>9, <1>10, <1>11, DividesPlus
<1>13. (x - z) * m + z * l \in Int
  BY <1>1
<1>14. Divides((x - z) * m + z * l)
  BY <1>4, <1>12, <1>13, DividesFactor
<1> QED BY <1>4, <1>5, <1>14 DEF ys

\* The points of members, the weight of a member in an interpolation, and the
\* moments: the sum of the weights times a power of the points.
Points(members) == {i + 1 : i \in members}
Weight(members, i) == LagrangeCoeffAtZero(Points(members), i + 1)
Moment(members, k) ==
  SumFunctionOnSet([i \in members |-> Power(i + 1, k) * Weight(members, i)], members)

LEMMA MembersArePoints ==
  /\ IsFiniteSet(Member)
  /\ \A members \in SUBSET Member : IsFiniteSet(members) /\ Points(members) \in SUBSET Point
  /\ \A i \in Member : i + 1 \in Point /\ i + 1 \in Int /\ i \in Int
<1>1. IsFiniteSet(Member)
  BY FS_Interval, SharesAssumption DEF Member
<1>2. \A members \in SUBSET Member : IsFiniteSet(members)
  BY <1>1, FS_Subset
<1>3. \A i \in Member : i + 1 \in Point /\ i + 1 \in Int /\ i \in Int
  BY SharesAssumption DEF Member, Point
<1> QED BY <1>1, <1>2, <1>3 DEF Points

LEMMA WeightType ==
  ASSUME NEW members \in SUBSET Member, NEW i \in members
  PROVE  Weight(members, i) \in Int /\ ~ Divides(Weight(members, i))
<1>1. Points(members) \in SUBSET Point /\ i + 1 \in Points(members)
  BY MembersArePoints DEF Points
<1> QED BY <1>1, LagrangeFraction, LagrangeNonzero DEF Weight

LEMMA MomentType ==
  ASSUME NEW members \in SUBSET Member, NEW k \in Nat
  PROVE  /\ Moment(members, k) \in Int
         /\ [i \in members |-> Power(i + 1, k) * Weight(members, i)] \in [members -> Int]
<1>1. ASSUME NEW i \in members PROVE Power(i + 1, k) * Weight(members, i) \in Int
  <2>1. Power(i + 1, k) \in Int /\ Weight(members, i) \in Int
    BY MembersArePoints, PowerSteps, WeightType
  <2> QED BY <2>1
<1>2. [i \in members |-> Power(i + 1, k) * Weight(members, i)] \in [members -> Int]
  BY <1>1
<1> QED BY <1>2, MembersArePoints, SumSteps DEF Moment

\* A moment from the lower moments of the members and of all but one of them.
LEMMA MomentStep ==
  ASSUME NEW members \in SUBSET Member, NEW z \in members, NEW k \in Nat
  PROVE  Divides(Moment(members, k + 1)
                   - (z + 1) * (Moment(members, k) - Moment(members \ {z}, k)))
<1> DEFINE rest == members \ {z}
           f == [i \in members |-> Power(i + 1, k + 1) * Weight(members, i)]
           g == [i \in members |-> Power(i + 1, k) * Weight(members, i)]
           h == [i \in rest |-> Power(i + 1, k) * Weight(rest, i)]
           e == [i \in members |-> IF i = z THEN 0 ELSE h[i]]
           d == [i \in members |-> g[i] - e[i]]
           c == [i \in members |-> (z + 1) * d[i]]
<1>1. IsFiniteSet(members) /\ IsFiniteSet(rest) /\ rest \in SUBSET Member /\ rest \in SUBSET members
  BY MembersArePoints
<1>2. k + 1 \in Nat /\ z + 1 \in Int /\ z \in Member
  BY MembersArePoints
<1>3. f \in [members -> Int] /\ g \in [members -> Int] /\ h \in [rest -> Int]
  <2> HIDE DEF rest
  <2> QED BY <1>1, <1>2, MomentType
<1>4. Moment(members, k + 1) = SumFunctionOnSet(f, members)
      /\ Moment(members, k) = SumFunctionOnSet(g, members)
      /\ Moment(rest, k) = SumFunctionOnSet(h, rest)
  BY DEF Moment
<1>5. e \in [members -> Int]
  <2> HIDE DEF h
  <2> QED BY <1>3
<1>6. d \in [members -> Int]
  <2> HIDE DEF g, e
  <2> QED BY <1>3, <1>5
<1>7. c \in [members -> Int]
  <2> HIDE DEF d
  <2> QED BY <1>2, <1>6
<1>8. ASSUME NEW i \in members PROVE Divides(f[i] - c[i])
  <2>1. PICK p \in Int, q \in Int, X \in Int, Z \in Int, w \in Int :
          /\ p = Power(i + 1, k) /\ q = Power(i + 1, k + 1) /\ X = i + 1 /\ Z = z + 1
          /\ w = Weight(members, i)
    BY <1>2, MembersArePoints, PowerSteps, WeightType
  <2>2. Divides(q - X * p)
    BY <2>1, PowerSteps
  <2>3. f[i] = q * w /\ g[i] = p * w
    BY <2>1
  <2>4. q - X * p \in Int
    OBVIOUS
  <2>5. CASE i = z
    <3>1. c[i] = Z * (p * w - 0)
      BY <2>5, <2>1, <2>3
    <3>2. Divides((q - X * p) * w)
      BY <2>2, <2>4, DividesTimes
    <3>3. (q - X * p) * w = q * w - X * (p * w - 0)
      OBVIOUS
    <3>4. X = Z
      BY <2>5, <2>1
    <3> QED BY <2>3, <3>1, <3>2, <3>3, <3>4
  <2>6. CASE i # z
    <3>1. i \in rest
      BY <2>6
    <3>2. PICK v \in Int : v = Weight(rest, i)
      BY <1>1, <3>1, WeightType
    <3>3. c[i] = Z * (p * w - p * v)
      BY <2>6, <2>1, <2>3, <3>1, <3>2
    <3>4. Points(rest) \in SUBSET Point /\ X \in Points(rest) /\ Z \in Point \ Points(rest)
          /\ Points(rest) \cup {Z} = Points(members)
      <4>1. Z \notin Points(rest) /\ Points(rest) \cup {Z} = Points(members) /\ X \in Points(rest)
        BY <1>2, <2>1, <3>1, MembersArePoints DEF Points
      <4>2. Z \in Point /\ Points(rest) \in SUBSET Point
        BY <1>1, <1>2, <2>1, MembersArePoints
      <4> QED BY <4>1, <4>2
    <3>5. Divides((X - Z) * w + Z * v)
      <4>1. Divides((X - Z) * LagrangeCoeffAtZero(Points(rest) \cup {Z}, X)
                      + Z * LagrangeCoeffAtZero(Points(rest), X))
        BY <3>4, LagrangeAdd
      <4>2. w = LagrangeCoeffAtZero(Points(rest) \cup {Z}, X)
            /\ v = LagrangeCoeffAtZero(Points(rest), X)
        BY <2>1, <3>2, <3>4 DEF Weight
      <4> QED BY <4>1, <4>2
    <3>6. (X - Z) * w + Z * v \in Int
      OBVIOUS
    <3>7. Divides(w * (q - X * p) + p * ((X - Z) * w + Z * v))
      BY <2>2, <2>4, <3>5, <3>6, DividesCombination
    <3>8. w * (q - X * p) + p * ((X - Z) * w + Z * v) = q * w - Z * (p * w - p * v)
      OBVIOUS
    <3> QED BY <2>3, <3>3, <3>7, <3>8
  <2> QED BY <2>5, <2>6
<1>9. SumFunctionOnSet(e, members) = SumFunctionOnSet(h, rest)
  <2>1. z \in members /\ e[z] = 0 /\ \A i \in rest : e[i] = h[i]
    OBVIOUS
  <2> HIDE DEF e, h
  <2>2. SumFunctionOnSet(e, members) = e[z] + SumFunctionOnSet(e, rest)
    BY <1>1, <1>5, SumSteps
  <2>3. SumFunctionOnSet(e, rest) = SumFunctionOnSet(h, rest)
    <3> HIDE DEF rest
    <3> QED BY <1>1, <1>3, <1>5, <2>1, SumSame
  <2>4. SumFunctionOnSet(h, rest) \in Int
    BY <1>1, <1>3, SumSteps
  <2> QED BY <2>1, <2>2, <2>3, <2>4
<1>10. SumFunctionOnSet(g, members) = SumFunctionOnSet(d, members) + SumFunctionOnSet(e, members)
  <2>1. \A i \in members : g[i] = d[i] + e[i]
    <3> HIDE DEF g, e
    <3> QED BY <1>3, <1>5
  <2> HIDE DEF d, e, g
  <2> QED BY <1>1, <1>3, <1>5, <1>6, <2>1, SumPlus
<1>11. SumFunctionOnSet(c, members) = (z + 1) * SumFunctionOnSet(d, members)
  <2>1. \A i \in members : c[i] = (z + 1) * d[i]
    BY DEF c
  <2>2. PICK Z \in Int : Z = z + 1
    BY <1>2
  <2> HIDE DEF c, d
  <2>3. SumFunctionOnSet(c, members) = Z * SumFunctionOnSet(d, members)
    BY <1>1, <1>6, <1>7, <2>1, <2>2, SumTimes
  <2> QED BY <2>2, <2>3
<1>12. Divides(SumFunctionOnSet(f, members) - SumFunctionOnSet(c, members))
  <2> HIDE DEF f, c
  <2> QED BY <1>1, <1>3, <1>7, <1>8, SumModulo
<1>13. PICK G \in Int, D \in Int, E \in Int :
          /\ G = SumFunctionOnSet(g, members)
          /\ D = SumFunctionOnSet(d, members)
          /\ E = SumFunctionOnSet(e, members)
  <2> HIDE DEF g, d, e
  <2> QED BY <1>1, <1>3, <1>5, <1>6, SumSteps
<1>14. D = G - E
  <2> HIDE DEF g, d, e
  <2> QED BY <1>10, <1>13
<1>15. Moment(members, k) - Moment(members \ {z}, k) = D
  <2> HIDE DEF g, d, e, h
  <2> QED BY <1>4, <1>9, <1>13, <1>14
<1> HIDE DEF f, c, d
<1> QED BY <1>4, <1>11, <1>12, <1>13, <1>15
\* One member: its moment of order 0 is 1.
LEMMA MomentOfOne ==
  ASSUME NEW z \in Member
  PROVE  Divides(Moment({z}, 0) - 1)
<1>1. {z} \in SUBSET Member /\ IsFiniteSet({z}) /\ z + 1 \in Int
  BY MembersArePoints
<1>2. Points({z}) = {z + 1} /\ {z + 1} \in SUBSET Point
  BY MembersArePoints DEF Points
<1>3. PICK l \in Int : l = Weight({z}, z)
  BY <1>1, WeightType
<1>4. {z + 1} \ {z + 1} = {} /\ z + 1 \in {z + 1}
  OBVIOUS
<1>5. Above({z + 1}, z + 1) = 1 /\ Below({z + 1}, z + 1) = 1
  <2>1. \A h \in [{} -> Int] : Product(h) = 1
    BY ProductSteps, FS_EmptySet
  <2>2. [y \in {} |-> -y] \in [{} -> Int] /\ [y \in {} |-> z + 1 - y] \in [{} -> Int]
    OBVIOUS
  <2> QED BY <1>4, <2>1, <2>2 DEF Above, Below
<1>6. Divides(l * 1 - 1)
  BY <1>2, <1>3, <1>4, <1>5, LagrangeFraction DEF Weight
<1>7. PICK f \in [{z} -> Int] : f = [i \in {z} |-> Power(i + 1, 0) * Weight({z}, i)]
  BY <1>1, MomentType
<1>8. f[z] = l
  BY <1>1, <1>3, <1>7, PowerSteps
<1>9. SumFunctionOnSet(f, {z}) = f[z] + SumFunctionOnSet(f, {})
  <2>1. {z} \in SUBSET {z} /\ z \in {z} /\ {z} \ {z} = {}
    OBVIOUS
  <2> QED BY <1>1, <2>1, SumSteps
<1>10. SumFunctionOnSet(f, {}) = 0
  BY <1>1, SumSteps
<1>11. Moment({z}, 0) = l
  BY <1>7, <1>8, <1>9, <1>10 DEF Moment
<1> QED BY <1>6, <1>11

\* The weights of any members add up to 1, and their moments of a lower order
\* than the number of members are 0.
Vanishing(members) ==
  /\ Divides(Moment(members, 0) - 1)
  /\ \A k \in 1 .. Cardinality(members) - 1 : Divides(Moment(members, k))

LEMMA MomentsVanishStep ==
  ASSUME NEW members \in SUBSET Member, NEW z \in members, NEW y \in members, y # z,
         Vanishing(members \ {z}), Vanishing(members \ {y})
  PROVE  Vanishing(members)
<1>1. /\ members \ {z} \in SUBSET Member /\ members \ {y} \in SUBSET Member
      /\ z \in Member /\ y \in Member /\ 0 \in Nat /\ 0 + 1 = 1
  OBVIOUS
<1>2. PICK M \in Int, N \in Int, A \in Int, B \in Int, Z \in Int, Y \in Int :
        /\ M = Moment(members, 0) /\ N = Moment(members, 1)
        /\ A = Moment(members \ {z}, 0) /\ B = Moment(members \ {y}, 0)
        /\ Z = z + 1 /\ Y = y + 1
  <2>1. Moment(members, 0) \in Int /\ Moment(members, 1) \in Int
        /\ Moment(members \ {z}, 0) \in Int /\ Moment(members \ {y}, 0) \in Int
    BY <1>1, MomentType
  <2>2. z + 1 \in Int /\ y + 1 \in Int
    BY <1>1, MembersArePoints
  <2> QED BY <2>1, <2>2
<1>3. Divides(A - 1) /\ Divides(B - 1)
  BY <1>2 DEF Vanishing
<1>4. Divides(N - Z * (M - A)) /\ Divides(N - Y * (M - B))
  BY <1>1, <1>2, MomentStep
<1>5. ~ Divides(Z - Y)
  <2>1. Z \in Point /\ Y \in Point /\ Z # Y
    BY <1>1, <1>2, MembersArePoints
  <2> QED BY <2>1, PointsDiffer
<1>6. PICK u \in Int, v \in Int, s \in Int, t \in Int :
        u = N - Z * (M - A) /\ v = N - Y * (M - B) /\ s = A - 1 /\ t = B - 1
  OBVIOUS
<1>7. Divides((-1) * u + 1 * v) /\ Divides(Z * s + (-Y) * t)
  <2>1. -1 \in Int /\ 1 \in Int /\ -Y \in Int
    OBVIOUS
  <2>2. Divides((-1) * u + 1 * v)
    BY <1>4, <1>6, <2>1, DividesCombination
  <2>3. Divides(Z * s + (-Y) * t)
    BY <1>3, <1>6, <2>1, DividesCombination
  <2> QED BY <2>2, <2>3
<1>8. Divides(((-1) * u + 1 * v) + (Z * s + (-Y) * t))
  BY <1>7, DividesPlus
<1>9. ((-1) * u + 1 * v) + (Z * s + (-Y) * t) = (Z - Y) * (M - 1)
  BY <1>6
<1>10. Divides(M - 1)
  <2>1. Z - Y \in Int /\ M - 1 \in Int
    OBVIOUS
  <2> QED BY <1>5, <1>8, <1>9, <2>1, DividesFactor
<1> DEFINE T == {k \in Nat : k \in 1 .. Cardinality(members) - 1 => Divides(Moment(members, k))}
<1>11. 0 \in T
  OBVIOUS
<1>12. ASSUME NEW k \in Nat, k \in T PROVE k + 1 \in T
  <2>1. SUFFICES ASSUME k + 1 \in 1 .. Cardinality(members) - 1
                 PROVE  Divides(Moment(members, k + 1))
    OBVIOUS
  <2>2. /\ Cardinality(members) \in Nat
        /\ Cardinality(members \ {z}) = Cardinality(members) - 1
    BY MembersArePoints, FS_CardinalityType, FS_RemoveElement
  <2>3. PICK F \in Int, G \in Int, H \in Int :
          F = Moment(members, k + 1) /\ G = Moment(members, k) /\ H = Moment(members \ {z}, k)
    <3>1. k + 1 \in Nat
      OBVIOUS
    <3>2. Moment(members, k + 1) \in Int /\ Moment(members, k) \in Int
          /\ Moment(members \ {z}, k) \in Int
      BY <1>1, <3>1, MomentType
    <3> QED BY <3>2
  <2>4. Divides(F - Z * (G - H))
    BY <1>2, <2>3, MomentStep
  <2>5. Divides(G - H)
    <3>1. CASE k = 0
      <4>1. Divides((M - 1) - (A - 1)) /\ (M - 1) - (A - 1) = M - A
        BY <1>3, <1>10, DividesPlus
      <4> QED BY <1>2, <2>3, <3>1, <4>1
    <3>2. CASE k # 0
      <4>1. k \in 1 .. Cardinality(members) - 1 /\ k \in 1 .. Cardinality(members \ {z}) - 1
        BY <2>1, <2>2, <3>2
      <4>2. Divides(G) /\ Divides(H)
        BY <1>12, <2>3, <4>1 DEF Vanishing
      <4> QED BY <4>2, DividesPlus
    <3> QED BY <3>1, <3>2
  <2>6. F - Z * (G - H) \in Int /\ G - H \in Int
    OBVIOUS
  <2>7. Divides(1 * (F - Z * (G - H)) + Z * (G - H))
    BY <2>4, <2>5, <2>6, DividesCombination
  <2>8. 1 * (F - Z * (G - H)) + Z * (G - H) = F
    OBVIOUS
  <2> QED BY <2>3, <2>7, <2>8
<1>13. Nat \subseteq T
  <2> HIDE DEF T
  <2> QED BY <1>11, <1>12, NaturalsBySteps
<1>14. \A k \in 1 .. Cardinality(members) - 1 : k \in Nat
  OBVIOUS
<1> QED BY <1>2, <1>10, <1>13, <1>14 DEF Vanishing

LEMMA MomentsVanish ==
  ASSUME NEW members \in SUBSET Member, members # {}
  PROVE  Vanishing(members)
<1> DEFINE T == {n \in Nat : \A ms \in SUBSET Member :
                               ms # {} /\ Cardinality(ms) = n => Vanishing(ms)}
<1>1. \A ms \in SUBSET Member : IsFiniteSet(ms) /\ Cardinality(ms) \in Nat
  BY MembersArePoints, FS_CardinalityType
<1>2. 0 \in T
  BY <1>1, FS_EmptySet
<1>3. ASSUME NEW n \in Nat, n \in T PROVE n + 1 \in T
  <2> SUFFICES ASSUME NEW ms \in SUBSET Member, ms # {}, Cardinality(ms) = n + 1
               PROVE  Vanishing(ms)
    OBVIOUS
  <2>1. PICK z : z \in ms
    OBVIOUS
  <2>2. CASE ms = {z}
    <3>1. Divides(Moment(ms, 0) - 1)
      BY <2>1, <2>2, MomentOfOne
    <3>2. Cardinality(ms) = 1
      BY <2>2, FS_Singleton
    <3> QED BY <3>1, <3>2 DEF Vanishing
  <2>3. CASE ms # {z}
    <3>1. PICK y : y \in ms /\ y # z
      BY <2>1, <2>3
    <3>2. Cardinality(ms \ {z}) = n /\ Cardinality(ms \ {y}) = n
      <4>1. Cardinality(ms \ {z}) = (n + 1) - 1 /\ Cardinality(ms \ {y}) = (n + 1) - 1
        BY <1>1, <2>1, <3>1, FS_RemoveElement
      <4> QED BY <4>1
    <3>3. Vanishing(ms \ {z}) /\ Vanishing(ms \ {y})
      BY <1>3, <2>1, <3>1, <3>2
    <3> QED BY <2>1, <3>1, <3>3, MomentsVanishStep
  <2> QED BY <2>2, <2>3
<1>4. Nat \subseteq T
  <2> HIDE DEF T
  <2> QED BY <1>2, <1>3, NaturalsBySteps
<1> QED BY <1>1, <1>4
------------------------------------------------------------------------------
\* Polynomials.  The value of one, before it is reduced modulo P.
Value(c, x) == SumFunctionOnSet([k \in DOMAIN c |-> c[k] * Power(x, k - 1)], DOMAIN c)

LEMMA ValueType ==
  ASSUME NEW n \in Nat, NEW c \in [1 .. n -> Int], NEW x \in Int
  PROVE  /\ [k \in 1 .. n |-> c[k] * Power(x, k - 1)] \in [1 .. n -> Int]
         /\ IsFiniteSet(1 .. n)
         /\ Value(c, x) = SumFunctionOnSet([k \in 1 .. n |-> c[k] * Power(x, k - 1)], 1 .. n)
         /\ Value(c, x) \in Int
         /\ EvalPoly(c, x) = Value(c, x) % P
<1>1. \A k \in 1 .. n : c[k] \in Int /\ Power(x, k - 1) \in Int
  <2> SUFFICES ASSUME NEW k \in 1 .. n PROVE c[k] \in Int /\ Power(x, k - 1) \in Int
    OBVIOUS
  <2>1. k - 1 \in Nat
    OBVIOUS
  <2> QED BY <2>1, PowerSteps
<1>2. [k \in 1 .. n |-> c[k] * Power(x, k - 1)] \in [1 .. n -> Int]
  BY <1>1
<1>3. IsFiniteSet(1 .. n) /\ DOMAIN c = 1 .. n
  BY FS_Interval
<1>4. Value(c, x) = SumFunctionOnSet([k \in 1 .. n |-> c[k] * Power(x, k - 1)], 1 .. n)
  BY <1>3 DEF Value
<1>5. Value(c, x) \in Int
  BY <1>2, <1>3, <1>4, SumSteps
<1>6. EvalPoly(c, x) = Value(c, x) % P
  BY <1>3, <1>4 DEF EvalPoly, SumFunction
<1> QED BY <1>2, <1>3, <1>4, <1>5, <1>6

\* The interpolation as a sum over the members.
LEMMA InterpolateIsSum ==
  ASSUME NEW members \in SUBSET Member, NEW value, \A i \in members : value[i] \in Int
  PROVE  /\ [i \in members |-> value[i] * Weight(members, i)] \in [members -> Int]
         /\ Interpolate(members, value)
              = SumFunctionOnSet([i \in members |-> value[i] * Weight(members, i)], members) % P
<1>1. \A i \in members : value[i] * Weight(members, i) \in Int
  BY WeightType
<1>2. Interpolate(members, value)
              = SumFunctionOnSet([i \in members |-> value[i] * Weight(members, i)], members) % P
  BY DEF Interpolate, SumFunction, Weight, Points
<1> QED BY <1>1, <1>2

\* Interpolation gives the secret of a polynomial of a lower degree than the
\* number of members, from values that are the same modulo P.
LEMMA InterpolateSecret ==
  ASSUME NEW members \in SUBSET Member, NEW n \in Nat, 1 <= n, n <= Cardinality(members),
         NEW c \in [1 .. n -> Int], NEW value,
         \A i \in members : value[i] \in Int /\ Divides(value[i] - Value(c, i + 1))
  PROVE  Interpolate(members, value) = Secret(c) % P
<1> DEFINE h == [p \in members \X (1 .. n) |->
                   (c[p[2]] * Power(p[1] + 1, p[2] - 1)) * Weight(members, p[1])]
           f == [i \in members |-> value[i] * Weight(members, i)]
           row(i) == [k \in 1 .. n |-> h[<<i, k>>]]
           col(k) == [i \in members |-> h[<<i, k>>]]
           rows == [i \in members |-> SumFunctionOnSet(row(i), 1 .. n)]
           cols == [k \in 1 .. n |-> SumFunctionOnSet(col(k), members)]
           first == [k \in 1 .. n |-> IF k = 1 THEN c[1] ELSE 0]
<1>1. IsFiniteSet(members) /\ IsFiniteSet(1 .. n) /\ 1 \in 1 .. n
  BY MembersArePoints, FS_Interval
<1>2. \A i \in members, k \in 1 .. n :
        /\ c[k] \in Int /\ Power(i + 1, k - 1) \in Int /\ Weight(members, i) \in Int
        /\ i + 1 \in Int /\ k - 1 \in Nat
  <2> SUFFICES ASSUME NEW i \in members, NEW k \in 1 .. n
               PROVE  /\ c[k] \in Int /\ Power(i + 1, k - 1) \in Int /\ Weight(members, i) \in Int
                      /\ i + 1 \in Int /\ k - 1 \in Nat
    OBVIOUS
  <2>1. k - 1 \in Nat /\ c[k] \in Int
    OBVIOUS
  <2>2. i + 1 \in Int
    BY MembersArePoints
  <2> QED BY <2>1, <2>2, PowerSteps, WeightType
<1>3. h \in [members \X (1 .. n) -> Int]
  BY <1>2
<1>4. f \in [members -> Int] /\ Interpolate(members, value) = SumFunctionOnSet(f, members) % P
  BY InterpolateIsSum
<1>5. \A i \in members : row(i) \in [1 .. n -> Int]
  <2> HIDE DEF h
  <2> QED BY <1>3
<1>6. \A k \in 1 .. n : col(k) \in [members -> Int]
  <2> HIDE DEF h
  <2> QED BY <1>3
<1>7. rows \in [members -> Int]
  <2>1. \A i \in members : SumFunctionOnSet(row(i), 1 .. n) \in Int
    <3> HIDE DEF row
    <3> QED BY <1>1, <1>5, SumSteps
  <2> HIDE DEF row
  <2> QED BY <2>1
<1>8. cols \in [1 .. n -> Int]
  <2>1. \A k \in 1 .. n : SumFunctionOnSet(col(k), members) \in Int
    <3> HIDE DEF col
    <3> QED BY <1>1, <1>6, SumSteps
  <2> HIDE DEF col
  <2> QED BY <2>1
<1>9. ASSUME NEW i \in members PROVE Divides(f[i] - rows[i])
  <2> DEFINE g == [k \in 1 .. n |-> c[k] * Power(i + 1, k - 1)]
  <2>1. i + 1 \in Int
    BY <1>1, <1>2
  <2>2. g \in [1 .. n -> Int] /\ Value(c, i + 1) = SumFunctionOnSet(g, 1 .. n)
        /\ Value(c, i + 1) \in Int
    BY <2>1, ValueType
  <2>3. PICK w \in Int, v \in Int, V \in Int :
          w = Weight(members, i) /\ v = value[i] /\ V = Value(c, i + 1)
    BY <1>1, <1>2, <2>2
  <2>4. \A k \in 1 .. n : row(i)[k] = w * g[k]
    <3> SUFFICES ASSUME NEW k \in 1 .. n PROVE row(i)[k] = w * g[k]
      OBVIOUS
    <3>1. row(i)[k] = (c[k] * Power(i + 1, k - 1)) * Weight(members, i)
      OBVIOUS
    <3>2. g[k] = c[k] * Power(i + 1, k - 1) /\ g[k] \in Int
      BY <1>2
    <3> QED BY <2>3, <3>1, <3>2
  <2>5. SumFunctionOnSet(row(i), 1 .. n) = w * SumFunctionOnSet(g, 1 .. n)
    <3>0. PICK S : S = 1 .. n
      OBVIOUS
    <3>1. PICK x \in [S -> Int], y \in [S -> Int] : x = row(i) /\ y = g
      BY <1>5, <2>2, <3>0
    <3>2. \A k \in S : x[k] = w * y[k]
      BY <2>4, <3>0, <3>1
    <3>3. IsFiniteSet(S)
      BY <1>1, <3>0
    <3>4. SumFunctionOnSet(x, S) = w * SumFunctionOnSet(y, S)
      BY <3>2, <3>3, SumTimes
    <3> HIDE DEF row, g
    <3> QED BY <3>0, <3>1, <3>4
  <2>6. rows[i] = w * V /\ f[i] = v * w
    <3> HIDE DEF row, g
    <3> QED BY <2>2, <2>3, <2>5
  <2>7. Divides(v - V)
    BY <2>3
  <2>8. Divides((v - V) * w)
    <3>1. v - V \in Int
      OBVIOUS
    <3> QED BY <2>7, <3>1, DividesTimes
  <2>9. (v - V) * w = v * w - w * V
    OBVIOUS
  <2> QED BY <2>6, <2>8, <2>9
<1>10. Divides(SumFunctionOnSet(f, members) - SumFunctionOnSet(rows, members))
  <2> HIDE DEF f, rows
  <2> QED BY <1>1, <1>4, <1>7, <1>9, SumModulo
<1>11. SumFunctionOnSet(rows, members) = SumFunctionOnSet(cols, 1 .. n)
  <2> HIDE DEF h
  <2> QED BY <1>1, <1>3, SumSwap
<1>12. first \in [1 .. n -> Int] /\ SumFunctionOnSet(first, 1 .. n) = c[1]
  <2>1. first \in [1 .. n -> Int] /\ first[1] = c[1] /\ c[1] \in Int
    BY <1>1
  <2> DEFINE g == [k \in (1 .. n) \ {1} |-> 0]
  <2>2. g \in [(1 .. n) \ {1} -> Int] /\ \A k \in (1 .. n) \ {1} : g[k] = 0
    OBVIOUS
  <2>3. IsFiniteSet((1 .. n) \ {1}) /\ (1 .. n) \ {1} \in SUBSET (1 .. n)
    BY <1>1, FS_Subset
  <2>4. SumFunctionOnSet(g, (1 .. n) \ {1}) = 0
    BY <2>2, <2>3, SumZero
  <2>5. \A k \in (1 .. n) \ {1} : first[k] = g[k]
    BY <2>2
  <2> HIDE DEF first, g
  <2>6. SumFunctionOnSet(first, (1 .. n) \ {1}) = SumFunctionOnSet(g, (1 .. n) \ {1})
    BY <1>1, <2>1, <2>2, <2>3, <2>5, SumSame
  <2>7. SumFunctionOnSet(first, 1 .. n) = first[1] + SumFunctionOnSet(first, (1 .. n) \ {1})
    <3>1. PICK S : S = 1 .. n
      OBVIOUS
    <3>2. IsFiniteSet(S) /\ first \in [S -> Int] /\ S \in SUBSET S /\ 1 \in S
      BY <1>1, <2>1, <3>1
    <3>3. SumFunctionOnSet(first, S) = first[1] + SumFunctionOnSet(first, S \ {1})
      BY <3>2, SumSteps
    <3> QED BY <3>1, <3>3
  <2> QED BY <2>1, <2>4, <2>6, <2>7
<1>13. Vanishing(members)
  <2>1. Cardinality(members) # 0
    OBVIOUS
  <2>2. members # {}
    BY <2>1, FS_EmptySet
  <2> QED BY <2>2, MomentsVanish
<1>14. ASSUME NEW k \in 1 .. n PROVE Divides(cols[k] - first[k])
  <2>1. PICK a \in Int, m \in Nat : a = c[k] /\ m = k - 1
    BY <1>1
  <2> DEFINE g == [i \in members |-> Power(i + 1, m) * Weight(members, i)]
  <2>2. g \in [members -> Int] /\ Moment(members, m) = SumFunctionOnSet(g, members)
        /\ Moment(members, m) \in Int
    BY MomentType DEF Moment
  <2>3. \A i \in members : col(k)[i] = a * g[i]
    <3> SUFFICES ASSUME NEW i \in members PROVE col(k)[i] = a * g[i]
      OBVIOUS
    <3>1. PICK p \in Int, w \in Int : p = Power(i + 1, m) /\ w = Weight(members, i)
      BY <1>2, <2>1
    <3>2. col(k)[i] = (a * p) * w /\ g[i] = p * w
      BY <2>1, <3>1
    <3>3. (a * p) * w = a * (p * w)
      OBVIOUS
    <3> QED BY <3>2, <3>3
  <2>4. SumFunctionOnSet(col(k), members) = a * SumFunctionOnSet(g, members)
    <3>1. PICK x \in [members -> Int], y \in [members -> Int] : x = col(k) /\ y = g
      BY <1>6, <2>2
    <3>2. \A i \in members : x[i] = a * y[i]
      BY <2>3, <3>1
    <3>3. SumFunctionOnSet(x, members) = a * SumFunctionOnSet(y, members)
      BY <1>1, <3>2, SumTimes
    <3> HIDE DEF col, g
    <3> QED BY <3>1, <3>3
  <2>5. PICK M \in Int : M = Moment(members, m)
    BY <2>2
  <2>6. cols[k] = a * M
    <3> HIDE DEF col, g
    <3> QED BY <2>2, <2>4, <2>5
  <2>7. CASE k = 1
    <3>1. Divides(M - 1) /\ M - 1 \in Int
      BY <1>13, <2>1, <2>5, <2>7 DEF Vanishing
    <3>2. Divides(a * (M - 1))
      BY <3>1, DividesTimes
    <3>3. a * (M - 1) = a * M - a
      OBVIOUS
    <3>4. first[k] = a
      BY <2>1, <2>7
    <3> QED BY <2>6, <3>2, <3>3, <3>4
  <2>8. CASE k # 1
    <3>1. m \in 1 .. Cardinality(members) - 1
      BY <1>1, <2>1, <2>8, FS_CardinalityType
    <3>2. Divides(M)
      BY <1>13, <2>5, <3>1 DEF Vanishing
    <3>3. Divides(a * M)
      BY <3>2, DividesTimes
    <3>4. a * M = a * M - 0
      OBVIOUS
    <3>5. first[k] = 0
      BY <2>8
    <3> QED BY <2>6, <3>3, <3>4, <3>5
  <2> QED BY <2>7, <2>8
<1>15. Divides(SumFunctionOnSet(cols, 1 .. n) - SumFunctionOnSet(first, 1 .. n))
  <2> HIDE DEF cols, first
  <2> QED BY <1>1, <1>8, <1>12, <1>14, SumModulo
<1>16. PICK F \in Int, R \in Int, C \in Int :
         /\ F = SumFunctionOnSet(f, members) /\ R = SumFunctionOnSet(rows, members)
         /\ C = c[1]
  <2>1. c[1] \in Int
    BY <1>1
  <2> HIDE DEF f, rows
  <2> QED BY <1>1, <1>4, <1>7, <2>1, SumSteps
<1> HIDE DEF f, rows, cols, first
<1>17. Divides(F - R) /\ Divides(R - C) /\ F - R \in Int /\ R - C \in Int
  BY <1>10, <1>11, <1>12, <1>15, <1>16
<1>18. Divides((F - R) + (R - C)) /\ (F - R) + (R - C) = F - C
  BY <1>17, DividesPlus
<1>19. F % P = C % P
  BY <1>18, SameRemainder
<1> QED BY <1>4, <1>16, <1>19 DEF Secret
\* A sum of which only one term is not 0.
LEMMA SumOnly ==
  ASSUME NEW S, IsFiniteSet(S), NEW f \in [S -> Int], NEW x \in S,
         \A y \in S \ {x} : f[y] = 0
  PROVE  SumFunctionOnSet(f, S) = f[x]
<1>1. IsFiniteSet(S \ {x}) /\ S \ {x} \in SUBSET S /\ S \in SUBSET S
  BY FS_Subset
<1> DEFINE g == [y \in S \ {x} |-> 0]
<1>2. g \in [S \ {x} -> Int] /\ \A y \in S \ {x} : g[y] = 0 /\ f[y] = g[y]
  OBVIOUS
<1> HIDE DEF g
<1>3. SumFunctionOnSet(g, S \ {x}) = 0
  BY <1>1, <1>2, SumZero
<1>4. SumFunctionOnSet(f, S \ {x}) = SumFunctionOnSet(g, S \ {x})
  BY <1>1, <1>2, SumSame
<1>5. SumFunctionOnSet(f, S) = f[x] + SumFunctionOnSet(f, S \ {x})
  BY <1>1, SumSteps
<1> QED BY <1>3, <1>4, <1>5

------------------------------------------------------------------------------
\* The members of a list without repetition are as many as the list is long.
LEMMA DistinctCount ==
  ASSUME NEW s \in Seq(Member), IsInjective(s)
  PROVE  /\ ToSet(s) \in SUBSET Member /\ IsFiniteSet(ToSet(s))
         /\ Cardinality(ToSet(s)) = Len(s)
<1>1. ToSet(s) \in SUBSET Member /\ DOMAIN s = 1 .. Len(s) /\ Len(s) \in Nat
  BY DEF ToSet
<1>2. IsFiniteSet(1 .. Len(s)) /\ Cardinality(1 .. Len(s)) = Len(s)
  BY <1>1, FS_Interval
<1>3. s \in [1 .. Len(s) -> ToSet(s)]
  BY <1>1 DEF ToSet
<1>4. s \in Surjection(1 .. Len(s), ToSet(s))
  BY <1>1, <1>3 DEF Surjection, ToSet
<1>5. s \in Injection(1 .. Len(s), ToSet(s))
  BY <1>3 DEF Injection, IsInjective
<1>6. IsFiniteSet(ToSet(s)) /\ Cardinality(ToSet(s)) = Cardinality(1 .. Len(s))
  BY <1>2, <1>4, <1>5, FS_Surjection
<1> QED BY <1>1, <1>2, <1>6

LEMMA DistinctPrefix ==
  ASSUME NEW s \in Seq(Member), IsInjective(s), NEW n \in Nat, n <= Len(s)
  PROVE  SubSeq(s, 1, n) \in Seq(Member) /\ Len(SubSeq(s, 1, n)) = n /\ IsInjective(SubSeq(s, 1, n))
<1>1. SubSeq(s, 1, n) \in Seq(Member) /\ Len(SubSeq(s, 1, n)) = n
  OBVIOUS
<1>2. \A k \in 1 .. n : SubSeq(s, 1, n)[k] = s[k] /\ k \in DOMAIN s
  OBVIOUS
<1>3. DOMAIN SubSeq(s, 1, n) = 1 .. n
  BY <1>1
<1> QED BY <1>1, <1>2, <1>3 DEF IsInjective

\* What holds in every state: who has dealt has a polynomial of threshold
\* coefficients, of which there are at least two, and no member is in the
\* list of responses twice.
SharesOK ==
  /\ coeffs \in [Member -> Polynomial \cup {Undealt}]
  /\ (\E d \in Member : coeffs[d] # Undealt) => Threshold >= 2
  /\ signed \in Seq(Member)
  /\ IsInjective(signed)

LEMMA AppendDistinct ==
  ASSUME NEW s \in Seq(Member), IsInjective(s), NEW i \in Member
  PROVE  /\ Append(s, i) \in Seq(Member)
         /\ i \notin ToSet(s) => IsInjective(Append(s, i))
         /\ i \in ToSet(s) => ~ IsInjective(Append(s, i))
<1>1. /\ Append(s, i) \in Seq(Member) /\ Len(Append(s, i)) = Len(s) + 1
      /\ DOMAIN Append(s, i) = 1 .. Len(s) + 1 /\ DOMAIN s = 1 .. Len(s) /\ Len(s) \in Nat
      /\ \A k \in 1 .. Len(s) : Append(s, i)[k] = s[k]
      /\ Append(s, i)[Len(s) + 1] = i
  OBVIOUS
<1>2. ASSUME i \notin ToSet(s) PROVE IsInjective(Append(s, i))
  <2> SUFFICES ASSUME NEW a \in 1 .. Len(s) + 1, NEW b \in 1 .. Len(s) + 1,
                      Append(s, i)[a] = Append(s, i)[b]
               PROVE  a = b
    BY <1>1 DEF IsInjective
  <2>1. \A k \in 1 .. Len(s) : s[k] # i
    BY <1>1, <1>2 DEF ToSet
  <2>2. CASE a \in 1 .. Len(s) /\ b \in 1 .. Len(s)
    BY <1>1, <2>2 DEF IsInjective
  <2>3. CASE a = Len(s) + 1 \/ b = Len(s) + 1
    BY <1>1, <2>1, <2>3
  <2> QED BY <1>1, <2>2, <2>3
<1>3. ASSUME i \in ToSet(s) PROVE ~ IsInjective(Append(s, i))
  <2>1. PICK k \in 1 .. Len(s) : s[k] = i
    BY <1>1, <1>3 DEF ToSet
  <2>2. k \in DOMAIN Append(s, i) /\ Len(s) + 1 \in DOMAIN Append(s, i) /\ k # Len(s) + 1
    BY <1>1
  <2>3. Append(s, i)[k] = Append(s, i)[Len(s) + 1]
    BY <1>1, <2>1
  <2> QED BY <2>2, <2>3 DEF IsInjective
<1> QED BY <1>1, <1>2, <1>3

\* The inductive invariant: the polynomials dealt have a threshold of coefficients
\* from the field, SplitWithRand deals nothing with a threshold below 2, and no
\* member is twice among the signers.
THEOREM SharesOKHolds == Spec => []SharesOK
<1>1. Init => SharesOK
  <2> SUFFICES ASSUME Init PROVE SharesOK
    OBVIOUS
  <2>1. <<>> \in Seq(Member) /\ IsInjective(<<>>)
    BY DEF IsInjective
  <2>2. coeffs \in [Member -> Polynomial \cup {Undealt}] /\ \A d \in Member : coeffs[d] = Undealt
    BY DEF Init
  <2> QED BY <2>1, <2>2 DEF Init, SharesOK
<1>2. SharesOK /\ [Next]_vars => SharesOK'
  <2> SUFFICES ASSUME SharesOK, [Next]_vars PROVE SharesOK'
    OBVIOUS
  <2>1. CASE UNCHANGED vars
    BY <2>1 DEF SharesOK, vars, Polynomial, Undealt
  <2>2. ASSUME NEW i \in Member, Deal(i) PROVE SharesOK'
    <3>1. PICK secret \in Field : \E c \in Splits(secret) : coeffs' = [coeffs EXCEPT ![i] = c]
      BY <2>2 DEF Deal
    <3>2. PICK c \in Splits(secret) : coeffs' = [coeffs EXCEPT ![i] = c]
      BY <3>1
    <3>3. Threshold >= 2 /\ c \in Polynomial
      BY <3>2, SharesAssumption DEF Splits
    <3>4. coeffs' \in [Member -> Polynomial \cup {Undealt}]
      BY <3>2, <3>3 DEF SharesOK
    <3>5. signed' = signed
      BY <2>2 DEF Deal
    <3> QED BY <3>3, <3>4, <3>5 DEF SharesOK, Polynomial, Undealt
  <2>3. ASSUME NEW i \in Member, Respond(i) PROVE SharesOK'
    <3>1. signed' = Append(signed, i) /\ i \notin ToSet(signed) /\ coeffs' = coeffs
      BY <2>3 DEF Respond
    <3>2. signed' \in Seq(Member) /\ IsInjective(signed')
      BY <3>1, AppendDistinct DEF SharesOK
    <3> QED BY <3>1, <3>2 DEF SharesOK, Polynomial, Undealt
  <2> QED BY <2>1, <2>2, <2>3 DEF Next
<1> QED BY <1>1, <1>2, PTL DEF Spec

LEMMA PolynomialType ==
  ASSUME NEW c \in Polynomial
  PROVE  /\ c \in [1 .. Threshold -> Int] /\ Threshold \in Nat /\ 1 <= Threshold
         /\ \A k \in 1 .. Threshold : c[k] \in Field
         /\ Secret(c) \in Field /\ Secret(c) % P = Secret(c)
<1>1. Threshold \in Nat /\ 1 <= Threshold
  BY SharesAssumption
<1>2. c \in [1 .. Threshold -> Field]
  BY DEF Polynomial
<1>3. c \in [1 .. Threshold -> Int]
  BY <1>2, FieldRemainder
<1>4. Secret(c) \in Field
  BY <1>1, <1>2 DEF Secret
<1> QED BY <1>1, <1>2, <1>3, <1>4, FieldRemainder

\* Recover gives the secret back from any threshold of shares, and refuses
\* fewer shares and a share given twice (property RecoverIsExact).
LEMMA RecoverIsExactState == SharesOK => RecoverIsExact
<1> SUFFICES ASSUME SharesOK, NEW d \in Member, coeffs[d] # Undealt
             PROVE  LET shares == [i \in Member |-> ShareOf(coeffs[d], i)]
                    IN  /\ Recover(shares, signed) =
                             IF Len(signed) < Threshold THEN Error ELSE Secret(coeffs[d])
                        /\ \A i \in ToSet(signed) : Recover(shares, Append(signed, i)) = Error
  BY DEF RecoverIsExact
<1>1. PICK c \in Polynomial : c = coeffs[d]
  BY DEF SharesOK
<1>2. Threshold >= 2 /\ signed \in Seq(Member) /\ IsInjective(signed) /\ Threshold \in Nat
  BY SharesAssumption DEF SharesOK
<1> DEFINE shares == [i \in Member |-> ShareOf(c, i)]
<1>3. ASSUME NEW i \in Member
      PROVE  shares[i] \in Int /\ Divides(shares[i] - Value(c, i + 1))
  <2>1. i + 1 \in Int
    BY MembersArePoints
  <2>2. PICK v \in Int : v = Value(c, i + 1) /\ shares[i] = v % P
    BY <2>1, PolynomialType, ValueType DEF ShareOf
  <2>3. v % P \in Int /\ (v % P) % P = v % P
    BY Remainder, FieldRemainder
  <2>4. Divides((v % P) - v)
    BY <2>3, SameRemainder
  <2> QED BY <2>2, <2>3, <2>4
<1>4. ASSUME Len(signed) >= Threshold PROVE Recover(shares, signed) = Secret(c)
  <2>1. PICK ms : ms = ToSet(SubSeq(signed, 1, Threshold))
    OBVIOUS
  <2>2. ms \in SUBSET Member /\ Cardinality(ms) = Threshold
    <3>1. Threshold <= Len(signed)
      BY <1>2, <1>4
    <3>2. SubSeq(signed, 1, Threshold) \in Seq(Member) /\ IsInjective(SubSeq(signed, 1, Threshold))
          /\ Len(SubSeq(signed, 1, Threshold)) = Threshold
      BY <1>2, <3>1, DistinctPrefix
    <3> QED BY <2>1, <3>2, DistinctCount
  <2>3. Recover(shares, signed) = Interpolate(ms, shares)
    BY <1>2, <1>4, <2>1 DEF Recover
  <2>4. \A i \in ms : shares[i] \in Int /\ Divides(shares[i] - Value(c, i + 1))
    BY <1>3, <2>2
  <2>5. c \in [1 .. Threshold -> Int] /\ 1 <= Threshold /\ Threshold <= Cardinality(ms)
    BY <2>2, PolynomialType
  <2> HIDE DEF shares
  <2>6. Interpolate(ms, shares) = Secret(c) % P
    BY <1>2, <2>2, <2>4, <2>5, InterpolateSecret
  <2> QED BY <2>3, <2>6, PolynomialType
<1>5. ASSUME Len(signed) < Threshold PROVE Recover(shares, signed) = Error
  BY <1>5 DEF Recover
<1>6. ASSUME NEW i \in ToSet(signed) PROVE Recover(shares, Append(signed, i)) = Error
  <2>1. i \in Member
    BY <1>2, <1>6 DEF ToSet
  <2>2. ~ IsInjective(Append(signed, i))
    BY <1>2, <1>6, <2>1, AppendDistinct
  <2> QED BY <2>2 DEF Recover
<1>7. Len(signed) \in Nat
  BY <1>2
<1> QED BY <1>1, <1>2, <1>4, <1>5, <1>6, <1>7
\* The sum of the dealers' polynomials: its coefficients are the sums of theirs,
\* and a member's key share is its value.
SumPolynomial ==
  [k \in 1 .. Threshold |-> SumFunctionOnSet([d \in Member |-> coeffs[d][k]], Member)]

LEMMA SumPolynomialType ==
  ASSUME SharesOK, Dealt
  PROVE  /\ \A d \in Member : coeffs[d] \in Polynomial /\ coeffs[d] \in [1 .. Threshold -> Int]
         /\ \A k \in 1 .. Threshold : [d \in Member |-> coeffs[d][k]] \in [Member -> Int]
         /\ SumPolynomial \in [1 .. Threshold -> Int]
         /\ CommitteeSecret = Secret(SumPolynomial) % P
<1>1. \A d \in Member : coeffs[d] \in Polynomial
  BY DEF SharesOK, Dealt
<1>2. \A d \in Member : coeffs[d] \in [1 .. Threshold -> Int]
  BY <1>1, PolynomialType
<1>3. \A k \in 1 .. Threshold : [d \in Member |-> coeffs[d][k]] \in [Member -> Int]
  BY <1>2
<1>4. \A k \in 1 .. Threshold :
        SumFunctionOnSet([d \in Member |-> coeffs[d][k]], Member) \in Int
  BY <1>3, MembersArePoints, SumSteps
<1>5. SumPolynomial \in [1 .. Threshold -> Int]
  BY <1>4 DEF SumPolynomial
<1>6. 1 \in 1 .. Threshold
  BY SharesAssumption
<1>7. CommitteeSecret = Secret(SumPolynomial) % P
  BY <1>6 DEF CommitteeSecret, SumFunction, Secret, SumPolynomial
<1> QED BY <1>1, <1>2, <1>3, <1>5, <1>7

LEMMA LocalShareValue ==
  ASSUME SharesOK, Dealt, NEW i \in Member
  PROVE  /\ LocalShare[i] \in Field /\ LocalShare[i] \in Int
         /\ Divides(LocalShare[i] - Value(SumPolynomial, i + 1))
<1> DEFINE n == Threshold
           x == i + 1
           h == [p \in Member \X (1 .. n) |-> coeffs[p[1]][p[2]] * Power(x, p[2] - 1)]
           row(d) == [k \in 1 .. n |-> h[<<d, k>>]]
           col(k) == [d \in Member |-> h[<<d, k>>]]
           rows == [d \in Member |-> SumFunctionOnSet(row(d), 1 .. n)]
           cols == [k \in 1 .. n |-> SumFunctionOnSet(col(k), Member)]
           sh == [d \in Member |-> ShareOf(coeffs[d], i)]
           terms == [k \in 1 .. n |-> SumPolynomial[k] * Power(x, k - 1)]
<1>1. n \in Nat /\ IsFiniteSet(1 .. n) /\ IsFiniteSet(Member) /\ x \in Int
  BY SharesAssumption, FS_Interval, MembersArePoints
<1>2. \A d \in Member : coeffs[d] \in [1 .. n -> Int]
  BY SumPolynomialType
<1>3. \A k \in 1 .. n : Power(x, k - 1) \in Int
  <2> SUFFICES ASSUME NEW k \in 1 .. n PROVE Power(x, k - 1) \in Int
    OBVIOUS
  <2>1. k - 1 \in Nat
    BY <1>1
  <2> QED BY <1>1, <2>1, PowerSteps
<1> HIDE DEF n, x
<1>c. \A d \in Member, k \in 1 .. n : coeffs[d][k] \in Int /\ coeffs[d][k] * Power(x, k - 1) \in Int
  <2> SUFFICES ASSUME NEW d \in Member, NEW k \in 1 .. n
               PROVE  coeffs[d][k] \in Int /\ coeffs[d][k] * Power(x, k - 1) \in Int
    OBVIOUS
  <2>1. coeffs[d][k] \in Int /\ Power(x, k - 1) \in Int
    BY <1>2, <1>3
  <2> QED BY <2>1
<1>4. h \in [Member \X (1 .. n) -> Int]
  BY <1>c
<1>5. \A d \in Member : row(d) \in [1 .. n -> Int] /\ rows[d] = Value(coeffs[d], x)
        /\ rows[d] \in Int /\ sh[d] = rows[d] % P
  <2> SUFFICES ASSUME NEW d \in Member
               PROVE  row(d) \in [1 .. n -> Int] /\ rows[d] = Value(coeffs[d], x)
                        /\ rows[d] \in Int /\ sh[d] = rows[d] % P
    OBVIOUS
  <2>1. row(d) = [k \in 1 .. n |-> coeffs[d][k] * Power(x, k - 1)]
    OBVIOUS
  <2>2. PICK c \in [1 .. n -> Int] : c = coeffs[d]
    BY <1>2
  <2>3. /\ [k \in 1 .. n |-> c[k] * Power(x, k - 1)] \in [1 .. n -> Int]
        /\ Value(c, x) = SumFunctionOnSet([k \in 1 .. n |-> c[k] * Power(x, k - 1)], 1 .. n)
        /\ Value(c, x) \in Int
        /\ EvalPoly(c, x) = Value(c, x) % P
    BY <1>1, ValueType
  <2>4. rows[d] = SumFunctionOnSet(row(d), 1 .. n) /\ sh[d] = EvalPoly(c, x)
    BY <2>2 DEF ShareOf, x
  <2> HIDE DEF rows, row, sh
  <2> QED BY <2>1, <2>2, <2>3, <2>4
<1>6. rows \in [Member -> Int]
  BY <1>5
<1>7. sh \in [Member -> Int] /\ \A d \in Member : Divides(sh[d] - rows[d])
  <2> HIDE DEF rows
  <2>1. ASSUME NEW d \in Member PROVE sh[d] \in Int /\ Divides(sh[d] - rows[d])
    <3>1. PICK v \in Int : v = rows[d] /\ sh[d] = v % P
      BY <1>5
    <3>2. v % P \in Int /\ v % P \in Field
      BY Remainder
    <3>3. (v % P) % P = v % P
      BY <3>2, FieldRemainder
    <3>4. Divides((v % P) - v)
      BY <3>2, <3>3, SameRemainder
    <3> QED BY <3>1, <3>2, <3>4
  <2>2. sh = [d \in Member |-> sh[d]]
    OBVIOUS
  <2> HIDE DEF sh
  <2> QED BY <2>1, <2>2
<1>8. SumFunctionOnSet(rows, Member) = SumFunctionOnSet(cols, 1 .. n)
  <2> HIDE DEF h
  <2> QED BY <1>1, <1>4, SumSwap
<1>9. ASSUME NEW k \in 1 .. n PROVE cols[k] = terms[k]
  <2> DEFINE a == [d \in Member |-> coeffs[d][k]]
  <2>1. a \in [Member -> Int] /\ col(k) \in [Member -> Int]
    BY <1>c
  <2>2. PICK p \in Int : p = Power(x, k - 1)
    BY <1>3
  <2>3. \A d \in Member : col(k)[d] = p * a[d]
    <3> SUFFICES ASSUME NEW d \in Member PROVE col(k)[d] = p * a[d]
      OBVIOUS
    <3>1. col(k)[d] = coeffs[d][k] * Power(x, k - 1) /\ a[d] = coeffs[d][k] /\ a[d] \in Int
      BY <2>1
    <3> QED BY <2>2, <3>1
  <2>4. SumFunctionOnSet(col(k), Member) = p * SumFunctionOnSet(a, Member)
    <3>1. PICK y \in [Member -> Int], z \in [Member -> Int] : y = col(k) /\ z = a
      BY <2>1
    <3>2. \A d \in Member : y[d] = p * z[d]
      BY <2>3, <3>1
    <3>3. SumFunctionOnSet(y, Member) = p * SumFunctionOnSet(z, Member)
      BY <1>1, <3>2, SumTimes
    <3> HIDE DEF col, a
    <3> QED BY <3>1, <3>3
  <2>5. cols[k] = SumFunctionOnSet(col(k), Member)
    OBVIOUS
  <2>6. SumPolynomial[k] = SumFunctionOnSet(a, Member) /\ SumPolynomial[k] \in Int
    BY SumPolynomialType DEF SumPolynomial, n
  <2>7. terms[k] = SumPolynomial[k] * p
    BY <2>2
  <2> HIDE DEF cols, col, a, terms
  <2>8. PICK A \in Int : A = SumPolynomial[k]
    BY <2>6
  <2> QED BY <2>4, <2>5, <2>6, <2>7, <2>8
<1>10. cols = terms
  <2>1. cols = [k \in 1 .. n |-> cols[k]] /\ terms = [k \in 1 .. n |-> terms[k]]
    OBVIOUS
  <2> HIDE DEF cols, terms
  <2> QED BY <1>9, <2>1
<1>11. SumFunctionOnSet(terms, 1 .. n) = Value(SumPolynomial, x)
  BY <1>1, SumPolynomialType, ValueType DEF n
<1>12. Divides(SumFunctionOnSet(sh, Member) - SumFunctionOnSet(rows, Member))
  <2> HIDE DEF sh, rows
  <2> QED BY <1>1, <1>6, <1>7, SumModulo
<1>13. PICK s \in Int, v \in Int : s = SumFunctionOnSet(sh, Member) /\ v = SumFunctionOnSet(rows, Member)
  <2> HIDE DEF sh, rows
  <2> QED BY <1>1, <1>6, <1>7, SumSteps
<1>14. LocalShare[i] = s % P
  BY <1>13 DEF LocalShare, SumFunction
<1> HIDE DEF sh, rows, cols, terms
<1>15. Divides(s - v) /\ v = Value(SumPolynomial, x)
  BY <1>8, <1>10, <1>11, <1>12, <1>13
<1>16. s % P \in Field /\ s % P \in Int /\ Divides(s - (s % P))
  BY Remainder
<1>17. PICK r \in Int : r = s % P
  BY <1>16
<1>18. Divides((s - v) - (s - r))
  BY <1>15, <1>16, <1>17, DividesPlus
<1>19. (s - v) - (s - r) = r - v
  OBVIOUS
<1> QED BY <1>14, <1>15, <1>16, <1>17, <1>18, <1>19 DEF x

\* The interpolation of the key shares of enough members is the secret of the
\* committee.
LEMMA SharesCombine ==
  ASSUME SharesOK, Dealt, NEW members \in SUBSET Member, Threshold <= Cardinality(members)
  PROVE  Interpolate(members, LocalShare) = CommitteeSecret
<1>1. Threshold \in Nat /\ 1 <= Threshold
  BY SharesAssumption
<1>2. \A i \in members :
        LocalShare[i] \in Int /\ Divides(LocalShare[i] - Value(SumPolynomial, i + 1))
  BY LocalShareValue
<1>3. SumPolynomial \in [1 .. Threshold -> Int] /\ CommitteeSecret = Secret(SumPolynomial) % P
  BY SumPolynomialType
<1> QED BY <1>1, <1>2, <1>3, InterpolateSecret

\* The committee key is the sum of the same secrets, over the dealers' numbers
\* from 1.
LEMMA KeyIsSecret ==
  ASSUME SharesOK, Dealt, CommitteeKey # Error
  PROVE  CommitteeKey = CommitteeSecret
<1> DEFINE R == 1 .. CommitteeSize
           points == [d \in R |-> Secret(coeffs[d - 1])]
           secrets == [d \in Member |-> Secret(coeffs[d])]
           name == [d \in R |-> d - 1]
<1>1. CommitteeSize \in Nat /\ IsFiniteSet(R) /\ IsFiniteSet(Member)
  BY SharesAssumption, FS_Interval, MembersArePoints
<1>2. secrets \in [Member -> Int]
  <2>1. \A d \in Member : Secret(coeffs[d]) \in Int
    BY SumPolynomialType, PolynomialType, FieldRemainder
  <2> QED BY <2>1
<1>3. name \in [R -> Member] /\ (\A a, b \in R : name[a] = name[b] => a = b)
      /\ (\A z \in Member : \E a \in R : name[a] = z)
  <2>1. name \in [R -> Member] /\ \A a, b \in R : name[a] = name[b] => a = b
    BY <1>1 DEF Member
  <2>2. ASSUME NEW z \in Member PROVE \E a \in R : name[a] = z
    <3>1. z + 1 \in R /\ (z + 1) - 1 = z
      BY <1>1 DEF Member
    <3> QED BY <3>1
  <2> QED BY <2>1, <2>2
<1>4. points \in [R -> Int] /\ \A d \in R : points[d] = secrets[name[d]]
  <2>1. \A d \in R : d - 1 \in Member
    BY <1>1 DEF Member
  <2> QED BY <1>2, <2>1
<1>5. SumFunctionOnSet(points, R) = SumFunctionOnSet(secrets, Member)
  <2> HIDE DEF points, secrets, name, R
  <2> QED BY <1>1, <1>2, <1>3, <1>4, SumRenamed
<1>6. CommitteeKey = SumFunctionOnSet(points, R) % P
  BY DEF CommitteeKey, AggregatePublicKeys, SumFunction
<1>7. CommitteeSecret = SumFunctionOnSet(secrets, Member) % P
  BY DEF CommitteeSecret, SumFunction
<1> QED BY <1>5, <1>6, <1>7

\* Any threshold of responses combines to a signature under the committee key
\* (property AnyThresholdCombines).
LEMMA AnyThresholdCombinesState == SharesOK => AnyThresholdCombines
<1> SUFFICES ASSUME SharesOK, Enough, CommitteeKey # Error
             PROVE  AggregateThresholdSignatures(LocalShare, signed) = CommitteeKey
  BY DEF AnyThresholdCombines
<1>1. Dealt /\ Len(signed) >= Threshold /\ signed \in Seq(Member) /\ IsInjective(signed)
  BY DEF Enough, SharesOK
<1>2. Threshold \in Nat /\ 1 <= Threshold /\ Len(signed) \in Nat
  BY <1>1, SharesAssumption
<1>3. signed # <<>>
  BY <1>1, <1>2
<1>4. AggregateThresholdSignatures(LocalShare, signed) = Interpolate(ToSet(signed), LocalShare)
  BY <1>1, <1>3 DEF AggregateThresholdSignatures
<1>5. ToSet(signed) \in SUBSET Member /\ Threshold <= Cardinality(ToSet(signed))
  BY <1>1, <1>2, DistinctCount
<1> QED BY <1>1, <1>4, <1>5, SharesCombine, KeyIsSecret

\* A share of another key changes the result (property ForeignShareIsNoticed).
LEMMA ForeignShareIsNoticedState == SharesOK => ForeignShareIsNoticed
<1> SUFFICES ASSUME SharesOK, Enough, NEW i \in ToSet(signed), NEW v \in Field \ {LocalShare[i]}
             PROVE  AggregateThresholdSignatures([LocalShare EXCEPT ![i] = v], signed)
                      # CommitteeSecret
  BY DEF ForeignShareIsNoticed
<1>1. Dealt /\ Len(signed) >= Threshold /\ signed \in Seq(Member) /\ IsInjective(signed)
  BY DEF Enough, SharesOK
<1>2. Threshold \in Nat /\ 1 <= Threshold /\ Len(signed) \in Nat
  BY <1>1, SharesAssumption
<1>3. signed # <<>>
  BY <1>1, <1>2
<1>4. PICK ms \in SUBSET Member : ms = ToSet(signed) /\ Threshold <= Cardinality(ms) /\ IsFiniteSet(ms)
  BY <1>1, <1>2, DistinctCount
<1> DEFINE other == [LocalShare EXCEPT ![i] = v]
           f == [j \in ms |-> LocalShare[j] * Weight(ms, j)]
           g == [j \in ms |-> other[j] * Weight(ms, j)]
           d == [j \in ms |-> IF j = i THEN (v - LocalShare[i]) * Weight(ms, i) ELSE 0]
<1>5. i \in ms /\ v \in Int /\ v \in Field /\ v # LocalShare[i]
  BY <1>4, FieldRemainder
<1>6. LocalShare = [j \in Member |-> LocalShare[j]]
      /\ \A j \in ms : LocalShare[j] \in Int /\ LocalShare[j] \in Field
  BY <1>1, LocalShareValue DEF LocalShare
<1>7. other[i] = v /\ \A j \in ms : other[j] \in Int /\ (j # i => other[j] = LocalShare[j])
  BY <1>5, <1>6
<1>8. \A j \in ms : Weight(ms, j) \in Int
  BY WeightType
<1> HIDE DEF other
<1>9. f \in [ms -> Int] /\ g \in [ms -> Int] /\ Interpolate(ms, LocalShare) = SumFunctionOnSet(f, ms) % P
      /\ Interpolate(ms, other) = SumFunctionOnSet(g, ms) % P
  BY <1>6, <1>7, InterpolateIsSum
<1>10. PICK w \in Int, u \in Int : w = Weight(ms, i) /\ u = LocalShare[i] /\ ~ Divides(w)
  BY <1>5, <1>6, WeightType
<1>11. d \in [ms -> Int] /\ d[i] = (v - u) * w /\ \A j \in ms \ {i} : d[j] = 0
  BY <1>5, <1>10
<1>12. \A j \in ms : g[j] = f[j] + d[j]
  <2> SUFFICES ASSUME NEW j \in ms PROVE g[j] = f[j] + d[j]
    OBVIOUS
  <2>1. CASE j = i
    <3>1. g[j] = v * w /\ f[j] = u * w /\ d[j] = (v - u) * w
      BY <2>1, <1>5, <1>7, <1>10
    <3>2. v * w = u * w + (v - u) * w
      BY <1>5
    <3> QED BY <3>1, <3>2
  <2>2. CASE j # i
    <3>1. g[j] = f[j] /\ d[j] = 0 /\ f[j] \in Int
      BY <2>2, <1>7, <1>9
    <3> QED BY <3>1
  <2> QED BY <2>1, <2>2
<1> HIDE DEF f, g, d
<1>13. SumFunctionOnSet(g, ms) = SumFunctionOnSet(f, ms) + SumFunctionOnSet(d, ms)
  BY <1>4, <1>9, <1>11, <1>12, SumPlus
<1>14. SumFunctionOnSet(d, ms) = (v - u) * w
  BY <1>4, <1>5, <1>11, SumOnly
<1>15. PICK F \in Int, G \in Int : F = SumFunctionOnSet(f, ms) /\ G = SumFunctionOnSet(g, ms)
  BY <1>4, <1>9, SumSteps
<1>16. ASSUME G % P = F % P PROVE FALSE
  <2>1. Divides(G - F)
    BY <1>16, SameRemainder
  <2>2. v - u \in Int /\ (v - u) * w \in Int
    BY <1>5
  <2>3. G - F = w * (v - u)
    BY <1>13, <1>14, <1>15, <2>2
  <2>4. Divides(v - u)
    BY <1>10, <2>1, <2>2, <2>3, DividesFactor
  <2>5. v = u
    BY <1>5, <1>6, <1>10, <2>4, SameInField
  <2> QED BY <1>5, <1>10, <2>5
<1>17. Interpolate(ms, LocalShare) = CommitteeSecret
  BY <1>1, <1>4, SharesCombine
<1>18. AggregateThresholdSignatures(other, signed) = Interpolate(ms, other)
  BY <1>1, <1>3, <1>4 DEF AggregateThresholdSignatures
<1> QED BY <1>9, <1>15, <1>16, <1>17, <1>18 DEF other
------------------------------------------------------------------------------
\* Polynomials whose coefficients are the same modulo P, and combinations.
LEMMA ValueModulo ==
  ASSUME NEW n \in Nat, NEW b \in [1 .. n -> Int], NEW c \in [1 .. n -> Int], NEW x \in Int,
         \A k \in 1 .. n : Divides(b[k] - c[k])
  PROVE  Divides(Value(b, x) - Value(c, x))
<1>1. PICK S : S = 1 .. n
  OBVIOUS
<1> DEFINE f == [k \in S |-> b[k] * Power(x, k - 1)]
           g == [k \in S |-> c[k] * Power(x, k - 1)]
<1>2. /\ f \in [S -> Int] /\ g \in [S -> Int] /\ IsFiniteSet(S)
      /\ Value(b, x) = SumFunctionOnSet(f, S) /\ Value(c, x) = SumFunctionOnSet(g, S)
  BY <1>1, ValueType
<1>3. ASSUME NEW k \in S PROVE Divides(f[k] - g[k])
  <2>1. k - 1 \in Nat
    BY <1>1
  <2>2. PICK u \in Int, v \in Int, p \in Int : u = b[k] /\ v = c[k] /\ p = Power(x, k - 1)
    BY <1>1, <2>1, PowerSteps
  <2>3. Divides(u - v) /\ u - v \in Int
    BY <1>1, <2>2
  <2>4. Divides((u - v) * p)
    BY <2>3, DividesTimes
  <2>5. (u - v) * p = u * p - v * p
    OBVIOUS
  <2> QED BY <2>2, <2>4, <2>5
<1> HIDE DEF f, g
<1>4. Divides(SumFunctionOnSet(f, S) - SumFunctionOnSet(g, S))
  BY <1>2, <1>3, SumModulo
<1> QED BY <1>2, <1>4

\* The sum lemmas used below, with their hypotheses named.
IsTerms(h, S) == IsFiniteSet(S) /\ h \in [S -> Int]
AgreeOn(g, h, A) == \A x \in A : g[x] = h[x]

LEMMA SumWithout ==
  ASSUME NEW S, NEW h, IsTerms(h, S), NEW x \in S
  PROVE  SumFunctionOnSet(h, S) = h[x] + SumFunctionOnSet(h, S \ {x})
<1>1. IsFiniteSet(S) /\ h \in [S -> Int] /\ S \in SUBSET S
  BY DEF IsTerms
<1> QED BY <1>1, SumSteps

IsMultiple(f, a, g, S) == \A x \in S : f[x] = a * g[x]

LEMMA SumMultiple ==
  ASSUME NEW S, NEW f, NEW g, NEW a \in Int, IsTerms(f, S), IsTerms(g, S),
         IsMultiple(f, a, g, S)
  PROVE  SumFunctionOnSet(f, S) = a * SumFunctionOnSet(g, S)
<1>1. IsFiniteSet(S) /\ f \in [S -> Int] /\ g \in [S -> Int]
  BY DEF IsTerms
<1>2. \A x \in S : f[x] = a * g[x]
  BY DEF IsMultiple
<1> QED BY <1>1, <1>2, SumTimes

LEMMA SumAgree ==
  ASSUME NEW S, NEW R, NEW g, NEW h, IsTerms(g, S), IsTerms(h, R), R \subseteq S,
         AgreeOn(g, h, R)
  PROVE  SumFunctionOnSet(g, R) = SumFunctionOnSet(h, R)
<1>1. IsFiniteSet(S) /\ g \in [S -> Int] /\ IsFiniteSet(R) /\ h \in [R -> Int] /\ R \subseteq R
  BY DEF IsTerms
<1>2. \A x \in R : g[x] = h[x]
  BY DEF AgreeOn
<1> QED BY <1>1, <1>2, SumSame

\* Linear combinations.
IsCombination(e, u, b, v, c, n) ==
  /\ b \in [1 .. n -> Int] /\ c \in [1 .. n -> Int] /\ e \in [1 .. n -> Int]
  /\ \A k \in 1 .. n : e[k] = u * b[k] + v * c[k]

LEMMA ValueCombination ==
  ASSUME NEW n \in Nat, NEW b, NEW c, NEW e, NEW x \in Int, NEW u \in Int, NEW v \in Int,
         IsCombination(e, u, b, v, c, n)
  PROVE  Value(e, x) = u * Value(b, x) + v * Value(c, x)
<1>0. b \in [1 .. n -> Int] /\ c \in [1 .. n -> Int] /\ e \in [1 .. n -> Int]
  BY DEF IsCombination
<1>1. PICK S : S = 1 .. n
  OBVIOUS
<1> DEFINE f == [k \in S |-> b[k] * Power(x, k - 1)]
           g == [k \in S |-> c[k] * Power(x, k - 1)]
           h == [k \in S |-> e[k] * Power(x, k - 1)]
           uf == [k \in S |-> u * f[k]]
           vg == [k \in S |-> v * g[k]]
<1>2. /\ f \in [S -> Int] /\ g \in [S -> Int] /\ h \in [S -> Int] /\ IsFiniteSet(S)
      /\ Value(b, x) = SumFunctionOnSet(f, S) /\ Value(c, x) = SumFunctionOnSet(g, S)
      /\ Value(e, x) = SumFunctionOnSet(h, S)
  <2>1. f \in [S -> Int] /\ IsFiniteSet(S) /\ Value(b, x) = SumFunctionOnSet(f, S)
    BY <1>0, <1>1, ValueType
  <2>2. g \in [S -> Int] /\ Value(c, x) = SumFunctionOnSet(g, S)
    BY <1>0, <1>1, ValueType
  <2>3. h \in [S -> Int] /\ Value(e, x) = SumFunctionOnSet(h, S)
    BY <1>0, <1>1, ValueType
  <2> QED BY <2>1, <2>2, <2>3
<1>3. ASSUME NEW k \in S PROVE h[k] = u * f[k] + v * g[k]
  <2>1. k - 1 \in Nat
    BY <1>1
  <2>2. PICK s \in Int, t \in Int, p \in Int : s = b[k] /\ t = c[k] /\ p = Power(x, k - 1)
    BY <1>0, <1>1, <2>1, PowerSteps
  <2>3. e[k] = u * s + v * t
    BY <1>1, <2>2 DEF IsCombination
  <2>4. (u * s + v * t) * p = u * (s * p) + v * (t * p)
    OBVIOUS
  <2> QED BY <2>2, <2>3, <2>4
<1>4. uf \in [S -> Int] /\ vg \in [S -> Int]
  <2> HIDE DEF f, g
  <2> QED BY <1>2
<1>5. (\A k \in S : h[k] = uf[k] + vg[k]) /\ (\A k \in S : uf[k] = u * f[k] /\ vg[k] = v * g[k])
  <2> HIDE DEF f, g, h
  <2> QED BY <1>3
<1> HIDE DEF f, g, h, uf, vg
<1>t. f \in [S -> Int] /\ g \in [S -> Int] /\ h \in [S -> Int] /\ IsFiniteSet(S)
  BY <1>2
<1>6. SumFunctionOnSet(h, S) = SumFunctionOnSet(uf, S) + SumFunctionOnSet(vg, S)
  <2>1. PICK hh \in [S -> Int], up \in [S -> Int], vp \in [S -> Int] : hh = h /\ up = uf /\ vp = vg
    BY <1>t, <1>4
  <2>2. \A k \in S : hh[k] = up[k] + vp[k]
    BY <1>5, <2>1
  <2>3. IsFiniteSet(S)
    BY <1>t
  <2>4. SumFunctionOnSet(hh, S) = SumFunctionOnSet(up, S) + SumFunctionOnSet(vp, S)
    BY <2>2, <2>3, SumPlus
  <2> QED BY <2>1, <2>4
<1>7. SumFunctionOnSet(uf, S) = u * SumFunctionOnSet(f, S)
  <2>1. IsMultiple(uf, u, f, S)
    BY <1>5 DEF IsMultiple
  <2>2. IsTerms(uf, S) /\ IsTerms(f, S)
    BY <1>t, <1>4 DEF IsTerms
  <2> QED BY <2>1, <2>2, SumMultiple
<1>8. SumFunctionOnSet(vg, S) = v * SumFunctionOnSet(g, S)
  <2>1. IsMultiple(vg, v, g, S)
    BY <1>5 DEF IsMultiple
  <2>2. IsTerms(vg, S) /\ IsTerms(g, S)
    BY <1>t, <1>4 DEF IsTerms
  <2> QED BY <2>1, <2>2, SumMultiple
<1> QED BY <1>2, <1>6, <1>7, <1>8

\* A polynomial times its variable: the coefficients move up by one.
IsShift(s, q, n) ==
  /\ q \in [1 .. n -> Int] /\ s \in [1 .. n -> Int]
  /\ q[n] = 0 /\ s[1] = 0 /\ \A k \in 1 .. n - 1 : s[k + 1] = q[k]

LEMMA ValueShift ==
  ASSUME NEW n \in Nat, 1 <= n, NEW q, NEW s, NEW x \in Int, IsShift(s, q, n)
  PROVE  Divides(Value(s, x) - x * Value(q, x))
<1>0. q \in [1 .. n -> Int] /\ s \in [1 .. n -> Int]
  BY DEF IsShift
<1>1. PICK S, L, U : S = 1 .. n /\ L = 1 .. n - 1 /\ U = 2 .. n
  OBVIOUS
<1>2. /\ L \in SUBSET S /\ U \in SUBSET S /\ S \in SUBSET S /\ IsFiniteSet(S) /\ IsFiniteSet(L)
      /\ IsFiniteSet(U) /\ n \in S /\ 1 \in S /\ L = S \ {n} /\ U = S \ {1}
  <2>1. L = S \ {n} /\ U = S \ {1} /\ n \in S /\ 1 \in S
    BY <1>1
  <2>2. IsFiniteSet(S)
    BY <1>1, FS_Interval
  <2> QED BY <2>1, <2>2, FS_Subset
<1> DEFINE f == [k \in S |-> q[k] * Power(x, k)]
           g == [k \in S |-> s[k] * Power(x, k - 1)]
           e == [k \in S |-> q[k] * Power(x, k - 1)]
           xe == [k \in S |-> x * e[k]]
           fl == [k \in L |-> f[k]]
           gu == [k \in U |-> g[k]]
           up == [k \in L |-> k + 1]
<1>3. /\ g \in [S -> Int] /\ e \in [S -> Int]
      /\ Value(s, x) = SumFunctionOnSet(g, S) /\ Value(q, x) = SumFunctionOnSet(e, S)
  BY <1>0, <1>1, ValueType
<1>4. \A k \in S : k \in Nat /\ k - 1 \in Nat /\ (k - 1) + 1 = k
        /\ Power(x, k) \in Int /\ Power(x, k - 1) \in Int /\ q[k] \in Int
        /\ Divides(Power(x, k) - x * Power(x, k - 1))
  <2> SUFFICES ASSUME NEW k \in S
               PROVE  k \in Nat /\ k - 1 \in Nat /\ (k - 1) + 1 = k
                        /\ Power(x, k) \in Int /\ Power(x, k - 1) \in Int /\ q[k] \in Int
                        /\ Divides(Power(x, k) - x * Power(x, k - 1))
    OBVIOUS
  <2>1. k \in Nat /\ k - 1 \in Nat /\ (k - 1) + 1 = k /\ q[k] \in Int
    BY <1>0, <1>1
  <2>2. Power(x, k) \in Int /\ Power(x, k - 1) \in Int
    BY <2>1, PowerSteps
  <2>3. PICK m \in Nat : m = k - 1 /\ m + 1 = k
    BY <2>1
  <2>4. Divides(Power(x, m + 1) - x * Power(x, m))
    BY PowerSteps
  <2> QED BY <2>1, <2>2, <2>3, <2>4
<1>5. f \in [S -> Int]
  <2>1. \A k \in S : q[k] * Power(x, k) \in Int
    BY <1>4
  <2> QED BY <2>1
<1>6. xe \in [S -> Int] /\ \A k \in S : xe[k] = x * e[k]
  <2> HIDE DEF e
  <2> QED BY <1>3
<1>7. ASSUME NEW k \in S PROVE Divides(f[k] - xe[k])
  <2>1. PICK a \in Int, p \in Int, r \in Int : a = q[k] /\ p = Power(x, k) /\ r = Power(x, k - 1)
    BY <1>4
  <2>2. Divides(p - x * r) /\ p - x * r \in Int
    BY <1>4, <2>1
  <2>3. Divides(a * (p - x * r))
    BY <2>2, DividesTimes
  <2>4. a * (p - x * r) = a * p - x * (a * r)
    OBVIOUS
  <2> QED BY <2>1, <2>3, <2>4
<1>8. up \in [L -> U] /\ (\A a, b \in L : up[a] = up[b] => a = b)
      /\ (\A z \in U : \E a \in L : up[a] = z)
  <2>1. up \in [L -> U] /\ \A a, b \in L : up[a] = up[b] => a = b
    BY <1>1
  <2>2. ASSUME NEW z \in U PROVE \E a \in L : up[a] = z
    <3>1. z - 1 \in L /\ (z - 1) + 1 = z
      BY <1>1
    <3> QED BY <3>1
  <2> QED BY <2>1, <2>2
<1>9. fl \in [L -> Int] /\ gu \in [U -> Int] /\ (\A k \in L : fl[k] = f[k]) /\ (\A k \in U : gu[k] = g[k])
  <2> HIDE DEF f, g
  <2> QED BY <1>2, <1>3, <1>5
<1>10. \A k \in L : fl[k] = gu[up[k]]
  <2> SUFFICES ASSUME NEW k \in L PROVE fl[k] = gu[up[k]]
    OBVIOUS
  <2>1. k \in S /\ k + 1 \in S /\ k + 1 \in U /\ s[k + 1] = q[k] /\ (k + 1) - 1 = k
    BY <1>1 DEF IsShift
  <2> QED BY <2>1
<1>11. f[n] = 0 /\ g[1] = 0
  <2>1. Power(x, n) \in Int /\ Power(x, 1 - 1) \in Int
    BY <1>2, <1>4
  <2>2. q[n] = 0 /\ s[1] = 0
    BY DEF IsShift
  <2>3. f[n] = q[n] * Power(x, n) /\ g[1] = s[1] * Power(x, 1 - 1)
    BY <1>2
  <2>4. PICK a \in Int, c \in Int : a = Power(x, n) /\ c = Power(x, 1 - 1)
    BY <2>1
  <2>5. f[n] = 0 * a /\ g[1] = 0 * c
    <3> HIDE DEF f, g
    <3> QED BY <2>2, <2>3, <2>4
  <2>6. 0 * a = 0 /\ 0 * c = 0
    OBVIOUS
  <2> HIDE DEF f, g
  <2> QED BY <2>5, <2>6
<1> HIDE DEF f, g, e, xe, fl, gu, up
<1>t. g \in [S -> Int] /\ e \in [S -> Int] /\ fl \in [L -> Int] /\ gu \in [U -> Int]
  BY <1>3, <1>9
<1>s. L \in SUBSET S /\ U \in SUBSET S /\ S \in SUBSET S /\ L \subseteq L /\ U \subseteq U
  BY <1>2
<1>p. IsFiniteSet(S) /\ IsFiniteSet(L) /\ IsFiniteSet(U) /\ n \in S /\ 1 \in S
  BY <1>2
<1>w. IsTerms(f, S) /\ IsTerms(g, S) /\ IsTerms(fl, L) /\ IsTerms(gu, U)
  BY <1>p, <1>t, <1>5 DEF IsTerms
<1>12. SumFunctionOnSet(fl, L) = SumFunctionOnSet(gu, U)
  <2>1. \A j, k \in L : up[j] = up[k] => j = k
    BY <1>8
  <2>2. \A z \in U : \E k \in L : up[k] = z
    BY <1>8
  <2>3. up \in [L -> U]
    BY <1>8
  <2> QED BY <1>p, <1>t, <1>10, <2>1, <2>2, <2>3, SumRenamed
<1>13. SumFunctionOnSet(f, L) = SumFunctionOnSet(fl, L) /\ SumFunctionOnSet(g, U) = SumFunctionOnSet(gu, U)
  <2>1. SumFunctionOnSet(f, L) = SumFunctionOnSet(fl, L)
    <3>1. AgreeOn(f, fl, L)
      BY <1>9 DEF AgreeOn
    <3>2. L \subseteq S
      BY <1>s
    <3> QED BY <1>w, <3>1, <3>2, SumAgree
  <2>2. SumFunctionOnSet(g, U) = SumFunctionOnSet(gu, U)
    <3>1. AgreeOn(g, gu, U)
      BY <1>9 DEF AgreeOn
    <3>2. U \subseteq S
      BY <1>s
    <3> QED BY <1>w, <3>1, <3>2, SumAgree
  <2> QED BY <2>1, <2>2
<1>14. SumFunctionOnSet(f, S) = f[n] + SumFunctionOnSet(f, S \ {n})
  BY <1>p, <1>w, SumWithout
<1>15. SumFunctionOnSet(g, S) = g[1] + SumFunctionOnSet(g, S \ {1})
  BY <1>p, <1>w, SumWithout
<1>16. PICK F \in Int : F = SumFunctionOnSet(f, L) /\ F = SumFunctionOnSet(g, U)
  BY <1>p, <1>s, <1>5, <1>12, <1>13, SumSteps
<1>17. SumFunctionOnSet(f, S) = F /\ SumFunctionOnSet(g, S) = F
  BY <1>2, <1>11, <1>14, <1>15, <1>16
<1>18. SumFunctionOnSet(xe, S) = x * SumFunctionOnSet(e, S)
  <2>1. xe \in [S -> Int]
    BY <1>6
  <2>2. IsMultiple(xe, x, e, S)
    BY <1>6 DEF IsMultiple
  <2>3. IsTerms(xe, S) /\ IsTerms(e, S)
    BY <1>p, <1>t, <2>1 DEF IsTerms
  <2> QED BY <2>2, <2>3, SumMultiple
<1>19. Divides(SumFunctionOnSet(f, S) - SumFunctionOnSet(xe, S))
  BY <1>2, <1>5, <1>6, <1>7, SumModulo
<1> QED BY <1>3, <1>17, <1>18, <1>19

\* For fewer members than coefficients there is a polynomial that is 0 at each of
\* them and not at 0: the product of the differences from their points.
Masks(q, n, members) ==
  /\ q \in [1 .. n -> Int]
  /\ ~ Divides(q[1])
  /\ \A k \in 1 .. n : k > Cardinality(members) + 1 => q[k] = 0
  /\ \A i \in members : Divides(Value(q, i + 1))

LEMMA MaskOfNone ==
  ASSUME NEW n \in Nat, 1 <= n
  PROVE  \E q : Masks(q, n, {})
<1> DEFINE q == [k \in 1 .. n |-> IF k = 1 THEN 1 ELSE 0]
<1>1. q \in [1 .. n -> Int] /\ q[1] = 1 /\ \A k \in 1 .. n : k > 0 + 1 => q[k] = 0
  OBVIOUS
<1>2. ~ Divides(1)
  <2>1. 1 \in Int /\ -P < 1 /\ 1 < P /\ 1 # 0
    BY PrimeIsLarge
  <2> QED BY <2>1, DividesSmall
<1>3. Cardinality({}) = 0
  BY FS_EmptySet
<1> HIDE DEF q
<1>4. Masks(q, n, {})
  BY <1>1, <1>2, <1>3 DEF Masks
<1> QED BY <1>4

LEMMA MaskOneMore ==
  ASSUME NEW n \in Nat, NEW members \in SUBSET Member, NEW z \in Member \ members,
         Cardinality(members) + 1 < n, NEW q, Masks(q, n, members)
  PROVE  \E r : Masks(r, n, members \cup {z})
<1>1. /\ q \in [1 .. n -> Int] /\ ~ Divides(q[1])
      /\ \A k \in 1 .. n : k > Cardinality(members) + 1 => q[k] = 0
      /\ \A i \in members : Divides(Value(q, i + 1))
  BY DEF Masks
<1>2. PICK m \in Nat : m = Cardinality(members) /\ Cardinality(members \cup {z}) = m + 1
  <2>1. IsFiniteSet(members)
    BY MembersArePoints
  <2> QED BY <2>1, FS_CardinalityType, FS_AddElement
<1>3. 1 <= n /\ q[n] = 0 /\ 1 \in 1 .. n /\ n \in 1 .. n
  BY <1>1, <1>2
<1> DEFINE s == [k \in 1 .. n |-> IF k = 1 THEN 0 ELSE q[k - 1]]
           r == [k \in 1 .. n |-> (z + 1) * q[k] + (-1) * s[k]]
<1>4. s \in [1 .. n -> Int] /\ IsShift(s, q, n)
  <2>1. s[1] = 0
    BY <1>3
  <2>2. \A k \in 1 .. n : k # 1 => k - 1 \in 1 .. n
    OBVIOUS
  <2>3. s \in [1 .. n -> Int]
    BY <1>1, <2>2
  <2>4. ASSUME NEW k \in 1 .. n - 1 PROVE s[k + 1] = q[k]
    <3>1. k + 1 \in 1 .. n /\ k + 1 # 1 /\ (k + 1) - 1 = k
      OBVIOUS
    <3> QED BY <3>1
  <2> QED BY <1>1, <1>3, <2>1, <2>3, <2>4 DEF IsShift
<1>5. PICK Z \in Int : Z = z + 1 /\ Z \in Point
  BY MembersArePoints
<1>6. r \in [1 .. n -> Int] /\ IsCombination(r, Z, q, -1, s, n)
  <2> HIDE DEF s
  <2>1. \A k \in 1 .. n : q[k] \in Int /\ s[k] \in Int
    BY <1>1, <1>4
  <2>2. r \in [1 .. n -> Int] /\ \A k \in 1 .. n : r[k] = Z * q[k] + (-1) * s[k]
    BY <1>5, <2>1
  <2> QED BY <1>1, <1>4, <2>2 DEF IsCombination
<1>7. ~ Divides(r[1])
  <2>1. PICK a \in Int : a = q[1]
    BY <1>1, <1>3
  <2>2. r[1] = Z * a
    <3>1. r[1] = Z * a + (-1) * 0
      <4> HIDE DEF r, s
      <4> QED BY <1>3, <1>4, <1>6, <2>1 DEF IsCombination, IsShift
    <3> QED BY <3>1
  <2>3. ~ Divides(Z)
    <3>1. ~ Divides(-Z)
      BY <1>5, PointsDiffer
    <3>2. Z * (-1) = -Z /\ -1 \in Int
      OBVIOUS
    <3> QED BY <3>1, <3>2, DividesTimes
  <2> QED BY <1>1, <2>1, <2>2, <2>3, DividesFactor
<1>8. ASSUME NEW k \in 1 .. n, k > (m + 1) + 1 PROVE r[k] = 0
  <2>1. q[k] = 0 /\ k # 1 /\ k - 1 \in 1 .. n /\ k - 1 > m + 1
    BY <1>1, <1>2, <1>8
  <2>2. s[k] = 0
    BY <1>1, <1>2, <2>1
  <2>3. r[k] = Z * 0 + (-1) * 0
    <3> HIDE DEF r, s
    <3> QED BY <1>6, <2>1, <2>2 DEF IsCombination
  <2> QED BY <2>3
<1> HIDE DEF r, s
<1>9. ASSUME NEW i \in members \cup {z} PROVE Divides(Value(r, i + 1))
  <2>1. PICK x \in Int : x = i + 1
    BY MembersArePoints
  <2>2. PICK Q \in Int, V \in Int : Q = Value(q, x) /\ V = Value(s, x)
    BY <1>1, <1>4, ValueType
  <2>3. Value(r, x) = Z * Q + (-1) * V
    <3>1. PICK minus \in Int : minus = -1
      OBVIOUS
    <3>3. IsCombination(r, Z, q, minus, s, n)
      BY <1>6, <3>1
    <3>4. Value(r, x) = Z * Value(q, x) + minus * Value(s, x)
      BY <3>3, ValueCombination
    <3> QED BY <2>2, <3>1, <3>4
  <2>4. Divides(V - x * Q) /\ V - x * Q \in Int
    BY <1>1, <1>3, <1>4, <2>2, ValueShift
  <2>5. Divides((Z - x) * Q)
    <3>1. CASE i = z
      <4>1. (Z - x) * Q = P * 0
        BY <1>5, <2>1, <3>1, PrimeIsLarge
      <4> QED BY <4>1 DEF Divides
    <3>2. CASE i # z
      <4>1. Divides(Q) /\ Z - x \in Int
        BY <1>1, <2>1, <2>2, <3>2
      <4> QED BY <4>1, DividesTimes
    <3> QED BY <3>1, <3>2
  <2>6. Divides(1 * ((Z - x) * Q) + (-1) * (V - x * Q))
    <3>1. 1 \in Int /\ -1 \in Int /\ (Z - x) * Q \in Int
      OBVIOUS
    <3> QED BY <2>4, <2>5, <3>1, DividesCombination
  <2>7. 1 * ((Z - x) * Q) + (-1) * (V - x * Q) = Z * Q + (-1) * V
    OBVIOUS
  <2> QED BY <2>1, <2>3, <2>6, <2>7
<1>10. Masks(r, n, members \cup {z})
  BY <1>2, <1>6, <1>7, <1>8, <1>9 DEF Masks
<1> QED BY <1>10

LEMMA MaskExists ==
  ASSUME NEW n \in Nat, NEW members \in SUBSET Member, Cardinality(members) < n
  PROVE  \E q : Masks(q, n, members)
<1> DEFINE T == {A \in SUBSET members : Cardinality(A) < n => \E q : Masks(q, n, A)}
<1>1. IsFiniteSet(members) /\ \A A \in SUBSET members : IsFiniteSet(A) /\ Cardinality(A) \in Nat
  BY MembersArePoints, FS_Subset, FS_CardinalityType
<1>2. 1 <= n
  BY <1>1
<1>3. {} \in T
  BY <1>2, MaskOfNone
<1>4. ASSUME NEW A \in SUBSET members, NEW z \in members \ A, A \in T PROVE A \cup {z} \in T
  <2> SUFFICES ASSUME Cardinality(A \cup {z}) < n PROVE \E q : Masks(q, n, A \cup {z})
    OBVIOUS
  <2>1. Cardinality(A) + 1 < n
    BY <1>1, FS_AddElement
  <2>2. PICK q : Masks(q, n, A)
    BY <1>1, <1>4, <2>1
  <2>3. A \in SUBSET Member /\ z \in Member \ A
    OBVIOUS
  <2> QED BY <2>1, <2>2, <2>3, MaskOneMore
<1>5. members \in T
  <2> HIDE DEF T
  <2> QED BY <1>1, <1>3, <1>4, SetBySteps
<1> QED BY <1>5

\* Fewer shares than the threshold fit every secret (property
\* FewerSharesHideTheSecret): a multiple of such a polynomial is added to the
\* dealer's own.
LEMMA FewerSharesHideTheSecretState == SharesOK => FewerSharesHideTheSecret
<1> SUFFICES ASSUME SharesOK, NEW d \in Member, coeffs[d] # Undealt, Len(signed) < Threshold,
                    NEW secret \in Field
             PROVE  \E c \in Splits(secret) :
                      \A i \in ToSet(signed) : ShareOf(c, i) = ShareOf(coeffs[d], i)
  BY DEF FewerSharesHideTheSecret
<1>1. PICK b \in Polynomial : b = coeffs[d]
  BY DEF SharesOK
<1>2. PICK n \in Nat : n = Threshold /\ n >= 2 /\ b \in [1 .. n -> Int] /\ b[1] \in Int
  <2>1. Threshold >= 2 /\ b \in [1 .. Threshold -> Int] /\ Threshold \in Nat
    BY <1>1, PolynomialType DEF SharesOK
  <2>2. 1 \in 1 .. Threshold
    BY <2>1
  <2> QED BY <2>1, <2>2
<1>3. PICK ms \in SUBSET Member : ms = ToSet(signed) /\ Cardinality(ms) < n
  BY <1>2, DistinctCount DEF SharesOK
<1>4. PICK q : Masks(q, n, ms)
  BY <1>2, <1>3, MaskExists
<1>5. q \in [1 .. n -> Int] /\ ~ Divides(q[1]) /\ \A i \in ms : Divides(Value(q, i + 1))
  BY <1>4 DEF Masks
<1>6. PICK q1 \in Int : q1 = q[1]
  BY <1>2, <1>5
<1>7. PICK v \in Int : Divides(q1 * v - 1)
  BY <1>5, <1>6, InverseExists
<1>8. PICK b1 \in Int, s \in Int : b1 = b[1] /\ s = secret
  BY <1>2, FieldRemainder
<1>9. PICK a \in Int : a = (s - b1) * v
  OBVIOUS
<1> DEFINE e == [k \in 1 .. n |-> 1 * b[k] + a * q[k]]
           c == [k \in 1 .. n |-> e[k] % P]
<1>10. e \in [1 .. n -> Int] /\ IsCombination(e, 1, b, a, q, n)
  BY <1>2, <1>5 DEF IsCombination
<1>11. /\ c \in [1 .. n -> Field] /\ c \in [1 .. n -> Int]
       /\ \A k \in 1 .. n : Divides(e[k] - c[k]) /\ c[k] = e[k] % P
  <2> HIDE DEF e
  <2>1. \A k \in 1 .. n : e[k] \in Int
    BY <1>10
  <2>2. \A k \in 1 .. n : e[k] % P \in Field /\ e[k] % P \in Int /\ Divides(e[k] - (e[k] % P))
    BY <2>1, Remainder
  <2> QED BY <2>2
<1> HIDE DEF e, c
<1>12. c[1] = secret
  <2>1. 1 \in 1 .. n
    BY <1>2
  <2>2. e[1] = 1 * b1 + a * q1
    BY <1>6, <1>8, <1>10, <2>1 DEF IsCombination
  <2>3. Divides((q1 * v - 1) * (s - b1))
    <3>1. q1 * v - 1 \in Int /\ s - b1 \in Int
      OBVIOUS
    <3> QED BY <1>7, <3>1, DividesTimes
  <2>4. (q1 * v - 1) * (s - b1) = (1 * b1 + a * q1) - s
    <3>1. (q1 * v - 1) * (s - b1) = (1 * b1 + ((s - b1) * v) * q1) - s
      OBVIOUS
    <3> QED BY <1>9, <3>1
  <2>5. PICK w \in Int : w = 1 * b1 + a * q1
    OBVIOUS
  <2>6. w % P = s % P
    <3>1. Divides(w - s)
      BY <2>3, <2>4, <2>5
    <3> QED BY <3>1, SameRemainder
  <2> QED BY <1>8, <1>11, <2>1, <2>2, <2>5, <2>6, FieldRemainder
<1>13. c \in Splits(secret)
  <2>1. c \in Polynomial /\ Secret(c) = secret
    BY <1>2, <1>11, <1>12 DEF Polynomial, Secret
  <2>2. ~ (Threshold < 2 \/ CommitteeSize < Threshold)
    BY <1>2, SharesAssumption
  <2> QED BY <2>1, <2>2 DEF Splits
<1>14. ASSUME NEW i \in ToSet(signed) PROVE ShareOf(c, i) = ShareOf(b, i)
  <2>1. PICK x \in Int : x = i + 1 /\ i \in ms
    BY <1>3, MembersArePoints
  <2>2. PICK B \in Int, Q \in Int, C \in Int, E \in Int :
          /\ B = Value(b, x) /\ Q = Value(q, x) /\ C = Value(c, x) /\ E = Value(e, x)
    BY <1>2, <1>5, <1>10, <1>11, ValueType
  <2>3. E = 1 * B + a * Q
    <3>1. PICK one \in Int : one = 1
      OBVIOUS
    <3>3. IsCombination(e, one, b, a, q, n)
      BY <1>10, <3>1
    <3>4. Value(e, x) = one * Value(b, x) + a * Value(q, x)
      BY <3>3, ValueCombination
    <3> QED BY <2>2, <3>1, <3>4
  <2>4. Divides(E - C)
    BY <1>10, <1>11, <2>2, ValueModulo
  <2>5. Divides(Q)
    BY <1>5, <2>1, <2>2
  <2>6. Divides((-1) * (E - C) + a * Q)
    <3>1. -1 \in Int /\ E - C \in Int
      OBVIOUS
    <3> QED BY <2>4, <2>5, <3>1, DividesCombination
  <2>7. (-1) * (E - C) + a * Q = C - B
    BY <2>3
  <2>8. C % P = B % P
    BY <2>6, <2>7, SameRemainder
  <2>9. EvalPoly(c, x) = C % P /\ EvalPoly(b, x) = B % P
    BY <1>2, <1>11, <2>2, ValueType
  <2> QED BY <2>1, <2>8, <2>9 DEF ShareOf
<1> QED BY <1>1, <1>13, <1>14
------------------------------------------------------------------------------
\* The bitmap of the signers: the byte and the bit of every member.
Byte == 0 .. (CommitteeSize + BitsPerByte - 1) \div BitsPerByte - 1
Bits(members, byte) ==
  {i % BitsPerByte : i \in {k \in members \cap Member : k \div BitsPerByte = byte}}

LEMMA ByteOfMember ==
  ASSUME NEW B \in Nat \ {0}, NEW i \in Nat
  PROVE  /\ i \div B \in Nat /\ i % B \in 0 .. B - 1
         /\ i = B * (i \div B) + (i % B)
OBVIOUS

LEMMA ByteInRange ==
  ASSUME NEW i \in Member
  PROVE  i \div BitsPerByte \in Byte
<1>1. PICK B \in Nat \ {0}, N \in Nat \ {0}, j \in Nat :
        B = BitsPerByte /\ N = CommitteeSize /\ j = i /\ j < N
  BY SharesAssumption DEF Member
<1>2. PICK q \in Nat, r \in Nat : q = j \div B /\ r < B /\ j = B * q + r
  <2>1. j \div B \in Nat /\ j % B \in 0 .. B - 1 /\ j = B * (j \div B) + (j % B)
    BY ByteOfMember
  <2>2. PICK r \in Nat : r = j % B /\ r < B
    BY <2>1
  <2>3. PICK q \in Nat : q = j \div B
    BY <2>1
  <2> QED BY <2>1, <2>2, <2>3
<1>3. N + B - 1 \in Nat
  BY <1>1
<1>4. PICK m \in Nat, s \in Nat : m = (N + B - 1) \div B /\ s < B /\ N + B - 1 = B * m + s
  BY <1>3, ByteOfMember
<1>5. ASSUME q >= m PROVE FALSE
  <2>1. PICK k \in Nat : q = m + k
    <3>1. q - m \in Nat /\ q = m + (q - m)
      BY <1>5
    <3> QED BY <3>1
  <2>2. B * q = B * m + B * k
    BY <2>1
  <2>3. PICK bq \in Nat, bm \in Nat, bk \in Nat : bq = B * q /\ bm = B * m /\ bk = B * k
    BY <1>1
  <2>4. bq = bm + bk /\ j = bq + r /\ N + B - 1 = bm + s
    BY <1>2, <1>4, <2>2, <2>3
  <2> QED BY <1>1, <1>2, <1>4, <2>3, <2>4
<1>6. q \in 0 .. m - 1
  BY <1>5
<1> QED BY <1>1, <1>2, <1>4, <1>6 DEF Byte

LEMMA BytesAreFinite == IsFiniteSet(Byte)
<1>1. PICK B \in Nat \ {0}, N \in Nat \ {0} : B = BitsPerByte /\ N = CommitteeSize
  BY SharesAssumption
<1>2. N + B - 1 \in Nat
  BY <1>1
<1>3. PICK m \in Nat : m = (N + B - 1) \div B
  BY <1>2, ByteOfMember
<1>4. IsFiniteSet(0 .. m - 1)
  BY FS_Interval
<1> QED BY <1>1, <1>3, <1>4 DEF Byte

\* Two members with the same byte and the same bit are one member.
LEMMA BitIsOne ==
  ASSUME NEW i \in Member, NEW j \in Member, i \div BitsPerByte = j \div BitsPerByte,
         i % BitsPerByte = j % BitsPerByte
  PROVE  i = j
<1>1. BitsPerByte \in Nat \ {0} /\ i \in Nat /\ j \in Nat
  BY SharesAssumption DEF Member
<1>2. i = BitsPerByte * (i \div BitsPerByte) + (i % BitsPerByte)
  BY <1>1, ByteOfMember
<1>3. j = BitsPerByte * (j \div BitsPerByte) + (j % BitsPerByte)
  BY <1>1, ByteOfMember
<1> QED BY <1>2, <1>3

\* The bitmap names the members it is made of.
LEMMA BitmapNames ==
  ASSUME NEW members \in SUBSET Member
  PROVE  {i \in Member : i % BitsPerByte \in MakeBitmap(members)[i \div BitsPerByte]} = members
<1>1. MakeBitmap(members) = [byte \in Byte |-> Bits(members, byte)]
  BY DEF MakeBitmap, Byte, Bits
<1>2. ASSUME NEW i \in Member
      PROVE  i % BitsPerByte \in MakeBitmap(members)[i \div BitsPerByte] <=> i \in members
  <2>1. MakeBitmap(members)[i \div BitsPerByte] = Bits(members, i \div BitsPerByte)
    BY <1>1, ByteInRange
  <2>2. ASSUME i % BitsPerByte \in Bits(members, i \div BitsPerByte) PROVE i \in members
    <3>1. PICK k \in members : k \div BitsPerByte = i \div BitsPerByte
                                 /\ k % BitsPerByte = i % BitsPerByte
      BY <2>2 DEF Bits
    <3>2. k = i
      BY <3>1, BitIsOne
    <3> QED BY <3>2
  <2>3. i \in members => i % BitsPerByte \in Bits(members, i \div BitsPerByte)
    BY DEF Bits
  <2> QED BY <2>1, <2>2, <2>3
<1> QED BY <1>2

Counts(members) == [byte \in Byte |-> Cardinality(Bits(members, byte))]

LEMMA CountsType ==
  ASSUME NEW members \in SUBSET Member
  PROVE  /\ Counts(members) \in [Byte -> Int]
         /\ \A byte \in Byte : IsFiniteSet(Bits(members, byte))
<1>1. ASSUME NEW byte \in Byte
      PROVE  IsFiniteSet(Bits(members, byte)) /\ Cardinality(Bits(members, byte)) \in Int
  <2>1. Bits(members, byte) \in SUBSET (0 .. BitsPerByte - 1)
    <3>1. ASSUME NEW i \in Member PROVE i % BitsPerByte \in 0 .. BitsPerByte - 1
      <4>1. BitsPerByte \in Nat \ {0} /\ i \in Nat
        BY SharesAssumption DEF Member
      <4> QED BY <4>1, ByteOfMember
    <3> QED BY <3>1 DEF Bits
  <2>2. IsFiniteSet(0 .. BitsPerByte - 1)
    BY SharesAssumption, FS_Interval
  <2>3. IsFiniteSet(Bits(members, byte))
    BY <2>1, <2>2, FS_Subset
  <2> QED BY <2>3, FS_CardinalityType
<1> QED BY <1>1 DEF Counts

\* One more member sets one more bit.
LEMMA OneMoreBit ==
  ASSUME NEW A \in SUBSET Member, NEW z \in Member \ A
  PROVE  SumFunctionOnSet(Counts(A \cup {z}), Byte) = SumFunctionOnSet(Counts(A), Byte) + 1
<1>1. PICK b \in Byte : b = z \div BitsPerByte
  BY ByteInRange
<1>2. PICK f \in [Byte -> Int], g \in [Byte -> Int] : f = Counts(A \cup {z}) /\ g = Counts(A)
  BY CountsType
<1> DEFINE d == [byte \in Byte |-> IF byte = b THEN 1 ELSE 0]
<1>3. d \in [Byte -> Int] /\ d[b] = 1 /\ \A byte \in Byte \ {b} : d[byte] = 0
  OBVIOUS
<1>4. ASSUME NEW byte \in Byte PROVE f[byte] = g[byte] + d[byte]
  <2>1. f[byte] = Cardinality(Bits(A \cup {z}, byte)) /\ g[byte] = Cardinality(Bits(A, byte))
    BY <1>2 DEF Counts
  <2>2. CASE byte = b
    <3>1. Bits(A \cup {z}, b) = Bits(A, b) \cup {z % BitsPerByte}
      BY <1>1 DEF Bits
    <3>2. z % BitsPerByte \notin Bits(A, b)
      <4> SUFFICES ASSUME z % BitsPerByte \in Bits(A, b) PROVE FALSE
        OBVIOUS
      <4>1. PICK k \in A : k \div BitsPerByte = z \div BitsPerByte
                             /\ k % BitsPerByte = z % BitsPerByte
        BY <1>1 DEF Bits
      <4>2. k = z
        BY <4>1, BitIsOne
      <4> QED BY <4>2
    <3>3. IsFiniteSet(Bits(A, b))
      BY CountsType
    <3>4. Cardinality(Bits(A, b) \cup {z % BitsPerByte}) = Cardinality(Bits(A, b)) + 1
      BY <3>2, <3>3, FS_AddElement
    <3>5. f[b] = g[b] + 1
      BY <2>1, <2>2, <3>1, <3>4
    <3> QED BY <1>3, <2>2, <3>5
  <2>3. CASE byte # b
    <3>1. Bits(A \cup {z}, byte) = Bits(A, byte)
      BY <1>1, <2>3 DEF Bits
    <3>2. f[byte] = g[byte] /\ d[byte] = 0 /\ g[byte] \in Int
      BY <1>3, <2>1, <2>3, <3>1
    <3> QED BY <3>2
  <2> QED BY <2>2, <2>3
<1> HIDE DEF d
<1>5. SumFunctionOnSet(f, Byte) = SumFunctionOnSet(g, Byte) + SumFunctionOnSet(d, Byte)
  BY <1>3, <1>4, BytesAreFinite, SumPlus
<1>6. SumFunctionOnSet(d, Byte) = d[b]
  BY <1>3, BytesAreFinite, SumOnly
<1> QED BY <1>2, <1>3, <1>5, <1>6

\* The bitmap has as many bits as it names members.
LEMMA BitmapCounts ==
  ASSUME NEW members \in SUBSET Member
  PROVE  SumFunctionOnSet(Counts(members), Byte) = Cardinality(members)
<1> DEFINE T == {A \in SUBSET members : SumFunctionOnSet(Counts(A), Byte) = Cardinality(A)}
<1>1. IsFiniteSet(members) /\ \A A \in SUBSET members : IsFiniteSet(A) /\ Cardinality(A) \in Nat
  BY MembersArePoints, FS_Subset, FS_CardinalityType
<1>2. {} \in T
  <2>1. Cardinality({}) = 0
    BY FS_EmptySet
  <2>2. PICK f \in [Byte -> Int] : f = Counts({})
    BY CountsType
  <2>3. \A byte \in Byte : Bits({}, byte) = {}
    BY DEF Bits
  <2>4. \A byte \in Byte : f[byte] = 0
    BY <2>1, <2>2, <2>3 DEF Counts
  <2>5. SumFunctionOnSet(f, Byte) = 0
    BY <2>4, BytesAreFinite, SumZero
  <2> QED BY <2>1, <2>2, <2>5
<1>3. ASSUME NEW A \in SUBSET members, NEW z \in members \ A, A \in T PROVE A \cup {z} \in T
  <2>1. Cardinality(A \cup {z}) = Cardinality(A) + 1
    BY <1>1, FS_AddElement
  <2>2. SumFunctionOnSet(Counts(A \cup {z}), Byte) = SumFunctionOnSet(Counts(A), Byte) + 1
    BY OneMoreBit
  <2> QED BY <1>3, <2>1, <2>2
<1>4. members \in T
  <2> HIDE DEF T
  <2> QED BY <1>1, <1>2, <1>3, SetBySteps
<1> QED BY <1>4

\* The bitmap of a result and its number of bits (property BitmapNamesSigners).
LEMMA BitmapNamesSignersState == SharesOK => BitmapNamesSigners
<1> SUFFICES ASSUME SharesOK PROVE BitmapNamesSigners
  OBVIOUS
<1>1. signed \in Seq(Member) /\ IsInjective(signed)
  BY DEF SharesOK
<1>2. PICK ms \in SUBSET Member : ms = ToSet(signed) /\ IsFiniteSet(ms) /\ Cardinality(ms) = Len(signed)
  BY <1>1, DistinctCount
<1>3. {i \in Member : i % BitsPerByte \in MakeBitmap(ms)[i \div BitsPerByte]} = ms
  BY BitmapNames
<1>4. SumFunction([byte \in DOMAIN MakeBitmap(ms) |-> Cardinality(MakeBitmap(ms)[byte])])
        = Cardinality(ms)
  <2>1. MakeBitmap(ms) = [byte \in Byte |-> Bits(ms, byte)]
    BY DEF MakeBitmap, Byte, Bits
  <2>2. [byte \in DOMAIN MakeBitmap(ms) |-> Cardinality(MakeBitmap(ms)[byte])] = Counts(ms)
    BY <2>1 DEF Counts
  <2>3. DOMAIN Counts(ms) = Byte
    BY DEF Counts
  <2>4. SumFunction(Counts(ms)) = SumFunctionOnSet(Counts(ms), Byte)
    BY <2>3 DEF SumFunction
  <2> QED BY <2>2, <2>4, BitmapCounts
<1>5. Len(signed) = 0 <=> signed = <<>>
  BY <1>1
<1>6. ValidateBitmap(MakeBitmap(ms)) = IF signed = <<>> THEN Error ELSE Len(signed)
  BY <1>2, <1>4, <1>5 DEF ValidateBitmap
<1> QED BY <1>2, <1>3, <1>6 DEF BitmapNamesSigners
------------------------------------------------------------------------------
\* share.Recover gives the secret of a dealer back from any threshold of the
\* shares that share.SplitWithRand made, in any order of them, and refuses fewer
\* of them and a share given twice.
THEOREM RecoverExact == Spec => []RecoverIsExact
<1>1. SharesOK => RecoverIsExact
  BY RecoverIsExactState
<1> QED BY <1>1, SharesOKHolds, PTL

\* Whichever members answer a sign request, a threshold of their shares combines
\* to the signature that verifies under the key of finalizeDKG.
THEOREM SharesCombineToKey == Spec => []AnyThresholdCombines
<1>1. SharesOK => AnyThresholdCombines
  BY AnyThresholdCombinesState
<1> QED BY <1>1, SharesOKHolds, PTL

\* With one share of another key among the responses the combined signature is
\* not the committee's, however many responses there are.
THEOREM ForeignShareNoticed == Spec => []ForeignShareIsNoticed
<1>1. SharesOK => ForeignShareIsNoticed
  BY ForeignShareIsNoticedState
<1> QED BY <1>1, SharesOKHolds, PTL

\* Fewer shares than the threshold are compatible with every secret of their
\* dealer.
THEOREM FewSharesHideTheSecret == Spec => []FewerSharesHideTheSecret
<1>1. SharesOK => FewerSharesHideTheSecret
  BY FewerSharesHideTheSecretState
<1> QED BY <1>1, SharesOKHolds, PTL

\* The bitmap that makeBitmap gives names exactly the members that signed, and
\* validateBitmap counts them, for any number of members and bytes.
THEOREM BitmapIsExact == Spec => []BitmapNamesSigners
<1>1. SharesOK => BitmapNamesSigners
  BY BitmapNamesSignersState
<1> QED BY <1>1, SharesOKHolds, PTL
==============================================================================
