-------------------------- MODULE ArithmeticLemmas --------------------------
(***************************************************************************)
(* Facts about numbers that the proofs of the components share: products   *)
(* and integer quotients, which the solver needs spelled out; induction    *)
(* over numbers and over finite sets, recursion, and sums over finite sets.*)
(***************************************************************************)
EXTENDS Integers, FiniteSetTheorems, TLAPS

\* The integer quotient, characterised by the product it bounds.
LEMMA QuotientBounds ==
    ASSUME NEW a \in Nat, NEW b \in Nat, b > 0
    PROVE  /\ a \div b \in Nat
           /\ b * (a \div b) <= a
           /\ a < b * ((a \div b) + 1)
  OBVIOUS

\* A product is monotone in each factor.
LEMMA ProductMonotone ==
    ASSUME NEW a \in Nat, NEW b \in Nat, NEW c \in Nat, a <= b
    PROVE  a * c <= b * c /\ c * a <= c * b
  OBVIOUS

\* A quotient is monotone in the dividend.
LEMMA QuotientMonotone ==
    ASSUME NEW a \in Nat, NEW b \in Nat, NEW c \in Nat, c > 0, a <= b
    PROVE  a \div c <= b \div c
  <1> DEFINE p == a \div c
             q == b \div c
  <1>1. p \in Nat /\ c * p <= a
    BY QuotientBounds
  <1>2. q \in Nat /\ b < c * (q + 1)
    BY QuotientBounds
  <1>3. ASSUME q + 1 <= p PROVE FALSE
    <2> HIDE DEF p, q
    <2>1. c * (q + 1) <= c * p
      BY <1>1, <1>2, <1>3, ProductMonotone
    <2>2. c * (q + 1) \in Nat /\ c * p \in Nat
      BY <1>1, <1>2
    <2> QED
      BY <1>1, <1>2, <2>1, <2>2
  <1> HIDE DEF p, q
  <1>4. p <= q
    BY <1>1, <1>2, <1>3
  <1> QED
    BY <1>4 DEF p, q

-----------------------------------------------------------------------------
(* Induction. *)

\* A non-empty set of numbers has a least one.
LEMMA LeastNumber ==
    ASSUME NEW T \in SUBSET Nat, T # {}
    PROVE  \E m \in T : \A k \in T : m <= k
  <1> DEFINE R == OpToRel(<, Nat)
  <1>1. IsWellFoundedOn(R, Nat)
    BY NatLessThanWellFounded
  <1>2. PICK m \in T : \A y \in T : ~(<<y, m>> \in R)
    <2> HIDE DEF R
    <2> QED
      BY <1>1, WFMin
  <1>3. \A y \in T : ~(y < m)
    BY <1>2 DEF OpToRel
  <1> HIDE DEF R
  <1> QED
    BY <1>3

\* Induction over the natural numbers, for the set of those that satisfy what
\* is to be shown.
LEMMA SetInduction ==
    ASSUME NEW S, 0 \in S, \A n \in Nat : n \in S => n + 1 \in S
    PROVE  \A n \in Nat : n \in S
  <1> SUFFICES ASSUME NEW n \in Nat, n \notin S PROVE FALSE
    OBVIOUS
  <1>1. PICK m \in Nat \ S : \A k \in Nat \ S : m <= k
    <2> DEFINE T == Nat \ S
    <2>1. T \in SUBSET Nat /\ T # {}
      OBVIOUS
    <2> HIDE DEF T
    <2>2. \E m \in T : \A k \in T : m <= k
      BY <2>1, LeastNumber
    <2> QED
      BY <2>2 DEF T
  <1>2. m # 0
    BY <1>1
  <1>3. m - 1 \in Nat /\ m - 1 \in S
    BY <1>1, <1>2
  <1> QED
    BY <1>1, <1>3

\* Induction over the subsets of a finite set.
LEMMA SubsetInduction ==
    ASSUME NEW U, IsFiniteSet(U), NEW P, {} \in P,
           \A T \in SUBSET U : T # {} /\ (\A x \in T : T \ {x} \in P) => T \in P
    PROVE  \A T \in SUBSET U : T \in P
  <1> DEFINE S == {n \in Nat :
                     \A T \in SUBSET U : Cardinality(T) = n => T \in P}
  <1>0. \A T \in SUBSET U : IsFiniteSet(T) /\ Cardinality(T) \in Nat
    BY FS_Subset, FS_CardinalityType
  <1>1. 0 \in S
    BY <1>0, FS_EmptySet
  <1>2. ASSUME NEW n \in Nat, n \in S PROVE n + 1 \in S
    <2> SUFFICES ASSUME NEW T \in SUBSET U, Cardinality(T) = n + 1
                 PROVE  T \in P
      OBVIOUS
    <2>1. T # {}
      BY FS_EmptySet
    <2>2. ASSUME NEW x \in T PROVE T \ {x} \in P
      <3>1. Cardinality(T \ {x}) = n
        BY <1>0, FS_RemoveElement
      <3> QED
        BY <3>1, <1>2
    <2> QED
      BY <2>1, <2>2
  <1>3. \A n \in Nat : n \in S
    <2> HIDE DEF S
    <2> QED
      BY <1>1, <1>2, SetInduction
  <1> QED
    BY <1>0, <1>3

-----------------------------------------------------------------------------
(* Recursion over the numbers. *)

\* The values s[0], ..., s[n], each computed from the one before.
Follows(s, n, a, F) == s[0] = a /\ \A k \in 1..n : s[k] = F[k][s[k - 1]]

\* A sequence of values, each computed from the one before, exists up to any
\* length.
LEMMA FiniteRecursion ==
    ASSUME NEW D, NEW a \in D, NEW F \in [Nat -> [D -> D]]
    PROVE  \A n \in Nat : \E s \in [0..n -> D] : Follows(s, n, a, F)
  <1> USE DEF Follows
  <1> DEFINE Sol(s, n) == s \in [0..n -> D] /\ Follows(s, n, a, F)
             N == {n \in Nat : \E s : Sol(s, n)}
  <1>1. 0 \in N
    <2> DEFINE s == [k \in 0..0 |-> a]
    <2>1. Sol(s, 0)
      OBVIOUS
    <2> HIDE DEF Sol
    <2> QED
      BY <2>1
  <1>2. ASSUME NEW n \in Nat, n \in N PROVE n + 1 \in N
    <2>1. PICK s : Sol(s, n)
      BY <1>2
    <2> DEFINE t == [k \in 0..(n + 1) |->
                       IF k = n + 1 THEN F[n + 1][s[n]] ELSE s[k]]
    <2>2. n + 1 \in Nat /\ s[n] \in D /\ F[n + 1] \in [D -> D]
      BY <2>1
    <2>3. F[n + 1][s[n]] \in D
      BY <2>2
    <2>4. t \in [0..(n + 1) -> D] /\ t[0] = a
      BY <2>1, <2>3
    <2>5. ASSUME NEW k \in 1..(n + 1) PROVE t[k] = F[k][t[k - 1]]
      <3>1. CASE k = n + 1
        <4>1. t[k] = F[n + 1][s[n]]
          BY <3>1
        <4>2. t[k - 1] = s[n]
          BY <3>1
        <4> QED
          BY <3>1, <4>1, <4>2
      <3>2. CASE k # n + 1
        <4>1. k \in 1..n /\ k - 1 \in 0..n /\ k \in 0..n /\ k - 1 # n + 1
          BY <3>2
        <4>2. t[k] = s[k] /\ t[k - 1] = s[k - 1]
          BY <4>1, <3>2
        <4> QED
          BY <2>1, <4>1, <4>2
      <3> QED
        BY <3>1, <3>2
    <2>6. Sol(t, n + 1)
      BY <2>4, <2>5
    <2> HIDE DEF Sol, t
    <2> QED
      BY <2>2, <2>6
  <1>3. \A n \in Nat : n \in N
    <2> HIDE DEF N
    <2> QED
      BY <1>1, <1>2, SetInduction
  <1> QED
    BY <1>3

\* And only one.
LEMMA RecursionUnique ==
    ASSUME NEW D, NEW a \in D, NEW F \in [Nat -> [D -> D]],
           NEW m \in Nat, NEW n \in Nat, m <= n,
           NEW s, Follows(s, m, a, F), NEW t, Follows(t, n, a, F)
    PROVE  \A k \in 0..m : s[k] = t[k]
  <1> USE DEF Follows
  <1> DEFINE N == {k \in Nat : k <= m => s[k] = t[k]}
  <1>1. 0 \in N
    OBVIOUS
  <1>2. ASSUME NEW k \in Nat, k \in N PROVE k + 1 \in N
    <2> SUFFICES ASSUME k + 1 <= m PROVE s[k + 1] = t[k + 1]
      OBVIOUS
    <2>1. s[k] = t[k]
      BY <1>2
    <2>2. k + 1 \in 1..m /\ k + 1 \in 1..n /\ (k + 1) - 1 = k
      OBVIOUS
    <2> QED
      BY <2>1, <2>2
  <1>3. \A k \in Nat : k \in N
    <2> HIDE DEF N
    <2> QED
      BY <1>1, <1>2, SetInduction
  <1> QED
    BY <1>3

\* And without end.
FollowsOn(s, D, a, F) ==
    /\ s \in [Nat -> D]
    /\ s[0] = a
    /\ \A k \in Nat \ {0} : s[k] = F[k][s[k - 1]]

LEMMA NatRecursion ==
    ASSUME NEW D, NEW a \in D, NEW F \in [Nat -> [D -> D]]
    PROVE  \E s : FollowsOn(s, D, a, F)
  <1> DEFINE Sol(s, n) == s \in [0..n -> D] /\ Follows(s, n, a, F)
             g(n) == CHOOSE s : Sol(s, n)
             all == [n \in Nat |-> g(n)[n]]
  <1>1. ASSUME NEW n \in Nat PROVE Sol(g(n), n)
    <2>1. \E s : Sol(s, n)
      BY FiniteRecursion
    <2> HIDE DEF Sol
    <2> QED
      BY <2>1
  <1> HIDE DEF g
  <1>2. all \in [Nat -> D]
    BY <1>1
  <1>3. all[0] = a
    BY <1>1 DEF Follows
  <1>4. ASSUME NEW k \in Nat \ {0} PROVE all[k] = F[k][all[k - 1]]
    <2> DEFINE j == k - 1
               s == g(j)
               t == g(k)
    <2>1. j \in Nat /\ j <= k /\ k \in 1..k /\ j \in 0..j
      OBVIOUS
    <2>2. Sol(s, j) /\ Sol(t, k)
      BY <1>1, <2>1
    <2>3. all[k] = t[k] /\ all[j] = s[j]
      BY <2>1
    <2> HIDE DEF s, t, all
    <2>4. t[k] = F[k][t[j]]
      BY <2>1, <2>2 DEF Follows
    <2>5. s[j] = t[j]
      <3>1. Follows(s, j, a, F) /\ Follows(t, k, a, F)
        BY <2>2
      <3> HIDE DEF j
      <3>2. \A i \in 0..j : s[i] = t[i]
        BY <2>1, <3>1, RecursionUnique
      <3> QED
        BY <2>1, <3>2
    <2> QED
      BY <2>3, <2>4, <2>5
  <1> HIDE DEF all
  <1> QED
    BY <1>2, <1>3, <1>4 DEF FollowsOn

-----------------------------------------------------------------------------
(* Sums: SumFunctionOnSet(f, S) adds up f[x] over the x in S. *)

\* The recursive equation of SumFunctionOnSet.
SumEquation(s, f, S) ==
    s = [T \in SUBSET S |->
            IF T = {} THEN 0
            ELSE f[CHOOSE x \in T : TRUE] + s[T \ {CHOOSE x \in T : TRUE}]]

\* The sum is what some solution of its equation says.
LEMMA SumUnfolds ==
    ASSUME NEW f, NEW S
    PROVE  SumFunctionOnSet(f, S) = (CHOOSE s : SumEquation(s, f, S))[S]
  BY DEF SumFunctionOnSet, FoldFunctionOnSet, MapThenFoldSet, SumEquation

\* The equation has a solution, built up by the size of the subsets.
LEMMA SumExists ==
    ASSUME NEW S, IsFiniteSet(S), NEW f, \A x \in S : f[x] \in Int
    PROVE  \E s : SumEquation(s, f, S)
  <1> DEFINE pick(T) == CHOOSE x \in T : TRUE
             Right(s, T) == IF T = {} THEN 0 ELSE f[pick(T)] + s[T \ {pick(T)}]
             Good(n) == \E s \in [SUBSET S -> Int] :
                          \A T \in SUBSET S :
                             Cardinality(T) <= n => s[T] = Right(s, T)
             N == {n \in Nat : Good(n)}
  <1>0. \A T \in SUBSET S : /\ IsFiniteSet(T) /\ Cardinality(T) \in Nat
                            /\ Cardinality(T) <= Cardinality(S)
    BY FS_Subset, FS_CardinalityType
  <1>p. \A T \in SUBSET S : T # {} => /\ pick(T) \in T /\ pick(T) \in S
                                      /\ T \ {pick(T)} \in SUBSET S
    OBVIOUS
  <1>c. \A T \in SUBSET S :
           T # {} => Cardinality(T \ {pick(T)}) = Cardinality(T) - 1
    BY <1>0, <1>p, FS_RemoveElement
  <1>1. 0 \in N
    <2> DEFINE s == [T \in SUBSET S |-> 0]
    <2>1. s \in [SUBSET S -> Int]
      OBVIOUS
    <2>2. \A T \in SUBSET S : Cardinality(T) <= 0 => s[T] = Right(s, T)
      BY <1>0, FS_EmptySet
    <2> QED
      BY <2>1, <2>2
  <1>2. ASSUME NEW n \in Nat, n \in N PROVE n + 1 \in N
    <2>1. PICK s \in [SUBSET S -> Int] :
             \A T \in SUBSET S : Cardinality(T) <= n => s[T] = Right(s, T)
      BY <1>2
    <2> DEFINE t == [T \in SUBSET S |->
                       IF Cardinality(T) <= n THEN s[T] ELSE Right(s, T)]
    <2> HIDE DEF pick
    <2>2. t \in [SUBSET S -> Int]
      BY <2>1, <1>p
    <2>3. ASSUME NEW T \in SUBSET S, Cardinality(T) <= n + 1
          PROVE  t[T] = Right(t, T)
      <3>1. T # {} => t[T \ {pick(T)}] = s[T \ {pick(T)}]
        BY <2>3, <1>0, <1>p, <1>c
      <3>2. Right(t, T) = Right(s, T)
        BY <3>1
      <3> QED
        BY <2>1, <2>3, <3>2
    <2>4. Good(n + 1)
      <3> HIDE DEF t, Right
      <3> QED
        BY <2>2, <2>3
    <2>5. n + 1 \in Nat
      OBVIOUS
    <2> HIDE DEF Good
    <2> QED
      BY <2>4, <2>5
  <1>3. Cardinality(S) \in N
    <2> HIDE DEF N
    <2>1. \A n \in Nat : n \in N
      BY <1>1, <1>2, SetInduction
    <2> QED
      BY <2>1, FS_CardinalityType
  <1>4. PICK s \in [SUBSET S -> Int] :
             \A T \in SUBSET S :
                Cardinality(T) <= Cardinality(S) => s[T] = Right(s, T)
    BY <1>3
  <1>5. s = [T \in SUBSET S |-> Right(s, T)]
    <2> HIDE DEF Right
    <2> QED
      BY <1>0, <1>4
  <1> QED
    BY <1>5 DEF SumEquation

\* What a solution says of any subset, whichever element is taken out.
LEMMA SumSolution ==
    ASSUME NEW S, IsFiniteSet(S), NEW f, \A x \in S : f[x] \in Int,
           NEW s, SumEquation(s, f, S)
    PROVE  /\ s[{}] = 0
           /\ \A T \in SUBSET S : s[T] \in Int
           /\ \A T \in SUBSET S : \A x \in T : s[T] = f[x] + s[T \ {x}]
  <1> DEFINE pick(T) == CHOOSE x \in T : TRUE
  <1>p. \A T \in SUBSET S : T # {} => /\ pick(T) \in T /\ pick(T) \in S
                                      /\ T \ {pick(T)} \in SUBSET S
    OBVIOUS
  <1>1. \A T \in SUBSET S :
           s[T] = IF T = {} THEN 0 ELSE f[pick(T)] + s[T \ {pick(T)}]
    BY DEF SumEquation
  <1> HIDE DEF pick
  <1>2. s[{}] = 0
    BY <1>1
  <1>3. \A T \in SUBSET S : s[T] \in Int
    <2> DEFINE P == {T \in SUBSET S : s[T] \in Int}
    <2>1. {} \in P
      BY <1>2
    <2>2. ASSUME NEW T \in SUBSET S, T # {}, \A x \in T : T \ {x} \in P
          PROVE  T \in P
      <3> DEFINE y == pick(T)
                 q == s[T \ {y}]
      <3>1. y \in T /\ y \in S /\ s[T] = f[y] + q
        BY <2>2, <1>1, <1>p
      <3>2. q \in Int /\ f[y] \in Int
        BY <2>2, <3>1
      <3> HIDE DEF q, y
      <3> QED
        BY <3>1, <3>2
    <2> HIDE DEF P
    <2>3. \A T \in SUBSET S : T \in P
      BY <2>1, <2>2, SubsetInduction
    <2> QED
      BY <2>3 DEF P
  <1>4. \A T \in SUBSET S : \A x \in T : s[T] = f[x] + s[T \ {x}]
    <2> DEFINE P == {T \in SUBSET S : \A x \in T : s[T] = f[x] + s[T \ {x}]}
    <2>1. {} \in P
      OBVIOUS
    <2>2. ASSUME NEW T \in SUBSET S, T # {}, \A x \in T : T \ {x} \in P
          PROVE  T \in P
      <3> SUFFICES ASSUME NEW x \in T PROVE s[T] = f[x] + s[T \ {x}]
        OBVIOUS
      <3> DEFINE y == pick(T)
      <3>1. y \in T /\ s[T] = f[y] + s[T \ {y}]
        BY <2>2, <1>1, <1>p
      <3> HIDE DEF y
      <3>2. CASE x = y
        BY <3>1, <3>2
      <3>3. CASE x # y
        <4>1. s[T \ {y}] = f[x] + s[(T \ {y}) \ {x}]
          BY <2>2, <3>1, <3>3
        <4>2. s[T \ {x}] = f[y] + s[(T \ {x}) \ {y}]
          BY <2>2, <3>1, <3>3
        <4>3. (T \ {y}) \ {x} = (T \ {x}) \ {y} /\ (T \ {y}) \ {x} \in SUBSET S
          OBVIOUS
        <4>4. f[x] \in Int /\ f[y] \in Int /\ s[(T \ {y}) \ {x}] \in Int
          BY <1>3, <3>1, <4>3
        <4> DEFINE q == s[(T \ {y}) \ {x}]
        <4>5. s[T] = f[y] + (f[x] + q) /\ s[T \ {x}] = f[y] + q
          BY <3>1, <4>1, <4>2, <4>3
        <4>6. q \in Int
          BY <4>4
        <4> HIDE DEF q
        <4> QED
          BY <4>4, <4>5, <4>6
      <3> QED
        BY <3>2, <3>3
    <2> HIDE DEF P
    <2>3. \A T \in SUBSET S : T \in P
      BY <2>1, <2>2, SubsetInduction
    <2> QED
      BY <2>3 DEF P
  <1> QED
    BY <1>2, <1>3, <1>4

\* Two solutions agree where their summands do, also on a smaller set.
LEMMA SumSame ==
    ASSUME NEW S, IsFiniteSet(S), NEW f, NEW g,
           \A x \in S : f[x] \in Int /\ g[x] = f[x],
           NEW R, IsFiniteSet(R), S \subseteq R, \A x \in R : g[x] \in Int,
           NEW s, SumEquation(s, f, S), NEW t, SumEquation(t, g, R)
    PROVE  \A T \in SUBSET S : s[T] = t[T]
  <1>1. /\ s[{}] = 0
        /\ \A T \in SUBSET S : \A x \in T : s[T] = f[x] + s[T \ {x}]
    BY SumSolution
  <1>2. /\ t[{}] = 0
        /\ \A T \in SUBSET R : \A x \in T : t[T] = g[x] + t[T \ {x}]
    BY SumSolution
  <1> DEFINE P == {T \in SUBSET S : s[T] = t[T]}
  <1>3. {} \in P
    BY <1>1, <1>2
  <1>4. ASSUME NEW T \in SUBSET S, T # {}, \A x \in T : T \ {x} \in P
        PROVE  T \in P
    <2>1. PICK x \in T : TRUE
      BY <1>4
    <2> QED
      BY <1>1, <1>2, <1>4, <2>1
  <1> HIDE DEF P
  <1>5. \A T \in SUBSET S : T \in P
    BY <1>3, <1>4, SubsetInduction
  <1> QED
    BY <1>5 DEF P

\* The sum over nothing.
LEMMA SumEmpty ==
    ASSUME NEW f
    PROVE  SumFunctionOnSet(f, {}) = 0
  <1> DEFINE s == CHOOSE s : SumEquation(s, f, {})
  <1>1. SumEquation(s, f, {})
    BY SumExists, FS_EmptySet
  <1>2. SumFunctionOnSet(f, {}) = s[{}]
    BY SumUnfolds
  <1> HIDE DEF s
  <1> QED
    BY <1>1, <1>2, SumSolution, FS_EmptySet

\* Any element may be taken out of a sum.
LEMMA SumRemove ==
    ASSUME NEW S, IsFiniteSet(S), NEW f, \A y \in S : f[y] \in Int, NEW x \in S
    PROVE  /\ SumFunctionOnSet(f, S) \in Int
           /\ SumFunctionOnSet(f, S \ {x}) \in Int
           /\ SumFunctionOnSet(f, S) = f[x] + SumFunctionOnSet(f, S \ {x})
  <1> DEFINE R == S \ {x}
             s == CHOOSE s : SumEquation(s, f, S)
             t == CHOOSE t : SumEquation(t, f, R)
  <1>1. IsFiniteSet(R) /\ R \in SUBSET S /\ \A y \in R : f[y] \in Int
    BY FS_RemoveElement
  <1> HIDE DEF R
  <1>2. SumEquation(s, f, S)
    BY SumExists
  <1>3. SumEquation(t, f, R)
    BY <1>1, SumExists
  <1>4. SumFunctionOnSet(f, S) = s[S] /\ SumFunctionOnSet(f, R) = t[R]
    BY SumUnfolds
  <1> HIDE DEF s, t
  <1>5. s[R] = t[R]
    BY <1>1, <1>2, <1>3, SumSame
  <1>6. s[S] \in Int /\ s[R] \in Int /\ s[S] = f[x] + s[R]
    <2>1. /\ \A T \in SUBSET S : s[T] \in Int
          /\ \A T \in SUBSET S : \A y \in T : s[T] = f[y] + s[T \ {y}]
      BY <1>2, SumSolution
    <2>2. S \in SUBSET S /\ R \in SUBSET S
      BY <1>1
    <2> QED
      BY <2>1, <2>2 DEF R
  <1> QED
    BY <1>4, <1>5, <1>6 DEF R

\* Equal summands, equal sums.
LEMMA SumAgrees ==
    ASSUME NEW S, IsFiniteSet(S), NEW f, NEW g,
           \A x \in S : f[x] \in Int /\ g[x] = f[x]
    PROVE  SumFunctionOnSet(g, S) = SumFunctionOnSet(f, S)
  <1> DEFINE s == CHOOSE s : SumEquation(s, f, S)
             t == CHOOSE t : SumEquation(t, g, S)
  <1>2. SumEquation(s, f, S)
    BY SumExists
  <1>3. SumEquation(t, g, S)
    BY SumExists
  <1>4. SumFunctionOnSet(f, S) = s[S] /\ SumFunctionOnSet(g, S) = t[S]
    BY SumUnfolds
  <1> HIDE DEF s, t
  <1>5. s[S] = t[S]
    BY <1>2, <1>3, SumSame
  <1> QED
    BY <1>4, <1>5

\* The sum of integers is an integer.
LEMMA SumType ==
    ASSUME NEW S, IsFiniteSet(S), NEW f, \A x \in S : f[x] \in Int
    PROVE  SumFunctionOnSet(f, S) \in Int
  <1>1. CASE S = {}
    BY <1>1, SumEmpty
  <1>2. CASE S # {}
    BY <1>2, SumRemove
  <1> QED
    BY <1>1, <1>2

\* A sum of zeros.
LEMMA SumZero ==
    ASSUME NEW S, IsFiniteSet(S), NEW f, \A x \in S : f[x] = 0
    PROVE  SumFunctionOnSet(f, S) = 0
  <1> DEFINE P == {T \in SUBSET S : SumFunctionOnSet(f, T) = 0}
  <1>1. {} \in P
    BY SumEmpty
  <1>2. ASSUME NEW T \in SUBSET S, T # {}, \A x \in T : T \ {x} \in P
        PROVE  T \in P
    <2>1. PICK x \in T : TRUE
      BY <1>2
    <2>2. IsFiniteSet(T) /\ \A y \in T : f[y] \in Int
      BY FS_Subset
    <2>3. SumFunctionOnSet(f, T) = f[x] + SumFunctionOnSet(f, T \ {x})
      BY <2>2, SumRemove
    <2> QED
      BY <1>2, <2>1, <2>3
  <1> HIDE DEF P
  <1>3. \A T \in SUBSET S : T \in P
    BY <1>1, <1>2, SubsetInduction
  <1> QED
    BY <1>3 DEF P

\* One summand changes.
LEMMA SumUpdate ==
    ASSUME NEW S, IsFiniteSet(S), NEW f, \A y \in S : f[y] \in Int,
           NEW x \in S, NEW d \in Int, NEW g, g[x] = f[x] + d,
           \A y \in S \ {x} : g[y] = f[y]
    PROVE  SumFunctionOnSet(g, S) = SumFunctionOnSet(f, S) + d
  <1>1. \A y \in S : g[y] \in Int
    OBVIOUS
  <1>2. /\ SumFunctionOnSet(f, S \ {x}) \in Int
        /\ SumFunctionOnSet(f, S) = f[x] + SumFunctionOnSet(f, S \ {x})
    BY SumRemove
  <1>3. SumFunctionOnSet(g, S) = g[x] + SumFunctionOnSet(g, S \ {x})
    BY <1>1, SumRemove
  <1>4. SumFunctionOnSet(g, S \ {x}) = SumFunctionOnSet(f, S \ {x})
    BY FS_RemoveElement, SumAgrees
  <1> QED
    BY <1>2, <1>3, <1>4

\* Larger summands, a larger sum.
LEMMA SumMonotone ==
    ASSUME NEW S, IsFiniteSet(S), NEW f, NEW g,
           \A x \in S : f[x] \in Int /\ g[x] \in Int /\ f[x] <= g[x]
    PROVE  SumFunctionOnSet(f, S) <= SumFunctionOnSet(g, S)
  <1> DEFINE P == {T \in SUBSET S : SumFunctionOnSet(f, T) <= SumFunctionOnSet(g, T)}
  <1>1. {} \in P
    BY SumEmpty
  <1>2. ASSUME NEW T \in SUBSET S, T # {}, \A x \in T : T \ {x} \in P
        PROVE  T \in P
    <2>1. PICK x \in T : TRUE
      BY <1>2
    <2>2. IsFiniteSet(T) /\ \A y \in T : f[y] \in Int /\ g[y] \in Int
      BY FS_Subset
    <2>3. /\ SumFunctionOnSet(f, T) = f[x] + SumFunctionOnSet(f, T \ {x})
          /\ SumFunctionOnSet(g, T) = g[x] + SumFunctionOnSet(g, T \ {x})
          /\ SumFunctionOnSet(f, T \ {x}) \in Int
          /\ SumFunctionOnSet(g, T \ {x}) \in Int
      BY <2>2, SumRemove
    <2>4. SumFunctionOnSet(f, T \ {x}) <= SumFunctionOnSet(g, T \ {x})
      BY <1>2
    <2>5. f[x] \in Int /\ g[x] \in Int /\ f[x] <= g[x]
      OBVIOUS
    <2> QED
      BY <2>3, <2>4, <2>5
  <1> HIDE DEF P
  <1>3. \A T \in SUBSET S : T \in P
    BY <1>1, <1>2, SubsetInduction
  <1> QED
    BY <1>3 DEF P

\* The sum of natural numbers is one.
LEMMA SumNatural ==
    ASSUME NEW S, IsFiniteSet(S), NEW f, \A x \in S : f[x] \in Nat
    PROVE  SumFunctionOnSet(f, S) \in Nat
  <1> DEFINE z == [x \in S |-> 0]
  <1>1. SumFunctionOnSet(f, S) \in Int
    BY SumType
  <1>2. SumFunctionOnSet(z, S) = 0
    BY SumZero
  <1>3. SumFunctionOnSet(z, S) <= SumFunctionOnSet(f, S)
    <2>1. \A x \in S : z[x] \in Int /\ f[x] \in Int /\ z[x] <= f[x]
      OBVIOUS
    <2> HIDE DEF z
    <2> QED
      BY <2>1, SumMonotone
  <1> HIDE DEF z
  <1> QED
    BY <1>1, <1>2, <1>3

\* The names of the summands do not matter.
Renames(b, f, S, g, R) ==
    /\ IsFiniteSet(S)
    /\ b \in [S -> R]
    /\ \A x, y \in S : b[x] = b[y] => x = y
    /\ \A y \in R : \E x \in S : y = b[x]
    /\ \A x \in S : f[x] \in Int /\ g[b[x]] = f[x]

LEMMA SumRenamed ==
    ASSUME NEW b, NEW f, NEW S, NEW g, NEW R, Renames(b, f, S, g, R)
    PROVE  /\ IsFiniteSet(R)
           /\ SumFunctionOnSet(g, R) = SumFunctionOnSet(f, S)
  <1> USE DEF Renames
  <1> DEFINE im(T) == {b[x] : x \in T}
             Good(T) == /\ IsFiniteSet(im(T))
                        /\ SumFunctionOnSet(g, im(T)) = SumFunctionOnSet(f, T)
             P == {T \in SUBSET S : Good(T)}
  <1>1. {} \in P
    <2>1. im({}) = {}
      OBVIOUS
    <2> QED
      BY <2>1, SumEmpty, FS_EmptySet
  <1>2. ASSUME NEW T \in SUBSET S, T # {}, \A x \in T : T \ {x} \in P
        PROVE  T \in P
    <2>1. PICK x \in T : TRUE
      BY <1>2
    <2>2. IsFiniteSet(T) /\ \A y \in T : f[y] \in Int
      BY FS_Subset
    <2>3. SumFunctionOnSet(f, T) = f[x] + SumFunctionOnSet(f, T \ {x})
      BY <2>2, SumRemove
    <2>4. Good(T \ {x})
      BY <1>2
    <2>5. PICK I, J, y : I = im(T) /\ J = im(T \ {x}) /\ y = b[x]
      OBVIOUS
    <2>6. /\ J = I \ {y} /\ I = J \cup {y} /\ y \in I
          /\ \A z \in I : g[z] \in Int
          /\ IsFiniteSet(J) /\ SumFunctionOnSet(g, J) = SumFunctionOnSet(f, T \ {x})
      BY <2>4, <2>5
    <2>7. IsFiniteSet(I)
      BY ONLY <2>6, FS_AddElement
    <2>8. SumFunctionOnSet(g, I) = g[y] + SumFunctionOnSet(g, J)
      BY <2>6, <2>7, SumRemove
    <2>9. Good(T)
      BY <2>3, <2>5, <2>6, <2>7, <2>8
    <2> QED
      BY <2>9
  <1>3. \A T \in SUBSET S : T \in P
    <2> HIDE DEF P
    <2> QED
      BY <1>1, <1>2, SubsetInduction
  <1>4. im(S) = R
    OBVIOUS
  <1> QED
    BY <1>3, <1>4

\* A list gets longer by one summand.
LEMMA SumLonger ==
    ASSUME NEW n \in Nat, NEW f, \A i \in 1..(n + 1) : f[i] \in Int,
           NEW g, \A i \in 1..n : g[i] = f[i]
    PROVE  SumFunctionOnSet(f, 1..(n + 1)) = SumFunctionOnSet(g, 1..n) + f[n + 1]
  <1>1. PICK S, R : S = 1..(n + 1) /\ R = 1..n
    OBVIOUS
  <1>2. R = S \ {n + 1} /\ n + 1 \in S /\ R \subseteq S
    BY <1>1
  <1>3. IsFiniteSet(S) /\ IsFiniteSet(R)
    BY <1>1, FS_Interval
  <1>4. \A y \in S : f[y] \in Int
    BY <1>1
  <1>5. /\ SumFunctionOnSet(f, R) \in Int
        /\ SumFunctionOnSet(f, S) = f[n + 1] + SumFunctionOnSet(f, R)
    BY <1>2, <1>3, <1>4, SumRemove
  <1>6. SumFunctionOnSet(g, R) = SumFunctionOnSet(f, R)
    <2>1. \A x \in R : f[x] \in Int /\ g[x] = f[x]
      BY <1>1, <1>2, <1>4
    <2> QED
      BY <1>3, <2>1, SumAgrees
  <1>7. f[n + 1] \in Int
    BY <1>2, <1>4
  <1> QED
    BY <1>1, <1>5, <1>6, <1>7

\* A list loses its first summand.
LEMMA SumShorter ==
    ASSUME NEW n \in Nat, NEW f, \A i \in 1..(n + 1) : f[i] \in Int,
           NEW g, \A i \in 1..n : g[i] = f[i + 1]
    PROVE  SumFunctionOnSet(f, 1..(n + 1)) = SumFunctionOnSet(g, 1..n) + f[1]
  <1> DEFINE b == [i \in 1..n |-> i + 1]
  <1>1. PICK S, R, Q : S = 1..(n + 1) /\ R = 1..n /\ Q = 2..(n + 1)
    OBVIOUS
  <1>2. Q = S \ {1} /\ 1 \in S /\ Q \subseteq S
    BY <1>1
  <1>3. IsFiniteSet(S) /\ IsFiniteSet(R)
    BY <1>1, FS_Interval
  <1>4. \A y \in S : f[y] \in Int
    BY <1>1
  <1>5. /\ SumFunctionOnSet(f, Q) \in Int
        /\ SumFunctionOnSet(f, S) = f[1] + SumFunctionOnSet(f, Q)
    BY <1>2, <1>3, <1>4, SumRemove
  <1>6. /\ b \in [R -> Q]
        /\ \A x, y \in R : b[x] = b[y] => x = y
        /\ \A y \in Q : \E x \in R : y = b[x]
    <2>1. b \in [R -> Q] /\ \A x, y \in R : b[x] = b[y] => x = y
      BY <1>1
    <2>2. ASSUME NEW y \in Q PROVE \E x \in R : y = b[x]
      <3>1. y - 1 \in R /\ (y - 1) + 1 = y
        BY <1>1
      <3> QED
        BY <1>1, <3>1
    <2> QED
      BY <2>1, <2>2
  <1>7. \A x \in R : g[x] = f[b[x]] /\ g[x] \in Int
    <2> SUFFICES ASSUME NEW x \in R PROVE g[x] = f[b[x]] /\ g[x] \in Int
      OBVIOUS
    <2>1. b[x] = x + 1 /\ x + 1 \in S /\ g[x] = f[x + 1]
      BY <1>1
    <2> QED
      BY <1>4, <2>1
  <1> HIDE DEF b
  <1>8. SumFunctionOnSet(f, Q) = SumFunctionOnSet(g, R)
    <2>1. Renames(b, g, R, f, Q)
      BY <1>3, <1>6, <1>7 DEF Renames
    <2> QED
      BY <2>1, SumRenamed
  <1>9. f[1] \in Int
    BY <1>2, <1>4
  <1> QED
    BY <1>1, <1>5, <1>8, <1>9

\* A sum over an interval is the sum over its parts.
LEMMA SumSplit ==
    ASSUME NEW a \in Nat, NEW b \in Nat, NEW f, \A i \in 1..(a + b) : f[i] \in Int,
           NEW g, \A i \in 1..b : g[i] = f[a + i]
    PROVE  SumFunctionOnSet(f, 1..(a + b))
             = SumFunctionOnSet(f, 1..a) + SumFunctionOnSet(g, 1..b)
  <1> DEFINE Good(n) == SumFunctionOnSet(f, 1..(a + n))
                          = SumFunctionOnSet(f, 1..a) + SumFunctionOnSet(g, 1..n)
             N == {n \in Nat : n <= b => Good(n)}
  <1>1. 0 \in N
    <2>1. SumFunctionOnSet(f, 1..a) \in Int
      <3>1. IsFiniteSet(1..a) /\ \A i \in 1..a : f[i] \in Int
        BY FS_Interval
      <3> QED
        BY <3>1, SumType
    <2>2. 1..0 = {} /\ a + 0 = a
      OBVIOUS
    <2>3. SumFunctionOnSet(g, 1..0) = 0
      BY <2>2, SumEmpty
    <2> QED
      BY <2>1, <2>2, <2>3
  <1>2. ASSUME NEW n \in Nat, n \in N PROVE n + 1 \in N
    <2> SUFFICES ASSUME n + 1 <= b PROVE Good(n + 1)
      OBVIOUS
    <2>1. Good(n)
      BY <1>2
    <2>2. PICK m \in Nat : m = a + n /\ m + 1 = a + (n + 1)
      OBVIOUS
    <2>3. \A i \in 1..(m + 1) : f[i] \in Int
      BY <2>2
    <2>4. SumFunctionOnSet(f, 1..(m + 1)) = SumFunctionOnSet(f, 1..m) + f[m + 1]
      BY <2>3, SumLonger
    <2>5. \A i \in 1..(n + 1) : g[i] \in Int
      BY <2>2
    <2>6. SumFunctionOnSet(g, 1..(n + 1)) = SumFunctionOnSet(g, 1..n) + g[n + 1]
      BY <2>5, SumLonger
    <2>7. g[n + 1] = f[m + 1] /\ g[n + 1] \in Int
      BY <2>2, <2>5
    <2>8. SumFunctionOnSet(f, 1..a) \in Int /\ SumFunctionOnSet(g, 1..n) \in Int
      <3>1. /\ IsFiniteSet(1..a) /\ \A i \in 1..a : f[i] \in Int
            /\ IsFiniteSet(1..n) /\ \A i \in 1..n : g[i] \in Int
        BY <2>5, FS_Interval
      <3> QED
        BY <3>1, SumType
    <2> QED
      BY <2>1, <2>2, <2>4, <2>6, <2>7, <2>8
  <1>3. \A n \in Nat : n \in N
    <2> HIDE DEF N
    <2> QED
      BY <1>1, <1>2, SetInduction
  <1> QED
    BY <1>3

\* Each summand twice.
LEMMA SumDoubled ==
    ASSUME NEW m \in Nat, NEW g, \A i \in 1..m : g[i] \in Int,
           NEW f, \A i \in 1..m : f[2 * i - 1] = g[i] /\ f[2 * i] = g[i]
    PROVE  SumFunctionOnSet(f, 1..(2 * m)) = 2 * SumFunctionOnSet(g, 1..m)
  <1> DEFINE Good(n) == SumFunctionOnSet(f, 1..(2 * n))
                          = 2 * SumFunctionOnSet(g, 1..n)
             N == {n \in Nat : n <= m => Good(n)}
  <1>0. ASSUME NEW k \in 1..(2 * m) PROVE f[k] \in Int
    <2>1. \E i \in 1..m : k = 2 * i - 1 \/ k = 2 * i
      <3>1. k = 2 * ((k + 1) \div 2) - 1 \/ k = 2 * ((k + 1) \div 2)
        OBVIOUS
      <3>2. (k + 1) \div 2 \in 1..m
        OBVIOUS
      <3> QED
        BY <3>1, <3>2
    <2> QED
      BY <2>1
  <1>1. 0 \in N
    <2>1. 1..0 = {} /\ 2 * 0 = 0
      OBVIOUS
    <2> QED
      BY <2>1, SumEmpty
  <1>2. ASSUME NEW n \in Nat, n \in N PROVE n + 1 \in N
    <2> SUFFICES ASSUME n + 1 <= m PROVE Good(n + 1)
      OBVIOUS
    <2>1. Good(n)
      BY <1>2
    <2>2. PICK k \in Nat : /\ k = 2 * n /\ k + 1 = 2 * (n + 1) - 1
                           /\ (k + 1) + 1 = 2 * (n + 1)
      OBVIOUS
    <2>3. /\ \A i \in 1..(k + 1) : f[i] \in Int
          /\ \A i \in 1..((k + 1) + 1) : f[i] \in Int
      BY <1>0, <2>2
    <2>4. /\ SumFunctionOnSet(f, 1..(k + 1)) = SumFunctionOnSet(f, 1..k) + f[k + 1]
          /\ SumFunctionOnSet(f, 1..((k + 1) + 1))
               = SumFunctionOnSet(f, 1..(k + 1)) + f[(k + 1) + 1]
      <3>1. k + 1 \in Nat
        OBVIOUS
      <3> QED
        BY <2>3, <3>1, SumLonger
    <2>5. \A i \in 1..(n + 1) : g[i] \in Int
      OBVIOUS
    <2>6. SumFunctionOnSet(g, 1..(n + 1)) = SumFunctionOnSet(g, 1..n) + g[n + 1]
      BY <2>5, SumLonger
    <2>7. f[k + 1] = g[n + 1] /\ f[(k + 1) + 1] = g[n + 1] /\ g[n + 1] \in Int
      BY <2>2
    <2>8. SumFunctionOnSet(g, 1..n) \in Int
      <3>1. IsFiniteSet(1..n) /\ \A i \in 1..n : g[i] \in Int
        BY <2>5, FS_Interval
      <3> QED
        BY <3>1, SumType
    <2> QED
      BY <2>1, <2>2, <2>4, <2>6, <2>7, <2>8
  <1>3. \A n \in Nat : n \in N
    <2> HIDE DEF N
    <2> QED
      BY <1>1, <1>2, SetInduction
  <1> QED
    BY <1>3

=============================================================================
