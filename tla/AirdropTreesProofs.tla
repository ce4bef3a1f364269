------------------------- MODULE AirdropTreesProofs -------------------------
(***************************************************************************)
(* What create-merkle-tree, the API and generate-kv-proof promise, for     *)
(* every allocation file, every cut into trees and files, and every number *)
(* of runs into one folder.                                                *)
(***************************************************************************)
EXTENDS AirdropTrees, SequenceTheorems, ArithmeticLemmas, TLAPS

-----------------------------------------------------------------------------
(* Sorting. *)

StrictOrder(n, R) ==
    /\ \A i \in 1..n : <<i, i>> \notin R
    /\ \A i, j \in 1..n : i # j => <<i, j>> \in R \/ <<j, i>> \in R
    /\ \A i, j, k \in 1..n : <<i, j>> \in R /\ <<j, k>> \in R => <<i, k>> \in R

InOrder(p, n, R) ==
    /\ p \in [1..n -> 1..n]
    /\ \A i, j \in 1..n : p[i] = p[j] => i = j
    /\ \A i \in 1..n : \E k \in 1..n : p[k] = i
    /\ \A i, j \in 1..n : i < j => <<p[i], p[j]>> \in R

\* A strict total order sorts the numbers: each one's place is given by how
\* many come before it.
LEMMA OrderSorts ==
    ASSUME NEW n \in Nat, NEW R, StrictOrder(n, R)
    PROVE  InOrder(Order(n, R), n, R)
  <1> DEFINE S == 1..n
             T == 0..(n - 1)
             below(i) == {j \in 1..n : <<j, i>> \in R}
             rank == [i \in S |-> Cardinality(below(i))]
             p == Order(n, R)
  <1>1. /\ IsFiniteSet(S) /\ Cardinality(S) = n
        /\ IsFiniteSet(T) /\ Cardinality(T) = n
    <2>1. Cardinality(S) = n /\ IsFiniteSet(S)
      BY FS_Interval
    <2>2. Cardinality(T) = n /\ IsFiniteSet(T)
      <3>1. PICK m \in Int : m = n - 1
        OBVIOUS
      <3>2. IsFiniteSet(0..m) /\ Cardinality(0..m) = IF 0 > m THEN 0 ELSE m + 1
        BY FS_Interval
      <3> QED
        BY <3>1, <3>2
    <2> QED
      BY <2>1, <2>2
  <1>2. ASSUME NEW i \in S
        PROVE  IsFiniteSet(below(i)) /\ rank[i] \in T
    <2>1. PICK B, C : B = below(i) /\ C = S \ {i}
      OBVIOUS
    <2>2. B \in SUBSET C
      BY <2>1 DEF StrictOrder
    <2>3. IsFiniteSet(C) /\ Cardinality(C) = n - 1
      BY <1>1, <2>1, FS_RemoveElement
    <2>4. IsFiniteSet(B) /\ Cardinality(B) <= n - 1 /\ Cardinality(B) \in Nat
      BY <2>2, <2>3, FS_Subset, FS_CardinalityType
    <2>5. rank[i] = Cardinality(B)
      BY <2>1
    <2> HIDE DEF rank
    <2> QED
      BY <2>1, <2>4, <2>5
  <1>3. ASSUME NEW i \in S, NEW j \in S, <<i, j>> \in R
        PROVE  rank[i] < rank[j]
    <2>1. PICK B, C : B = below(i) /\ C = below(j)
      OBVIOUS
    <2>2. B \in SUBSET C /\ B # C
      BY <1>3, <2>1 DEF StrictOrder
    <2>3. IsFiniteSet(C)
      BY <1>2, <2>1
    <2>4. Cardinality(B) <= Cardinality(C) /\ Cardinality(B) # Cardinality(C)
      BY <2>2, <2>3, FS_Subset
    <2>5. rank[i] = Cardinality(B) /\ rank[j] = Cardinality(C)
      BY <2>1
    <2>6. rank[i] \in T /\ rank[j] \in T
      BY <1>2
    <2> HIDE DEF rank
    <2> QED
      BY <2>4, <2>5, <2>6
  <1> HIDE DEF rank
  <1>4. \A i, j \in S : rank[i] = rank[j] => i = j
    <2> SUFFICES ASSUME NEW i \in S, NEW j \in S, rank[i] = rank[j], i # j
                 PROVE  FALSE
      OBVIOUS
    <2>1. <<i, j>> \in R \/ <<j, i>> \in R
      BY DEF StrictOrder
    <2>2. rank[i] \in T /\ rank[j] \in T
      BY <1>2
    <2>3. rank[i] < rank[j] \/ rank[j] < rank[i]
      BY <1>3, <2>1
    <2> QED
      BY <2>2, <2>3
  <1>5. rank \in Injection(S, T)
    BY <1>2, <1>4 DEF Injection, IsInjective, rank
  <1>6. \A t \in T : \E i \in S : rank[i] = t
    <2>1. rank \in Surjection(S, T)
      BY <1>1, <1>5, FS_Injection
    <2> QED
      BY <2>1 DEF Surjection
  <1>7. ASSUME NEW k \in S PROVE p[k] \in S /\ rank[p[k]] = k - 1
    <2>1. k - 1 \in T
      OBVIOUS
    <2>2. \E i \in 1..n : Cardinality(below(i)) = k - 1
      BY <1>6, <2>1 DEF rank
    <2>3. p[k] = CHOOSE i \in 1..n : Cardinality(below(i)) = k - 1
      BY DEF Order
    <2>4. p[k] \in 1..n /\ Cardinality(below(p[k])) = k - 1
      BY <2>2, <2>3
    <2> QED
      BY <2>4 DEF rank
  <1>8. p \in [S -> S]
    <2> DEFINE e(k) == CHOOSE i \in 1..n : Cardinality(below(i)) = k - 1
    <2>0. p = [k \in S |-> e(k)]
      BY DEF Order
    <2> HIDE DEF p, e
    <2>1. p = [k \in S |-> p[k]]
      BY <2>0
    <2> QED
      BY <1>7, <2>1
  <1> HIDE DEF p
  <1>9. \A i, j \in S : p[i] = p[j] => i = j
    BY <1>7
  <1>10. ASSUME NEW i \in S PROVE \E k \in S : p[k] = i
    <2>0. rank[i] \in T
      BY <1>2
    <2>1. rank[i] + 1 \in S /\ rank[i] \in T /\ (rank[i] + 1) - 1 = rank[i]
      BY ONLY <2>0, n \in Nat
    <2>2. rank[p[rank[i] + 1]] = rank[i] /\ p[rank[i] + 1] \in S
      BY <1>7, <2>1
    <2> QED
      BY <1>4, <2>1, <2>2
  <1>11. ASSUME NEW i \in S, NEW j \in S, i < j PROVE <<p[i], p[j]>> \in R
    <2>1. p[i] \in S /\ p[j] \in S /\ rank[p[i]] = i - 1 /\ rank[p[j]] = j - 1
      BY <1>7
    <2>2. p[i] # p[j]
      BY <1>11, <2>1
    <2>3. ~(rank[p[j]] < rank[p[i]])
      BY <1>11, <2>1
    <2> QED
      BY <1>3, <2>1, <2>2, <2>3 DEF StrictOrder
  <1> QED
    BY <1>8, <1>9, <1>10, <1>11 DEF InOrder, p

-----------------------------------------------------------------------------
(* The names of the files: the digits of their indices. *)

\* An index without its last digit is a smaller one.
LEMMA Quotient ==
    ASSUME NEW n \in Nat, ~(n < Radix)
    PROVE  /\ n \div Radix \in Nat /\ n \div Radix < n
           /\ n % Radix \in Nat
           /\ n = Radix * (n \div Radix) + (n % Radix)
  BY SizesAssumption

DigitsOf(f, n) ==
    IF n < Radix THEN <<n>> ELSE Append(f[n \div Radix], n % Radix)

\* The recursion that spells an index ends.
LEMMA DigitsEquation ==
    /\ Digits \in [Nat -> Seq(Nat)]
    /\ \A n \in Nat : Digits[n] = DigitsOf(Digits, n)
  <1> DEFINE D == [Nat -> Seq(Nat)]
             a == [n \in Nat |-> <<>>]
             Step(f) == [n \in Nat |-> DigitsOf(f, n)]
             F == [k \in Nat |-> [f \in D |-> Step(f)]]
             Is(d) == d = [n \in Nat |->
                             IF n < Radix THEN <<n>>
                             ELSE Append(d[n \div Radix], n % Radix)]
  <1>1. ASSUME NEW f \in D PROVE Step(f) \in D
    <2>1. ASSUME NEW n \in Nat PROVE DigitsOf(f, n) \in Seq(Nat)
      <3>1. CASE n < Radix
        BY <3>1 DEF DigitsOf
      <3>2. CASE ~(n < Radix)
        <4>1. f[n \div Radix] \in Seq(Nat) /\ n % Radix \in Nat
          BY <3>2, Quotient
        <4> QED
          BY <3>2, <4>1, AppendProperties DEF DigitsOf
      <3> QED
        BY <3>1, <3>2
    <2> QED
      BY <2>1
  <1>2. a \in D /\ F \in [Nat -> [D -> D]]
    <2>1. a \in D
      BY EmptySeq
    <2> HIDE DEF D, Step
    <2> QED
      BY <1>1, <2>1
  <1>3. PICK s : FollowsOn(s, D, a, F)
    <2> HIDE DEF D, a, F
    <2> QED
      BY <1>2, NatRecursion
  <1>4. \A k \in Nat : s[k] \in D /\ s[k + 1] = Step(s[k])
    <2> SUFFICES ASSUME NEW k \in Nat
                 PROVE  s[k] \in D /\ s[k + 1] = Step(s[k])
      OBVIOUS
    <2>1. k + 1 \in Nat \ {0} /\ (k + 1) - 1 = k
      OBVIOUS
    <2> HIDE DEF D
    <2>2. s[k] \in D /\ s[k + 1] = F[k + 1][s[k]]
      BY <1>3, <2>1 DEF FollowsOn
    <2> HIDE DEF Step
    <2> QED
      BY <2>1, <2>2
  <1> DEFINE Settled(m) == \A k, l \in Nat : k > m /\ l > m => s[k][m] = s[l][m]
             N == {n \in Nat : \A m \in 0..n : Settled(m)}
  <1>5. ASSUME NEW n \in Nat, \A m \in Nat : m < n => Settled(m)
        PROVE  Settled(n)
    <2> SUFFICES ASSUME NEW k \in Nat, NEW l \in Nat, k > n, l > n
                 PROVE  s[k][n] = s[l][n]
      OBVIOUS
    <2>1. PICK i \in Nat, j \in Nat : k = i + 1 /\ l = j + 1 /\ i >= n /\ j >= n
      <3>1. k - 1 \in Nat /\ l - 1 \in Nat /\ k = (k - 1) + 1 /\ l = (l - 1) + 1
            /\ k - 1 >= n /\ l - 1 >= n
        OBVIOUS
      <3> QED
        BY ONLY <3>1
    <2>2. s[k][n] = DigitsOf(s[i], n) /\ s[l][n] = DigitsOf(s[j], n)
      <3>1. s[k] = Step(s[i]) /\ s[l] = Step(s[j])
        <4> HIDE DEF Step, D
        <4> QED
          BY ONLY <1>4, <2>1
      <3>2. Step(s[i])[n] = DigitsOf(s[i], n) /\ Step(s[j])[n] = DigitsOf(s[j], n)
        BY ONLY n \in Nat
      <3> HIDE DEF Step
      <3> QED
        BY ONLY <3>1, <3>2
    <2>3. CASE n < Radix
      BY <2>2, <2>3 DEF DigitsOf
    <2>4. CASE ~(n < Radix)
      <3>1. PICK q \in Nat : q = n \div Radix /\ q < n
        BY <2>4, Quotient
      <3>2. s[i][q] = s[j][q]
        BY <1>5, <2>1, <3>1
      <3> QED
        BY <2>2, <2>4, <3>1, <3>2 DEF DigitsOf
    <2> QED
      BY <2>3, <2>4
  <1>6. \A n \in Nat : Settled(n)
    <2> HIDE DEF Settled
    <2>1. 0 \in N
      <3>1. Settled(0)
        BY <1>5
      <3> QED
        BY <3>1
    <2>2. ASSUME NEW n \in Nat, n \in N PROVE n + 1 \in N
      <3>1. Settled(n + 1)
        BY <1>5, <2>2
      <3> QED
        BY <2>2, <3>1
    <2>3. \A n \in Nat : n \in N
      <3> HIDE DEF N
      <3> QED
        BY <2>1, <2>2, SetInduction
    <2> QED
      BY <2>3
  <1> DEFINE d == [n \in Nat |-> s[n + 1][n]]
  <1>7. d \in D /\ \A n \in Nat : d[n] = DigitsOf(d, n)
    <2>1. d \in D
      <3>1. ASSUME NEW n \in Nat PROVE s[n + 1][n] \in Seq(Nat)
        <4>1. n + 1 \in Nat
          OBVIOUS
        <4> QED
          BY <1>4, <4>1
      <3> QED
        BY <3>1
    <2>2. ASSUME NEW n \in Nat PROVE d[n] = DigitsOf(d, n)
      <3>1. d[n] = DigitsOf(s[n], n)
        BY <1>4
      <3>2. CASE n < Radix
        BY <3>1, <3>2 DEF DigitsOf
      <3>3. CASE ~(n < Radix)
        <4>1. PICK q \in Nat : q = n \div Radix /\ q < n
          BY <3>3, Quotient
        <4>2. s[n][q] = s[q + 1][q]
          BY <1>6, <4>1
        <4>3. d[q] = s[n][q]
          BY <4>2
        <4> HIDE DEF d
        <4> QED
          BY <3>1, <3>3, <4>1, <4>3 DEF DigitsOf
      <3> QED
        BY <3>2, <3>3
    <2> QED
      BY <2>1, <2>2
  <1> HIDE DEF d
  <1>8. Is(d)
    BY <1>7 DEF DigitsOf
  <1>9. Is(Digits)
    <2>1. Digits = CHOOSE x : Is(x)
      BY DEF Digits
    <2> HIDE DEF Is
    <2> QED
      BY <1>8, <2>1
  <1>10. \A n \in Nat : Digits[n] = DigitsOf(Digits, n)
    BY <1>9 DEF DigitsOf
  <1> DEFINE M == {n \in Nat : \A m \in 0..n : Digits[m] \in Seq(Nat)}
  <1>11. ASSUME NEW n \in Nat, \A m \in Nat : m < n => Digits[m] \in Seq(Nat)
         PROVE  Digits[n] \in Seq(Nat)
    <2>1. CASE n < Radix
      <3>1. Digits[n] = <<n>>
        BY <1>10, <2>1 DEF DigitsOf
      <3>2. <<n>> \in Seq(Nat)
        OBVIOUS
      <3> QED
        BY ONLY <3>1, <3>2
    <2>2. CASE ~(n < Radix)
      <3>1. Digits[n \div Radix] \in Seq(Nat) /\ n % Radix \in Nat
        BY <1>11, <2>2, Quotient
      <3>2. Digits[n] = Append(Digits[n \div Radix], n % Radix)
        BY <1>10, <2>2 DEF DigitsOf
      <3> QED
        BY ONLY <3>1, <3>2, AppendProperties
    <2> QED
      BY <2>1, <2>2
  <1>12. \A n \in Nat : Digits[n] \in Seq(Nat)
    <2>1. 0 \in M
      BY <1>11
    <2>2. ASSUME NEW n \in Nat, n \in M PROVE n + 1 \in M
      <3>1. Digits[n + 1] \in Seq(Nat)
        BY <1>11, <2>2
      <3> QED
        BY <2>2, <3>1
    <2>3. \A n \in Nat : n \in M
      <3> HIDE DEF M
      <3> QED
        BY <2>1, <2>2, SetInduction
    <2> QED
      BY <2>3
  <1> QED
    BY <1>9, <1>10, <1>12

\* Two indices are spelled differently.
LEMMA DigitsInjective ==
    \A i, j \in Nat : Digits[i] = Digits[j] => i = j
  <1> DEFINE Good(i) == \A j \in Nat : Digits[i] = Digits[j] => i = j
             N == {n \in Nat : \A m \in 0..n : Good(m)}
  <1>0. /\ \A n \in Nat : Digits[n] \in Seq(Nat)
        /\ \A n \in Nat : n < Radix => Digits[n] = <<n>>
        /\ \A n \in Nat : ~(n < Radix) =>
              Digits[n] = Append(Digits[n \div Radix], n % Radix)
    BY DigitsEquation DEF DigitsOf
  <1>1. ASSUME NEW n \in Nat, ~(n < Radix)
        PROVE  Len(Digits[n]) >= 2 /\ Len(Digits[n]) \in Nat
    <2>1. n \div Radix \in Nat /\ n % Radix \in Nat
      BY <1>1, Quotient
    <2>2. PICK q \in Nat, s \in Seq(Nat) : q = n \div Radix /\ s = Digits[q]
      BY <1>0, <2>1
    <2>3. s # <<>>
      <3>1. CASE q < Radix
        <4>1. s = <<q>>
          BY <1>0, <2>2, <3>1
        <4> QED
          BY ONLY <4>1
      <3>2. CASE ~(q < Radix)
        <4>1. PICK t \in Seq(Nat), e \in Nat :
                 t = Digits[q \div Radix] /\ e = q % Radix
          BY <1>0, <3>2, Quotient
        <4>2. s = Append(t, e)
          BY <1>0, <2>2, <3>2, <4>1
        <4> QED
          BY <4>2, AppendProperties
      <3> QED
        BY <3>1, <3>2
    <2>4. Len(s) \in Nat \ {0}
      BY <2>3, EmptySeq
    <2>5. PICK e \in Nat : e = n % Radix
      BY <2>1
    <2>6. Digits[n] = Append(s, e)
      BY <1>0, <1>1, <2>2, <2>5
    <2>7. Len(Append(s, e)) = Len(s) + 1
      BY AppendProperties
    <2> QED
      BY <2>4, <2>6, <2>7
  <1>2. ASSUME NEW n \in Nat, \A m \in Nat : m < n => Good(m) PROVE Good(n)
    <2> SUFFICES ASSUME NEW j \in Nat, Digits[n] = Digits[j] PROVE n = j
      OBVIOUS
    <2>1. CASE n < Radix /\ j < Radix
      <3>1. <<n>> = <<j>>
        BY <1>0, <2>1
      <3> QED
        BY <3>1
    <2>2. CASE n < Radix /\ ~(j < Radix)
      <3>1. Digits[j] = <<n>>
        BY <1>0, <2>2
      <3>2. Len(Digits[j]) >= 2
        BY <1>1, <2>2
      <3> QED
        BY ONLY <3>1, <3>2
    <2>3. CASE ~(n < Radix) /\ j < Radix
      <3>1. Digits[n] = <<j>>
        BY <1>0, <2>3
      <3>2. Len(Digits[n]) >= 2
        BY <1>1, <2>3
      <3> QED
        BY ONLY <3>1, <3>2
    <2>4. CASE ~(n < Radix) /\ ~(j < Radix)
      <3>1. PICK p \in Nat, q \in Nat, d \in Nat, e \in Nat :
               /\ p = n \div Radix /\ d = n % Radix /\ p < n
               /\ q = j \div Radix /\ e = j % Radix
        BY <2>4, Quotient
      <3>2. PICK s \in Seq(Nat), t \in Seq(Nat) : s = Digits[p] /\ t = Digits[q]
        BY <1>0
      <3>3. Append(s, d) = Append(t, e)
        BY <1>0, <2>4, <3>1, <3>2
      <3>4. s = t /\ d = e
        BY <3>3, AppendInjective
      <3>5. p = q
        BY <1>2, <3>1, <3>2, <3>4
      <3>6. n = Radix * p + d /\ j = Radix * q + e
        BY <2>4, <3>1, Quotient
      <3> QED
        BY <3>4, <3>5, <3>6
    <2> QED
      BY <2>1, <2>2, <2>3, <2>4
  <1> HIDE DEF Good
  <1>3. 0 \in N
    <2>1. Good(0)
      BY <1>2
    <2> QED
      BY <2>1
  <1>4. ASSUME NEW n \in Nat, n \in N PROVE n + 1 \in N
    <2>1. Good(n + 1)
      BY <1>2, <1>4
    <2> QED
      BY <1>4, <2>1
  <1>5. \A n \in Nat : n \in N
    <2> HIDE DEF N
    <2> QED
      BY <1>3, <1>4, SetInduction
  <1> QED
    BY <1>5 DEF Good

\* One word comes before another because of the position after the k-th.
First(a, b, k) ==
    /\ k <= Len(a) /\ k < Len(b)
    /\ \A i \in 1..k : a[i] = b[i]
    /\ k = Len(a) \/ a[k + 1] < b[k + 1]

LEMMA PathBeforeFirst ==
    ASSUME NEW i \in Nat, NEW j \in Nat
    PROVE  PathBefore(i, j) <=> \E k \in Nat : First(Digits[i], Digits[j], k)
  <1>1. PICK a \in Seq(Nat), b \in Seq(Nat) : a = Digits[i] /\ b = Digits[j]
    BY DigitsEquation
  <1>2. Len(a) \in Nat /\ Len(b) \in Nat
    BY LenProperties
  <1>3. ASSUME NEW k \in Nat, k <= Len(a), k < Len(b)
        PROVE  SubSeq(a, 1, k) = SubSeq(b, 1, k) <=> \A m \in 1..k : a[m] = b[m]
    <2>1. \A m \in 1..k : a[m] \in Nat /\ b[m] \in Nat
      <3>1. \A m \in 1..k : m \in 1..Len(a) /\ m \in 1..Len(b)
        BY <1>2, <1>3
      <3> QED
        BY <3>1, ElementOfSeq
    <2>2. PICK s, t : s = SubSeq(a, 1, k) /\ t = SubSeq(b, 1, k)
      OBVIOUS
    <2>4. s \in Seq(Nat) /\ Len(s) = k /\ \A m \in 1..k : s[m] = a[m]
      <3>1. s \in Seq(Nat)
            /\ Len(s) = (IF 1 <= k THEN k - 1 + 1 ELSE 0)
            /\ \A m \in 1..(k - 1 + 1) : s[m] = a[1 + m - 1]
        BY <2>1, <2>2, SubSeqProperties
      <3> QED
        BY <3>1
    <2>5. t \in Seq(Nat) /\ Len(t) = k /\ \A m \in 1..k : t[m] = b[m]
      <3>1. t \in Seq(Nat)
            /\ Len(t) = (IF 1 <= k THEN k - 1 + 1 ELSE 0)
            /\ \A m \in 1..(k - 1 + 1) : t[m] = b[1 + m - 1]
        BY <2>1, <2>2, SubSeqProperties
      <3> QED
        BY <3>1
    <2>3. (\A m \in 1..k : a[m] = b[m]) => s = t
      BY <2>4, <2>5, SeqEqual
    <2> QED
      BY <2>2, <2>3, <2>4, <2>5
  <1>4. PathBefore(i, j) <=>
           \E k \in 0..Len(a) : /\ k < Len(b)
                                /\ SubSeq(a, 1, k) = SubSeq(b, 1, k)
                                /\ k = Len(a) \/ a[k + 1] < b[k + 1]
    BY <1>1 DEF PathBefore
  <1>5. \A k \in Nat : First(a, b, k) <=>
           /\ k \in 0..Len(a) /\ k < Len(b)
           /\ SubSeq(a, 1, k) = SubSeq(b, 1, k)
           /\ k = Len(a) \/ a[k + 1] < b[k + 1]
    BY <1>2, <1>3 DEF First
  <1> QED
    BY <1>1, <1>2, <1>4, <1>5

\* File names are in a strict total order.
LEMMA PathBeforeOrders ==
    /\ \A i \in Nat : ~PathBefore(i, i)
    /\ \A i, j \in Nat : i # j => PathBefore(i, j) \/ PathBefore(j, i)
    /\ \A i, j, k \in Nat : PathBefore(i, j) /\ PathBefore(j, k) => PathBefore(i, k)
  <1>0. ASSUME NEW i \in Nat
        PROVE  /\ Digits[i] \in Seq(Nat) /\ Len(Digits[i]) \in Nat
               /\ \A k \in Nat : k < Len(Digits[i]) => Digits[i][k + 1] \in Nat
    <2>1. Digits[i] \in Seq(Nat) /\ Len(Digits[i]) \in Nat
      BY DigitsEquation, LenProperties
    <2>2. \A k \in Nat : k < Len(Digits[i]) => k + 1 \in 1..Len(Digits[i])
      BY <2>1
    <2> QED
      BY <2>1, <2>2, ElementOfSeq
  <1>1. ASSUME NEW i \in Nat, PathBefore(i, i) PROVE FALSE
    <2>1. PICK k \in Nat : First(Digits[i], Digits[i], k)
      BY <1>1, PathBeforeFirst
    <2> QED
      BY <1>0, <2>1 DEF First
  <1>2. ASSUME NEW i \in Nat, NEW j \in Nat, i # j
        PROVE  PathBefore(i, j) \/ PathBefore(j, i)
    <2>1. PICK a \in Seq(Nat), b \in Seq(Nat) : a = Digits[i] /\ b = Digits[j]
      BY DigitsEquation
    <2>2. a # b /\ Len(a) \in Nat /\ Len(b) \in Nat
      BY <1>2, <2>1, DigitsInjective, LenProperties
    <2>3. (\E k \in Nat : First(a, b, k)) \/ (\E k \in Nat : First(b, a, k))
      <3> DEFINE T == {k \in Nat : /\ k < Len(a) /\ k < Len(b)
                                   /\ a[k + 1] # b[k + 1]}
      <3>1. CASE T = {}
        <4>1. ASSUME NEW n \in Nat, n <= Len(a), n <= Len(b)
              PROVE  \A m \in 1..n : a[m] = b[m]
          <5> SUFFICES ASSUME NEW m \in 1..n PROVE a[m] = b[m]
            OBVIOUS
          <5>1. m - 1 \in Nat /\ m - 1 < Len(a) /\ m - 1 < Len(b) /\ (m - 1) + 1 = m
            BY <2>2, <4>1
          <5> QED
            BY <3>1, <5>1
        <4>2. CASE Len(a) < Len(b)
          <5>1. \A m \in 1..Len(a) : a[m] = b[m]
            BY <2>2, <4>1, <4>2
          <5>2. First(a, b, Len(a))
            BY <2>2, <4>2, <5>1 DEF First
          <5> QED
            BY <2>2, <5>2
        <4>3. CASE Len(b) < Len(a)
          <5>1. \A m \in 1..Len(b) : a[m] = b[m]
            BY ONLY <2>2, <4>1, <4>3
          <5>2. First(b, a, Len(b))
            BY <2>2, <4>3, <5>1 DEF First
          <5> QED
            BY <2>2, <5>2
        <4>4. CASE Len(a) = Len(b)
          <5>1. \A m \in 1..Len(a) : a[m] = b[m]
            BY <2>2, <4>1, <4>4
          <5> QED
            BY <2>2, <4>4, <5>1, SeqEqual
        <4> QED
          BY <2>2, <4>2, <4>3, <4>4
      <3>2. CASE T # {}
        <4>1. PICK k \in T : \A m \in T : k <= m
          <5>1. T \in SUBSET Nat
            OBVIOUS
          <5> HIDE DEF T
          <5> QED
            BY <3>2, <5>1, LeastNumber
        <4>2. k \in Nat /\ k < Len(a) /\ k < Len(b) /\ a[k + 1] # b[k + 1]
          BY <4>1
        <4>3. \A m \in 1..k : a[m] = b[m]
          <5> SUFFICES ASSUME NEW m \in 1..k, a[m] # b[m] PROVE FALSE
            OBVIOUS
          <5>1. m - 1 \in Nat /\ m - 1 < k /\ m - 1 < Len(a) /\ m - 1 < Len(b)
                /\ (m - 1) + 1 = m
            BY ONLY <2>2, <4>2, m \in 1..k
          <5>2. m - 1 \in T
            BY <5>1
          <5> QED
            BY <4>1, <4>2, <5>1, <5>2
        <4>4. a[k + 1] \in Nat /\ b[k + 1] \in Nat
          BY <1>0, <2>1, <4>2
        <4>5. a[k + 1] < b[k + 1] \/ b[k + 1] < a[k + 1]
          BY <4>2, <4>4
        <4>6. \A m \in 1..k : b[m] = a[m]
          BY <4>3
        <4>7. a[k + 1] < b[k + 1] => First(a, b, k)
          BY <2>2, <4>2, <4>3 DEF First
        <4>8. b[k + 1] < a[k + 1] => First(b, a, k)
          BY <2>2, <4>2, <4>6 DEF First
        <4> QED
          BY <4>2, <4>5, <4>7, <4>8
      <3> QED
        BY <3>1, <3>2
    <2> QED
      BY <2>1, <2>3, PathBeforeFirst
  <1>3. ASSUME NEW i \in Nat, NEW j \in Nat, NEW h \in Nat,
               PathBefore(i, j), PathBefore(j, h)
        PROVE  PathBefore(i, h)
    <2>1. PICK a \in Seq(Nat), b \in Seq(Nat), c \in Seq(Nat) :
             a = Digits[i] /\ b = Digits[j] /\ c = Digits[h]
      BY DigitsEquation
    <2>2. PICK k \in Nat, l \in Nat : First(a, b, k) /\ First(b, c, l)
      BY <1>3, <2>1, PathBeforeFirst
    <2>3. Len(a) \in Nat /\ Len(b) \in Nat /\ Len(c) \in Nat
      BY LenProperties
    <2>4. CASE k < l
      <3>1. /\ k + 1 \in 1..l /\ \A m \in 1..k : m \in 1..l
            /\ k < Len(c)
        BY <2>2, <2>3, <2>4 DEF First
      <3>2. b[k + 1] = c[k + 1] /\ \A m \in 1..k : a[m] = c[m]
        BY <2>2, <3>1 DEF First
      <3>3. First(a, c, k)
        BY <2>2, <3>1, <3>2 DEF First
      <3> QED
        BY <2>1, <3>3, PathBeforeFirst
    <2>5. CASE k = l
      <3>1. /\ b[k + 1] < c[k + 1] /\ k < Len(c) /\ k < Len(b) /\ k <= Len(a)
            /\ \A m \in 1..k : a[m] = c[m]
        BY <2>2, <2>3, <2>5 DEF First
      <3>2. CASE k = Len(a)
        <4>1. First(a, c, k)
          BY <3>1, <3>2 DEF First
        <4> QED
          BY <2>1, <4>1, PathBeforeFirst
      <3>3. CASE k < Len(a) /\ a[k + 1] < b[k + 1]
        <4>1. a[k + 1] \in Nat /\ b[k + 1] \in Nat /\ c[k + 1] \in Nat
          BY <1>0, <2>1, <3>1, <3>3
        <4>2. a[k + 1] < c[k + 1]
          <5>1. PICK x \in Nat, y \in Nat, z \in Nat :
                   x = a[k + 1] /\ y = b[k + 1] /\ z = c[k + 1]
            BY ONLY <4>1
          <5>2. x < y /\ y < z
            BY <3>1, <3>3, <5>1
          <5>3. x < z
            BY ONLY <5>2, x \in Nat, y \in Nat, z \in Nat
          <5> QED
            BY <5>1, <5>3
        <4>3. First(a, c, k)
          BY <3>1, <4>2 DEF First
        <4> QED
          BY <2>1, <4>3, PathBeforeFirst
      <3> QED
        BY <2>2, <2>3, <3>1, <3>2, <3>3 DEF First
    <2>6. CASE l < k
      <3>0. k <= Len(a) /\ k < Len(b) /\ l < Len(c)
        BY <2>2 DEF First
      <3>1. /\ l + 1 \in 1..k /\ (\A m \in 1..l : m \in 1..k)
            /\ l < Len(b) /\ l < Len(c) /\ l < Len(a)
        BY <2>3, <2>6, <3>0
      <3>2. a[l + 1] = b[l + 1] /\ b[l + 1] < c[l + 1]
            /\ \A m \in 1..l : a[m] = c[m]
        BY <2>2, <2>3, <3>1 DEF First
      <3>3. First(a, c, l)
        <4>1. l <= Len(a) /\ a[l + 1] < c[l + 1]
          BY <2>3, <3>1, <3>2
        <4> QED
          BY ONLY <3>1, <3>2, <4>1 DEF First
      <3> QED
        BY <2>1, <3>3, PathBeforeFirst
    <2> QED
      BY <2>4, <2>5, <2>6
  <1> QED
    BY <1>1, <1>2, <1>3

\* The paths of a folder: each tree is read, at one place.
Permutes(p, n) ==
    /\ p \in [1..n -> 1..n]
    /\ \A i, j \in 1..n : p[i] = p[j] => i = j
    /\ \A i \in 1..n : \E k \in 1..n : p[k] = i

LEMMA PathsPermute ==
    ASSUME NEW n \in 0..MaxRows
    PROVE  Permutes(Paths[n], n)
  <1> DEFINE R == {e \in (1..n) \X (1..n) : PathBefore(e[1] - 1, e[2] - 1)}
  <1>1. n \in Nat
    BY SizesAssumption
  <1>2. Paths[n] = Order(n, R)
    BY DEF Paths
  <1>3. \A i, j \in 1..n : /\ i - 1 \in Nat /\ j - 1 \in Nat
                           /\ i # j => i - 1 # j - 1
                           /\ <<i, j>> \in R <=> PathBefore(i - 1, j - 1)
    BY <1>1
  <1> HIDE DEF R
  <1>4. StrictOrder(n, R)
    BY <1>3, PathBeforeOrders DEF StrictOrder
  <1>5. InOrder(Paths[n], n, R)
    BY <1>1, <1>2, <1>4, OrderSorts
  <1> QED
    BY <1>5 DEF InOrder, Permutes

-----------------------------------------------------------------------------
(* The list of versions. *)

Monotone(t, n) == \A i, j \in 1..n : i < j => t[i] <= t[j]

\* Two sorted lists, of which the second has the elements of the first at the
\* places that s says.
Rearranged(t, u, s, n) ==
    /\ Monotone(t, n) /\ Monotone(u, n)
    /\ \A i \in 1..n : t[i] \in Int /\ u[i] \in Int
    /\ s \in [1..n -> 1..n] /\ \A i, j \in 1..n : s[i] = s[j] => i = j
    /\ \A i \in 1..n : u[i] = t[s[i]]

\* Of two sorted lists, one of which has the elements of the other at other
\* places, it has no smaller element at any place.
LEMMA SortedNotBelow ==
    ASSUME NEW n \in Nat, NEW t, NEW u, NEW s, Rearranged(t, u, s, n),
           NEW i \in 1..n
    PROVE  t[i] <= u[i]
  <1> USE DEF Rearranged
  <1> SUFFICES ASSUME u[i] < t[i] PROVE FALSE
    OBVIOUS
  <1>1. ASSUME NEW j \in 1..i PROVE s[j] \in 1..(i - 1)
    <2>1. j \in 1..n /\ s[j] \in 1..n /\ u[j] = t[s[j]]
      OBVIOUS
    <2>2. u[j] <= u[i]
      <3>1. CASE j = i
        BY <3>1
      <3>2. CASE j < i
        BY <2>1, <3>2 DEF Monotone
      <3> QED
        BY <3>1, <3>2
    <2>3. ~(i <= s[j])
      <3> SUFFICES ASSUME i <= s[j] PROVE FALSE
        OBVIOUS
      <3>1. t[i] <= t[s[j]]
        <4>1. CASE i = s[j]
          BY <4>1
        <4>2. CASE i < s[j]
          BY <2>1, <4>2 DEF Monotone
        <4> QED
          BY <2>1, <4>1, <4>2
      <3>2. PICK x \in Int, y \in Int, z \in Int :
               x = t[i] /\ y = u[i] /\ z = u[j]
        BY <2>1
      <3>3. x <= z /\ z <= y /\ y < x
        BY <2>1, <2>2, <3>1, <3>2
      <3> QED
        BY ONLY <3>3, x \in Int, y \in Int, z \in Int
    <2> QED
      BY <2>1, <2>3
  <1>2. PICK S, T, f : S = 1..i /\ T = 1..(i - 1) /\ f = [j \in 1..i |-> s[j]]
    OBVIOUS
  <1>3. IsFiniteSet(S) /\ Cardinality(S) = i
    BY <1>2, FS_Interval
  <1>4. IsFiniteSet(T) /\ Cardinality(T) = i - 1
    <2>1. PICK m \in Nat : m = i - 1
      OBVIOUS
    <2>2. /\ IsFiniteSet(1..m)
          /\ Cardinality(1..m) = IF 1 > m THEN 0 ELSE m - 1 + 1
      BY ONLY FS_Interval, m \in Nat
    <2> QED
      BY <1>2, <2>1, <2>2
  <1>5. f \in [S -> T]
    BY <1>1, <1>2
  <1>6. Cardinality(T) < Cardinality(S)
    BY <1>3, <1>4
  <1>7. PICK x \in S, y \in S : x # y /\ f[x] = f[y]
    BY ONLY <1>3, <1>4, <1>5, <1>6, FS_PigeonHole
  <1>8. x \in 1..n /\ y \in 1..n /\ s[x] = s[y]
    BY <1>2, <1>7
  <1> QED
    BY <1>7, <1>8

\* There is one way to sort a list.
LEMMA SortedUnique ==
    ASSUME NEW n \in Nat, NEW t, NEW u, NEW s, Rearranged(t, u, s, n),
           NEW i \in 1..n
    PROVE  t[i] = u[i]
  <1>1. t[i] <= u[i]
    BY SortedNotBelow
  <1> USE DEF Rearranged
  <1>2. PICK S : S = 1..n
    OBVIOUS
  <1>3. \A j \in S : \E k \in S : s[k] = j
    <2>1. s \in Injection(S, S) /\ IsFiniteSet(S)
      BY <1>2, FS_Interval DEF Injection, IsInjective
    <2>2. s \in Surjection(S, S)
      BY <2>1, FS_Injection
    <2> QED
      BY <2>2 DEF Surjection
  <1> DEFINE r == [j \in S |-> CHOOSE k \in S : s[k] = j]
  <1>4. ASSUME NEW j \in S PROVE r[j] \in S /\ s[r[j]] = j
    BY <1>3
  <1>5. r \in [1..n -> 1..n]
    BY <1>2, <1>4
  <1> HIDE DEF r
  <1>6. \A j, k \in 1..n : r[j] = r[k] => j = k
    BY <1>2, <1>4
  <1>7. \A j \in 1..n : t[j] = u[r[j]]
    BY <1>2, <1>4
  <1>8. u[i] <= t[i]
    <2>1. Rearranged(u, t, r, n)
      BY <1>5, <1>6, <1>7
    <2> QED
      BY ONLY <2>1, SortedNotBelow, n \in Nat, i \in 1..n
  <1>9. t[i] \in Int /\ u[i] \in Int
    OBVIOUS
  <1> QED
    BY ONLY <1>1, <1>8, <1>9

\* The place of the k-th file, of c for each tree.
Place(k, c) == ((k - 1) \div c) + 1

LEMMA Places ==
    ASSUME NEW c \in {1, 2}, NEW m \in Nat
    PROVE  /\ c * m \in Nat
           /\ \A k \in 1..(c * m) :
                 /\ Place(k, c) \in 1..m
                 /\ (k - 1) \div c = Place(k, c) - 1
                 /\ (k - 1) % c \in 0..(c - 1)
                 /\ k = c * (Place(k, c) - 1) + ((k - 1) % c) + 1
           /\ \A i \in 1..m : \A r \in 0..(c - 1) :
                 /\ c * (i - 1) + r + 1 \in 1..(c * m)
                 /\ Place(c * (i - 1) + r + 1, c) = i
  <1>1. CASE c = 1
    BY <1>1 DEF Place
  <1>2. CASE c = 2
    BY <1>2 DEF Place
  <1> QED
    BY <1>1, <1>2

\* The versions of the trees, read in the order of the paths, c files for each
\* tree, are sorted into their order.
AsRead(list, c, m, p) ==
    /\ list \in Seq(Int)
    /\ Len(list) = c * m
    /\ \A k \in 1..(c * m) : list[k] = p[Place(k, c)] - 1

LEMMA VersionsSorted ==
    ASSUME NEW c \in {1, 2}, NEW m \in Nat, NEW p, Permutes(p, m),
           NEW list, AsRead(list, c, m, p)
    PROVE  SortVersions(list) = [i \in 1..(c * m) |-> (i - 1) \div c]
  <1> USE DEF AsRead
  <1>1. PICK n \in Nat : n = c * m
    BY Places
  <1> DEFINE R == {e \in (1..n) \X (1..n) :
                     \/ list[e[1]] < list[e[2]]
                     \/ list[e[1]] = list[e[2]] /\ e[1] < e[2]}
             order == Order(n, R)
             t == [i \in 1..n |-> (i - 1) \div c]
             u == [k \in 1..n |-> list[order[k]]]
  <1>2. \A k \in 1..n : list[k] \in Int
    BY <1>1, ElementOfSeq
  <1>3. StrictOrder(n, R)
    <2>1. \A i, j \in 1..n :
             <<i, j>> \in R <=>
                (list[i] < list[j] \/ (list[i] = list[j] /\ i < j))
      OBVIOUS
    <2> HIDE DEF R
    <2>2. \A i \in 1..n : <<i, i>> \notin R
      BY <1>2, <2>1
    <2>3. \A i, j \in 1..n : i # j => <<i, j>> \in R \/ <<j, i>> \in R
      BY <1>2, <2>1
    <2>4. \A i, j, k \in 1..n : <<i, j>> \in R /\ <<j, k>> \in R => <<i, k>> \in R
      BY ONLY <1>2, <2>1, n \in Nat
    <2> QED
      BY <2>2, <2>3, <2>4 DEF StrictOrder
  <1>4. InOrder(order, n, R)
    BY <1>3, OrderSorts
  <1>5. SortVersions(list) = u
    BY <1>1 DEF SortVersions
  <1>6. /\ order \in [1..n -> 1..n]
        /\ \A i, j \in 1..n : order[i] = order[j] => i = j
    <2> HIDE DEF order, R
    <2> QED
      BY ONLY <1>4 DEF InOrder
  <1>7. \A i \in 1..n : u[i] = list[order[i]] /\ order[i] \in 1..n /\ u[i] \in Int
    BY <1>2, <1>6
  <1>8. Monotone(u, n)
    <2> HIDE DEF order, u, R
    <2> SUFFICES ASSUME NEW i \in 1..n, NEW j \in 1..n, i < j
                 PROVE  u[i] <= u[j]
      BY DEF Monotone
    <2>1. <<order[i], order[j]>> \in R
      BY <1>4 DEF InOrder
    <2>2. PICK a, b : a = order[i] /\ b = order[j] /\ <<a, b>> \in R
      BY ONLY <2>1
    <2>3. list[a] < list[b] \/ list[a] = list[b]
      BY ONLY <2>2 DEF R
    <2>4. list[order[i]] < list[order[j]] \/ list[order[i]] = list[order[j]]
      BY ONLY <2>2, <2>3
    <2> QED
      BY <1>7, <2>4
  <1>9. \A i \in 1..n : t[i] \in Int
    BY <1>1, Places
  <1>10. Monotone(t, n)
    <2>1. CASE c = 1
      BY <2>1 DEF Monotone
    <2>2. CASE c = 2
      BY <2>2 DEF Monotone
    <2> QED
      BY <2>1, <2>2
  <1> HIDE DEF order, R
  <1> DEFINE at(k) == c * (p[Place(k, c)] - 1) + ((k - 1) % c) + 1
             s == [i \in 1..n |-> at(order[i])]
  <1>11. ASSUME NEW k \in 1..n
         PROVE  /\ at(k) \in 1..n /\ Place(at(k), c) = p[Place(k, c)]
                /\ t[at(k)] = list[k]
    <2>1. PICK i \in 1..m, r \in 0..(c - 1) :
             i = p[Place(k, c)] /\ r = (k - 1) % c
      BY <1>1, Places DEF Permutes
    <2>2. at(k) = c * (i - 1) + r + 1
      BY <2>1
    <2>3. at(k) \in 1..n /\ Place(at(k), c) = i
      <3>1. /\ c * (i - 1) + r + 1 \in 1..(c * m)
            /\ Place(c * (i - 1) + r + 1, c) = i
        BY Places
      <3> QED
        BY ONLY <1>1, <2>2, <3>1
    <2>4. t[at(k)] = Place(at(k), c) - 1
      BY <1>1, <2>3, Places
    <2>5. list[k] = i - 1
      BY <1>1, <2>1
    <2> QED
      BY <2>1, <2>3, <2>4, <2>5
  <1> HIDE DEF at
  <1>12. ASSUME NEW k \in 1..n, NEW l \in 1..n, at(k) = at(l) PROVE k = l
    <2>1. PICK i \in 1..m, j \in 1..m, q \in 0..(c - 1), r \in 0..(c - 1) :
             /\ i = Place(k, c) /\ j = Place(l, c)
             /\ q = (k - 1) % c /\ r = (l - 1) % c
             /\ k = c * (i - 1) + q + 1 /\ l = c * (j - 1) + r + 1
      <3>1. /\ Place(k, c) \in 1..m /\ (k - 1) % c \in 0..(c - 1)
            /\ k = c * (Place(k, c) - 1) + ((k - 1) % c) + 1
        BY <1>1, Places
      <3>2. /\ Place(l, c) \in 1..m /\ (l - 1) % c \in 0..(c - 1)
            /\ l = c * (Place(l, c) - 1) + ((l - 1) % c) + 1
        BY <1>1, Places
      <3> QED
        BY ONLY <3>1, <3>2
    <2>2. p[i] = p[j]
      <3>1. Place(at(k), c) = p[i] /\ Place(at(l), c) = p[j]
        BY <1>11, <2>1
      <3> QED
        BY ONLY <1>12, <3>1
    <2>3. i = j
      BY <2>2 DEF Permutes
    <2>4. p[i] \in 1..m
      BY DEF Permutes
    <2>5. c * (p[i] - 1) + q + 1 = c * (p[i] - 1) + r + 1
      BY <1>12, <2>1, <2>3 DEF at
    <2>6. q = r
      <3>1. PICK x \in Int : x = c * (p[i] - 1)
        BY <2>4
      <3>2. x + q + 1 = x + r + 1
        BY <2>5, <3>1
      <3> QED
        BY <3>2
    <2> QED
      BY <2>1, <2>3, <2>6
  <1>13. /\ s \in [1..n -> 1..n]
         /\ \A i, j \in 1..n : s[i] = s[j] => i = j
         /\ \A i \in 1..n : u[i] = t[s[i]]
    <2>1. \A i \in 1..n : s[i] = at(order[i]) /\ order[i] \in 1..n
      BY <1>7
    <2>2. s \in [1..n -> 1..n]
      BY <1>11, <2>1
    <2> HIDE DEF s, t, u
    <2>3. \A i, j \in 1..n : s[i] = s[j] => i = j
      BY <1>6, <1>12, <2>1
    <2>4. ASSUME NEW i \in 1..n PROVE u[i] = t[s[i]]
      <3>1. s[i] = at(order[i]) /\ order[i] \in 1..n /\ u[i] = list[order[i]]
        BY <1>7, <2>1
      <3>2. t[at(order[i])] = list[order[i]]
        BY <1>11, <3>1
      <3> QED
        BY ONLY <3>1, <3>2
    <2> QED
      BY <2>2, <2>3, <2>4
  <1>14. \A i \in 1..n : t[i] = u[i]
    <2> SUFFICES ASSUME NEW i \in 1..n PROVE t[i] = u[i]
      OBVIOUS
    <2> HIDE DEF s, t, u
    <2>1. \A j \in 1..n : t[j] \in Int /\ u[j] \in Int
      BY <1>7, <1>9
    <2>2. Rearranged(t, u, s, n)
      BY ONLY <1>8, <1>10, <1>13, <2>1 DEF Rearranged
    <2> QED
      BY ONLY <2>2, SortedUnique, n \in Nat, i \in 1..n
  <1> QED
    BY <1>1, <1>5, <1>14

-----------------------------------------------------------------------------
(* Nodes and what they promise. *)

Node == [claimant : Users, amount : Nat]

Distinct(nodes) ==
    \A i, j \in DOMAIN nodes : nodes[i].claimant = nodes[j].claimant => i = j

\* What a list of nodes promises to the users in U.
Shares(U, nodes) ==
    [i \in DOMAIN nodes |-> IF nodes[i].claimant \in U THEN nodes[i].amount ELSE 0]
Part(U, nodes) == SumFunctionOnSet(Shares(U, nodes), DOMAIN nodes)

\* A function on 1..n is a list.
LEMMA ListOf ==
    ASSUME NEW S, NEW n \in Nat, NEW f \in [1..n -> S]
    PROVE  f \in Seq(S) /\ Len(f) = n /\ DOMAIN f = 1..n
  <1>1. f \in Seq(S)
    BY SeqDef
  <1> QED
    BY <1>1, LenProperties

LEMMA ListIs ==
    ASSUME NEW S, NEW f \in Seq(S)
    PROVE  /\ Len(f) \in Nat /\ DOMAIN f = 1..Len(f)
           /\ \A i \in 1..Len(f) : f[i] \in S
  BY LenProperties, ElementOfSeq

\* The shares are numbers, and so is their sum.
LEMMA PartType ==
    ASSUME NEW U, NEW n \in Nat, NEW nodes, DOMAIN nodes = 1..n,
           \A i \in 1..n : nodes[i].amount \in Nat
    PROVE  /\ \A i \in 1..n : Shares(U, nodes)[i] \in Nat
           /\ Part(U, nodes) \in Nat
           /\ IsFiniteSet(1..n)
           /\ \A i \in 1..n : Shares(U, nodes)[i] <= Part(U, nodes)
  <1>1. PICK s, S : s = Shares(U, nodes) /\ S = 1..n
    OBVIOUS
  <1>2. \A i \in S : s[i] \in Nat /\ s[i] \in Int
    BY <1>1 DEF Shares
  <1>3. IsFiniteSet(S)
    BY <1>1, FS_Interval
  <1>4. SumFunctionOnSet(s, S) \in Nat
    BY <1>2, <1>3, SumNatural
  <1>5. Part(U, nodes) = SumFunctionOnSet(s, S)
    BY <1>1 DEF Part
  <1>6. ASSUME NEW i \in S PROVE s[i] <= SumFunctionOnSet(s, S)
    <2>1. SumFunctionOnSet(s, S) = s[i] + SumFunctionOnSet(s, S \ {i})
      BY <1>2, <1>3, SumRemove
    <2>2. IsFiniteSet(S \ {i}) /\ \A x \in S \ {i} : s[x] \in Nat
      BY <1>2, <1>3, FS_RemoveElement
    <2>3. SumFunctionOnSet(s, S \ {i}) \in Nat
      BY <2>2, SumNatural
    <2>4. s[i] \in Nat
      BY <1>2
    <2> QED
      BY <2>1, <2>3, <2>4
  <1> QED
    BY <1>1, <1>2, <1>3, <1>4, <1>5, <1>6

\* Lists with the same claimants and amounts promise the same.
LEMMA PartSame ==
    ASSUME NEW U, NEW n \in Nat, NEW nodes, DOMAIN nodes = 1..n,
           \A i \in 1..n : nodes[i].amount \in Nat,
           NEW other, DOMAIN other = 1..n,
           \A i \in 1..n : /\ other[i].amount = nodes[i].amount
                           /\ other[i].claimant = nodes[i].claimant
    PROVE  Part(U, other) = Part(U, nodes)
  <1>1. PICK s, t, S : s = Shares(U, nodes) /\ t = Shares(U, other) /\ S = 1..n
    OBVIOUS
  <1>2. \A i \in S : s[i] \in Int /\ t[i] = s[i]
    BY <1>1 DEF Shares
  <1>3. IsFiniteSet(S)
    BY <1>1, FS_Interval
  <1>4. SumFunctionOnSet(t, S) = SumFunctionOnSet(s, S)
    BY <1>2, <1>3, SumAgrees
  <1> QED
    BY <1>1, <1>4 DEF Part

\* A node joins a list with one node for each claimant: the list stays one, and
\* promises more by what the node does.
Share(U, node) == IF node.claimant \in U THEN node.amount ELSE 0

LEMMA MergedAdds ==
    ASSUME NEW nodes \in Seq(Node), NEW node \in Node, Distinct(nodes)
    PROVE  /\ Merged(nodes, node) \in Seq(Node)
           /\ Distinct(Merged(nodes, node))
           /\ Claimants(Merged(nodes, node)) = Claimants(nodes) \cup {node.claimant}
           /\ Len(Merged(nodes, node)) \in {Len(nodes), Len(nodes) + 1}
           /\ Merged(nodes, node) # <<>>
           /\ \A U : Part(U, Merged(nodes, node)) = Part(U, nodes) + Share(U, node)
  <1>1. PICK n, new : n = Len(nodes) /\ new = Merged(nodes, node)
    OBVIOUS
  <1>2. /\ n \in Nat /\ DOMAIN nodes = 1..n
        /\ \A i \in 1..n : nodes[i] \in Node
    BY <1>1, ListIs
  <1>3. node.claimant \in Users /\ node.amount \in Nat
    BY DEF Node
  <1>4. CASE node.claimant \in Claimants(nodes)
    <2>1. PICK k \in 1..n : nodes[k].claimant = node.claimant
      BY <1>2, <1>4 DEF Claimants
    <2>2. \A i \in 1..n : nodes[i].claimant = node.claimant <=> i = k
      BY <1>2, <2>1 DEF Distinct
    <2>3. new = [i \in 1..n |-> IF nodes[i].claimant = node.claimant
                                THEN [nodes[i] EXCEPT !.amount = @ + node.amount]
                                ELSE nodes[i]]
      BY <1>1, <1>2, <1>4 DEF Merged
    <2>4. /\ DOMAIN new = 1..n
          /\ \A i \in 1..n : i # k => new[i] = nodes[i]
          /\ new[k] = [nodes[k] EXCEPT !.amount = @ + node.amount]
      BY <2>1, <2>2, <2>3
    <2>5. /\ new[k] \in Node /\ new[k].claimant = nodes[k].claimant
          /\ new[k].amount = nodes[k].amount + node.amount
      BY <1>2, <1>3, <2>1, <2>4 DEF Node
    <2>6. new \in [1..n -> Node]
      <3>1. \A i \in 1..n : new[i] \in Node
        BY <1>2, <2>4, <2>5
      <3> QED
        BY <2>3, <3>1
    <2>7. new \in Seq(Node) /\ Len(new) = n
      BY <1>2, <2>6, ListOf
    <2>8. \A i \in 1..n : new[i].claimant = nodes[i].claimant
      BY <2>4, <2>5
    <2>9. Distinct(new) /\ Claimants(new) = Claimants(nodes)
      BY <1>2, <2>4, <2>8 DEF Distinct, Claimants
    <2>10. ASSUME NEW U PROVE Part(U, new) = Part(U, nodes) + Share(U, node)
      <3>1. PICK s, t, S, d : /\ s = Shares(U, nodes) /\ t = Shares(U, new)
                              /\ S = 1..n /\ d = Share(U, node)
        OBVIOUS
      <3>2. /\ \A i \in S : s[i] \in Int
            /\ IsFiniteSet(S) /\ k \in S /\ d \in Int
        BY <1>2, <1>3, <3>1, FS_Interval DEF Shares, Share, Node
      <3>3. \A i \in S \ {k} : t[i] = s[i]
        BY <1>2, <2>4, <3>1 DEF Shares
      <3>4. t[k] = s[k] + d
        <4>1. s[k] = IF nodes[k].claimant \in U THEN nodes[k].amount ELSE 0
          BY <1>2, <3>1 DEF Shares
        <4>2. t[k] = IF new[k].claimant \in U THEN new[k].amount ELSE 0
          BY <2>4, <3>1 DEF Shares
        <4>3. nodes[k].amount \in Nat
          BY <1>2 DEF Node
        <4> QED
          BY <2>1, <2>5, <3>1, <4>1, <4>2, <4>3 DEF Share
      <3>5. SumFunctionOnSet(t, S) = SumFunctionOnSet(s, S) + d
        BY <3>2, <3>3, <3>4, SumUpdate
      <3> QED
        BY <1>2, <2>4, <3>1, <3>5 DEF Part
    <2>11. Claimants(nodes) = Claimants(nodes) \cup {node.claimant}
      BY <1>4
    <2>12. new # <<>>
      BY <2>1, <2>7
    <2> QED
      BY <1>1, <2>7, <2>9, <2>10, <2>11, <2>12
  <1>5. CASE node.claimant \notin Claimants(nodes)
    <2>1. new = Append(nodes, node)
      BY <1>1, <1>5 DEF Merged
    <2>2. /\ new \in Seq(Node) /\ new # <<>> /\ Len(new) = n + 1
          /\ \A i \in 1..n : new[i] = nodes[i]
          /\ new[n + 1] = node
      BY <1>1, <2>1, AppendProperties
    <2>3. /\ DOMAIN new = 1..(n + 1)
          /\ \A i \in 1..(n + 1) : i \in 1..n \/ i = n + 1
          /\ \A i \in 1..n : i \in 1..(n + 1)
          /\ n + 1 \in 1..(n + 1)
      BY <1>2, <2>2, ListIs
    <2>4. \A i \in 1..n : nodes[i].claimant # node.claimant
      BY <1>2, <1>5 DEF Claimants
    <2>5. Distinct(new)
      BY <1>2, <2>2, <2>3, <2>4 DEF Distinct
    <2>6. Claimants(new) = Claimants(nodes) \cup {node.claimant}
      <3>1. ASSUME NEW i \in 1..(n + 1)
            PROVE  new[i].claimant \in Claimants(nodes) \cup {node.claimant}
        BY <1>2, <2>2, <2>3 DEF Claimants
      <3>2. ASSUME NEW i \in 1..n PROVE nodes[i].claimant \in Claimants(new)
        BY <2>2, <2>3 DEF Claimants
      <3>3. node.claimant \in Claimants(new)
        BY <2>2, <2>3 DEF Claimants
      <3> QED
        BY <1>2, <2>3, <3>1, <3>2, <3>3 DEF Claimants
    <2>7. ASSUME NEW U PROVE Part(U, new) = Part(U, nodes) + Share(U, node)
      <3>1. PICK s, t : s = Shares(U, nodes) /\ t = Shares(U, new)
        OBVIOUS
      <3>2. /\ \A i \in 1..n : s[i] = t[i]
            /\ t[n + 1] = Share(U, node)
        BY <1>2, <2>2, <2>3, <3>1 DEF Shares, Share
      <3>3. \A i \in 1..(n + 1) : t[i] \in Int
        <4>1. \A i \in 1..(n + 1) : new[i] \in Node
          BY <2>2, <2>3, ListIs
        <4> QED
          BY <2>3, <3>1, <4>1 DEF Shares, Node
      <3>4. SumFunctionOnSet(t, 1..(n + 1)) = SumFunctionOnSet(s, 1..n) + t[n + 1]
        BY <1>2, <3>2, <3>3, SumLonger
      <3> QED
        BY <1>2, <2>3, <3>1, <3>2, <3>4 DEF Part
    <2> QED
      BY <1>1, <2>2, <2>5, <2>6, <2>7
  <1> QED
    BY <1>4, <1>5

\* The loop that combines the nodes.
CombinedBy(c, nodes) ==
    /\ c[0] = <<>>
    /\ \A n \in 1..Len(nodes) : c[n] = Merged(c[n - 1], nodes[n])

Clean == {nodes \in Seq(Node) : Distinct(nodes)}

LEMMA CombineChain ==
    ASSUME NEW nodes \in Seq(Node)
    PROVE  \E c : /\ c \in [0..Len(nodes) -> Clean]
                  /\ CombinedBy(c, nodes)
                  /\ Combine(nodes) = c[Len(nodes)]
  <1> DEFINE len == Len(nodes)
             Is(s) == s = [n \in 0..len |->
                             IF n = 0 THEN <<>> ELSE Merged(s[n - 1], nodes[n])]
             c == CHOOSE s : Is(s)
             F == [n \in Nat |-> [x \in Clean |->
                     IF n \in 1..len THEN Merged(x, nodes[n]) ELSE x]]
  <1>0. len \in Nat /\ \A n \in 1..len : nodes[n] \in Node
    BY ListIs
  <1>1. F \in [Nat -> [Clean -> Clean]]
    <2>1. ASSUME NEW n \in 1..len, NEW x \in Clean
          PROVE  Merged(x, nodes[n]) \in Clean
      BY <1>0, MergedAdds DEF Clean
    <2> HIDE DEF len
    <2> QED
      BY <2>1
  <1>2. PICK s \in [0..len -> Clean] : Follows(s, len, <<>>, F)
    <2>1. <<>> \in Clean
      BY EmptySeq DEF Clean, Distinct
    <2> HIDE DEF F, len
    <2> QED
      BY <1>0, <1>1, <2>1, FiniteRecursion
  <1>3. \A n \in 1..len : s[n] = Merged(s[n - 1], nodes[n])
    <2> SUFFICES ASSUME NEW n \in 1..len PROVE s[n] = Merged(s[n - 1], nodes[n])
      OBVIOUS
    <2> HIDE DEF len
    <2>1. n \in Nat /\ n - 1 \in 0..len
      BY <1>0
    <2>2. s[n - 1] \in Clean
      BY <1>2, <2>1
    <2> QED
      BY <1>2, <2>1, <2>2 DEF Follows
  <1> HIDE DEF F
  <1>4. s[0] = <<>>
    BY <1>2 DEF Follows
  <1>5. Is(s)
    <2>1. \A n \in 0..len : n # 0 => n \in 1..len
      BY <1>0
    <2> HIDE DEF len
    <2> QED
      BY <1>2, <1>3, <1>4, <2>1
  <1>6. Is(c)
    <2> HIDE DEF Is
    <2> QED
      BY <1>5
  <1>7. Combine(nodes) = c[len]
    BY DEF Combine
  <1> HIDE DEF c
  <1>8. c[0] = <<>> /\ \A n \in 1..len : c[n] = Merged(c[n - 1], nodes[n])
    <2>1. c[0] = <<>>
      BY <1>0, <1>6
    <2>2. \A n \in 1..len : n \in 0..len /\ n # 0
      BY <1>0
    <2> HIDE DEF len
    <2> QED
      BY <1>6, <2>1, <2>2
  <1>9. c \in [0..len -> Clean]
    <2> DEFINE N == {n \in Nat : n <= len => c[n] = s[n]}
    <2>1. 0 \in N
      BY <1>4, <1>8
    <2>2. ASSUME NEW n \in Nat, n \in N PROVE n + 1 \in N
      <3> SUFFICES ASSUME n + 1 <= len PROVE c[n + 1] = s[n + 1]
        OBVIOUS
      <3> HIDE DEF len
      <3>1. n + 1 \in 1..len /\ (n + 1) - 1 = n /\ n <= len
        BY <1>0
      <3>2. c[n] = s[n]
        BY <2>2, <3>1
      <3> QED
        BY <1>3, <1>8, <3>1, <3>2
    <2>3. \A n \in Nat : n \in N
      <3> HIDE DEF N
      <3> QED
        BY <2>1, <2>2, SetInduction
    <2>4. \A n \in 0..len : c[n] = s[n]
      BY <1>0, <2>3
    <2>5. c = [n \in 0..len |-> c[n]]
      BY <1>6
    <2> HIDE DEF len
    <2> QED
      BY <1>2, <2>4, <2>5
  <1> QED
    BY <1>7, <1>8, <1>9 DEF CombinedBy

\* Combining the nodes of a claimant leaves one node for each claimant and no
\* claimant out, and keeps what is promised to anybody.
LEMMA CombineKeeps ==
    ASSUME NEW nodes \in Seq(Node)
    PROVE  /\ Combine(nodes) \in Seq(Node)
           /\ Distinct(Combine(nodes))
           /\ Claimants(Combine(nodes)) = Claimants(nodes)
           /\ Len(Combine(nodes)) <= Len(nodes)
           /\ nodes # <<>> => Combine(nodes) # <<>>
           /\ nodes = <<>> => Combine(nodes) = <<>>
           /\ \A U : Part(U, Combine(nodes)) = Part(U, nodes)
  <1>1. PICK len, c : /\ len = Len(nodes)
                      /\ c \in [0..len -> Clean]
                      /\ CombinedBy(c, nodes)
                      /\ Combine(nodes) = c[len]
    BY CombineChain
  <1>2. /\ len \in Nat /\ DOMAIN nodes = 1..len
        /\ \A n \in 1..len : nodes[n] \in Node
    BY <1>1, ListIs
  <1> DEFINE Sum(U, n) == SumFunctionOnSet(Shares(U, nodes), 1..n)
             Some(n) == {nodes[i].claimant : i \in 1..n}
             Good(n) == /\ Claimants(c[n]) = Some(n)
                        /\ Len(c[n]) <= n
                        /\ n # 0 => c[n] # <<>>
                        /\ \A U : Part(U, c[n]) = Sum(U, n)
             N == {n \in Nat : n <= len => Good(n)}
  <1>3. \A n \in 0..len : c[n] \in Seq(Node) /\ Distinct(c[n])
    BY <1>1 DEF Clean
  <1>4. 0 \in N
    <2>1. c[0] = <<>>
      BY <1>1 DEF CombinedBy
    <2>2. DOMAIN <<>> = {} /\ Len(<<>>) = 0 /\ 1..0 = {}
      OBVIOUS
    <2>3. Claimants(<<>>) = {} /\ Some(0) = {}
      BY <2>2 DEF Claimants
    <2>4. \A U : Part(U, <<>>) = 0 /\ Sum(U, 0) = 0
      BY <2>2, SumEmpty DEF Part
    <2> QED
      BY <2>1, <2>2, <2>3, <2>4
  <1>5. ASSUME NEW n \in Nat, n \in N PROVE n + 1 \in N
    <2> SUFFICES ASSUME n + 1 <= len PROVE Good(n + 1)
      OBVIOUS
    <2>1. Good(n)
      BY <1>2, <1>5
    <2>2. n + 1 \in 1..len /\ (n + 1) - 1 = n /\ n \in 0..len
      BY <1>2
    <2>3. PICK a, node : a = c[n] /\ node = nodes[n + 1]
      OBVIOUS
    <2>4. c[n + 1] = Merged(a, node)
      BY <1>1, <2>2, <2>3 DEF CombinedBy
    <2>5. a \in Seq(Node) /\ Distinct(a) /\ node \in Node
      BY <1>2, <1>3, <2>2, <2>3
    <2>6. /\ Claimants(c[n + 1]) = Claimants(a) \cup {node.claimant}
          /\ Len(c[n + 1]) \in {Len(a), Len(a) + 1}
          /\ c[n + 1] # <<>>
          /\ \A U : Part(U, c[n + 1]) = Part(U, a) + Share(U, node)
      <3>1. PICK new : new = Merged(a, node)
        OBVIOUS
      <3>2. /\ Claimants(new) = Claimants(a) \cup {node.claimant}
            /\ Len(new) \in {Len(a), Len(a) + 1}
            /\ new # <<>>
            /\ \A U : Part(U, new) = Part(U, a) + Share(U, node)
        BY ONLY <2>5, <3>1, MergedAdds
      <3> QED
        BY ONLY <2>4, <3>1, <3>2
    <2>7. Claimants(c[n + 1]) = Some(n + 1)
      <3>1. Some(n + 1) = Some(n) \cup {nodes[n + 1].claimant}
        <4>1. /\ \A i \in 1..(n + 1) : i \in 1..n \/ i = n + 1
              /\ \A i \in 1..n : i \in 1..(n + 1)
              /\ n + 1 \in 1..(n + 1)
          OBVIOUS
        <4> QED
          BY <4>1
      <3> HIDE DEF Some
      <3> QED
        BY <2>1, <2>3, <2>6, <3>1
    <2>8. Len(c[n + 1]) <= n + 1
      <3>1. Len(a) \in Nat /\ Len(a) <= n
        BY <2>1, <2>3, <2>5, ListIs
      <3> QED
        BY <2>6, <3>1
    <2>9. ASSUME NEW U PROVE Part(U, c[n + 1]) = Sum(U, n + 1)
      <3>1. PICK s : s = Shares(U, nodes)
        OBVIOUS
      <3>2. s[n + 1] = Share(U, node)
        BY <1>2, <2>2, <2>3, <3>1 DEF Shares, Share
      <3>3. \A i \in 1..(n + 1) : s[i] \in Int
        <4>1. \A i \in 1..(n + 1) : i \in 1..len /\ nodes[i].amount \in Nat
          BY <1>2, <2>2 DEF Node
        <4> QED
          BY <1>2, <3>1, <4>1 DEF Shares
      <3>4. SumFunctionOnSet(s, 1..(n + 1)) = SumFunctionOnSet(s, 1..n) + s[n + 1]
        BY <3>3, SumLonger
      <3> QED
        BY <2>1, <2>3, <2>6, <3>1, <3>2, <3>4
    <2> HIDE DEF Some, Sum
    <2> QED
      BY <2>6, <2>7, <2>8, <2>9
  <1>6. \A n \in Nat : n \in N
    <2> HIDE DEF N
    <2> QED
      BY <1>4, <1>5, SetInduction
  <1>7. Good(len)
    <2>1. len \in N
      BY <1>2, <1>6
    <2> HIDE DEF Good
    <2> QED
      BY <1>2, <2>1
  <1>8. Claimants(nodes) = Some(len)
    BY <1>2 DEF Claimants
  <1>9. \A U : Part(U, nodes) = Sum(U, len)
    BY <1>2 DEF Part
  <1>10. Combine(nodes) \in Seq(Node) /\ Distinct(Combine(nodes))
    BY <1>1, <1>2, <1>3
  <1>11. (nodes # <<>> => len # 0) /\ (nodes = <<>> => Combine(nodes) = <<>>)
    <2>1. nodes # <<>> => len # 0
      BY <1>1, EmptySeq
    <2>2. nodes = <<>> => len = 0
      BY <1>1
    <2>3. c[0] = <<>>
      BY <1>1 DEF CombinedBy
    <2> QED
      BY <1>1, <2>1, <2>2, <2>3
  <1> HIDE DEF Some, Sum
  <1> QED
    BY <1>1, <1>7, <1>8, <1>9, <1>10, <1>11

\* The two sums of the model in terms of what is promised.
LEMMA SumsArePromises ==
    ASSUME NEW nodes, NEW n \in Nat, DOMAIN nodes = 1..n,
           \A i \in 1..n : nodes[i].claimant \in Users
    PROVE  /\ Total(nodes) = Part(Users, nodes)
           /\ \A user : AmountOf(user, nodes) = Part({user}, nodes)
  <1>1. Total(nodes) = Part(Users, nodes)
    <2>1. [i \in DOMAIN nodes |-> nodes[i].amount] = Shares(Users, nodes)
      BY DEF Shares
    <2>2. DOMAIN Shares(Users, nodes) = DOMAIN nodes
      BY DEF Shares
    <2> QED
      BY <2>1, <2>2 DEF Total, Part, SumFunction
  <1>2. ASSUME NEW user PROVE AmountOf(user, nodes) = Part({user}, nodes)
    <2>1. [i \in DOMAIN nodes |->
             IF nodes[i].claimant = user THEN nodes[i].amount ELSE 0]
            = Shares({user}, nodes)
      BY DEF Shares
    <2>2. DOMAIN Shares({user}, nodes) = DOMAIN nodes
      BY DEF Shares
    <2> QED
      BY <2>1, <2>2 DEF AmountOf, Part, SumFunction
  <1> QED
    BY <1>1, <1>2

\* A list with one node for each claimant has as many claimants as nodes.
LEMMA OneEach ==
    ASSUME NEW nodes, NEW n \in Nat, DOMAIN nodes = 1..n, Distinct(nodes)
    PROVE  Cardinality(Claimants(nodes)) = n
  <1> DEFINE f == [i \in 1..n |-> nodes[i].claimant]
  <1>1. PICK S, T : S = 1..n /\ T = Claimants(nodes)
    OBVIOUS
  <1>2. f \in Bijection(S, T)
    BY <1>1 DEF Bijection, Injection, Surjection, IsInjective, Distinct, Claimants
  <1>3. IsFiniteSet(S) /\ Cardinality(S) = IF 1 > n THEN 0 ELSE n - 1 + 1
    BY ONLY <1>1, FS_Interval, n \in Nat, 1 \in Int
  <1>4. Cardinality(S) = n
    BY <1>3
  <1>5. ExistsBijection(S, T)
    BY <1>2 DEF ExistsBijection
  <1>6. Cardinality(S) = Cardinality(T)
    BY <1>3, <1>5, FS_Bijection
  <1> QED
    BY <1>1, <1>4, <1>6

\* A row becomes a node whose amount is a u64.
LEMMA NodesOfRows ==
    ASSUME NEW rows \in Seq(Row)
    PROVE  /\ Nodes(rows) \in Seq(Node)
           /\ Len(Nodes(rows)) = Len(rows)
           /\ DOMAIN Nodes(rows) = 1..Len(rows)
           /\ \A i \in 1..Len(rows) : Nodes(rows)[i] = FromCsv(rows[i])
           /\ \A i \in 1..Len(rows) : Nodes(rows)[i].claimant = rows[i].pubkey
           /\ \A i \in 1..Len(rows) : Nodes(rows)[i].amount \in Nat
           /\ Claimants(Nodes(rows)) = {rows[i].pubkey : i \in 1..Len(rows)}
  <1>1. PICK n, nodes : n = Len(rows) /\ nodes = Nodes(rows)
    OBVIOUS
  <1>2. /\ n \in Nat /\ DOMAIN rows = 1..n
        /\ \A i \in 1..n : rows[i] \in Row
    BY <1>1, ListIs
  <1>3. ASSUME NEW amount \in UiAmounts PROVE TokenAmount(amount) \in Nat
    <2>1. amount \in Int /\ UiScale \in Nat \ {0} /\ Scale \in Nat /\ MaxU64 \in Nat
      BY AmountsAssumption
    <2>2. PICK units \in Int : units = (amount * Scale) \div UiScale
      BY <2>1
    <2> QED
      BY <2>1, <2>2 DEF TokenAmount
  <1>4. \A row \in Row : FromCsv(row) \in Node
    BY <1>3 DEF FromCsv, Row, Node
  <1>5. nodes = [i \in 1..n |-> FromCsv(rows[i])]
    BY <1>1, <1>2 DEF Nodes
  <1>6. nodes \in [1..n -> Node]
    BY <1>2, <1>4, <1>5
  <1>7. nodes \in Seq(Node) /\ Len(nodes) = n /\ DOMAIN nodes = 1..n
    BY <1>2, <1>6, ListOf
  <1>8. \A i \in 1..n : nodes[i] = FromCsv(rows[i])
    BY <1>5
  <1>9. \A i \in 1..n : nodes[i].claimant = rows[i].pubkey
    <2>1. ASSUME NEW row PROVE FromCsv(row).claimant = row.pubkey
      BY DEF FromCsv
    <2> QED
      BY <1>8, <2>1
  <1>10. \A i \in 1..n : nodes[i].amount \in Nat
    BY <1>6 DEF Node
  <1>11. Claimants(nodes) = {rows[i].pubkey : i \in 1..n}
    BY <1>7, <1>9 DEF Claimants
  <1> QED
    BY <1>1, <1>7, <1>8, <1>9, <1>10, <1>11

-----------------------------------------------------------------------------
(* The inductive invariant. *)

Leaf == [claimant : Users, amount : 0..MaxU64,
         proof : (0..MaxRows) \X (1..MaxRows)]

Tree == [airdrop_version : 0..MaxRows, max_num_nodes : 1..MaxRows,
         max_total_claim : 0..MaxU64, tree_nodes : Seq(Leaf)]

\* The nodes of the tree of a version, and the tree.
LeavesOf(nodes, version) ==
    /\ nodes \in Seq(Leaf)
    /\ Len(nodes) \in 1..MaxRows
    /\ Distinct(nodes)
    /\ \A i \in 1..Len(nodes) : nodes[i].proof = <<version, i>>

TreeOf(tree, version) ==
    /\ tree \in Tree
    /\ tree.airdrop_version = version
    /\ tree.max_num_nodes = Len(tree.tree_nodes)
    /\ tree.max_total_claim = Part(Users, tree.tree_nodes)
    /\ LeavesOf(tree.tree_nodes, version)

Folder(trees) ==
    /\ trees \in Seq(Tree)
    /\ Len(trees) <= MaxRows
    /\ \A i \in 1..Len(trees) : TreeOf(trees[i], i - 1)

\* What the first n trees promise to the users in U, and who is in them.
Promised(U, trees, n) ==
    SumFunctionOnSet([i \in 1..n |-> Part(U, trees[i].tree_nodes)], 1..n)
Holders(trees, S) == UNION {Claimants(trees[i].tree_nodes) : i \in S}

\* The trees that a run has written hold the first n rows of its file.
Cut(rows, left, n) ==
    /\ n \in 0..Len(rows)
    /\ left = SubSeq(rows, n + 1, Len(rows))
    /\ Len(left) = Len(rows) - n

Covers(trees, count, rows, n) ==
    /\ \A U \in SUBSET Users :
          Promised(U, trees, count)
            = SumFunctionOnSet(Shares(U, Nodes(rows)), 1..n)
    /\ Holders(trees, 1..count) = {rows[i].pubkey : i \in 1..n}

Runs == [csv : Seq(Row), max_nodes_per_tree : Nat]

PlansInv ==
    /\ plan \in Seq(Runs)
    /\ \A i \in 1..Len(plan) : Len(plan[i].csv) <= MaxRows
    /\ csv \in Seq(Row)
    /\ Len(csv) <= MaxRows
    /\ maxNodes \in Nat

CreateInv ==
    /\ create \in {"running", "done", "panicked"}
    /\ Folder(disk)
    /\ index \in 0..Len(disk)
    /\ \E n \in 0..Len(csv) :
          /\ Cut(csv, rest, n)
          /\ index <= n
          /\ Covers(disk, index, csv, n)
    /\ create = "done" => rest = <<>>
    /\ OnlyOverflowAborts

\* Once the folder is read or copied it does not change.
Settled == create = "done" /\ plan = <<>>

ReadInv ==
    /\ blobs # <<>> => Settled /\ blobs = disk
    /\ api # "down" => Settled
    /\ kv # "idle" => Settled

\* The node at place i of the k-th tree that is read, and whether it is among
\* those of the first l trees and the first j nodes of the next.
Among(k, i, l, j) == k <= l \/ (k = l + 1 /\ i <= j)

Holds(trees, user, k, i, l, j) ==
    /\ k \in DOMAIN trees
    /\ i \in DOMAIN trees[k].tree_nodes
    /\ trees[k].tree_nodes[i].claimant = user
    /\ Among(k, i, l, j)

\* A map has an entry for everybody in these nodes, made of the last one.
Stores(map, trees, l, j) ==
    /\ map = [user \in DOMAIN map |-> map[user]]
    /\ \A user \in DOMAIN map :
          \E k \in DOMAIN trees : \E i \in DOMAIN trees[k].tree_nodes :
             /\ Holds(trees, user, k, i, l, j)
             /\ map[user] = Entry(trees[k], i)
             /\ \A k2 \in DOMAIN trees : \A i2 \in DOMAIN trees[k2].tree_nodes :
                   Holds(trees, user, k2, i2, l, j) => k2 <= k
    /\ \A k \in DOMAIN trees : \A i \in DOMAIN trees[k].tree_nodes :
          Among(k, i, l, j) => trees[k].tree_nodes[i].claimant \in DOMAIN map

\* The API has loaded the first l of the trees.
Loaded(trees, l) ==
    /\ unread = SubSeq(trees, l + 1, Len(trees))
    /\ Stores(state.tree, trees, l, 0)
    /\ state.max_total_claim
         = SumFunctionOnSet([k \in 1..l |-> trees[k].max_total_claim], 1..l)
    /\ state.max_total_claim \in 0..MaxU64

Versions(trees, l) == [k \in 1..l |-> trees[k].airdrop_version]

ApiInv ==
    /\ api \in {"down", "loading", "serving", "panicked"}
    /\ api = "down" => state = NoState
    /\ api \in {"loading", "panicked"} =>
          \E l \in 0..Len(TreesRead) :
             /\ Loaded(TreesRead, l)
             /\ state.trees = Versions(TreesRead, l)
    /\ api = "serving" =>
          /\ Loaded(TreesRead, Len(TreesRead))
          /\ state.trees = SortVersions(Versions(TreesRead, Len(TreesRead)))

\* generate-kv-proof has handled the first l trees and some nodes of the next.
Handled(trees, l) ==
    /\ toAdd = SubSeq(trees, l + 1, Len(trees))
    /\ added \in Nat
    /\ l < Len(trees) => added < Len(trees[l + 1].tree_nodes)
    /\ l = Len(trees) => added = 0
    /\ Stores(With(KvStore, proofs), trees, l, added)

KvInv ==
    /\ kv \in {"idle", "running", "done", "panicked"}
    /\ \E S : files \in Seq(S)
    /\ kv \in {"idle", "panicked"} => proofs = Empty /\ files = <<>> /\ added = 0
    /\ kv \in {"running", "done"} => blobs = <<>>
    /\ kv = "running" => \E l \in 0..Len(TreesRead) : Handled(TreesRead, l)
    /\ kv = "done" =>
          /\ Stores(KvStore, TreesRead, Len(TreesRead), 0)
          /\ \A user \in DOMAIN proofs : user \in DOMAIN KvStore /\ proofs[user] = KvStore[user]

IInv == PlansInv /\ CreateInv /\ ReadInv /\ ApiInv /\ KvInv

-----------------------------------------------------------------------------
(* create-merkle-tree *)

\* AirdropMerkleTree::new builds a tree in which everybody in its rows has one
\* node with all that the rows give, and validate rejects it only if there are
\* no rows or the amounts add up beyond a u64.
MadeOf(tree, rows, version) ==
    /\ Valid(tree) => TreeOf(tree, version) /\ rows # <<>>
    /\ ~Valid(tree) => rows = <<>> \/ Total(Nodes(rows)) > MaxU64
    /\ Claimants(tree.tree_nodes) = {rows[i].pubkey : i \in 1..Len(rows)}
    /\ \A U : Part(U, tree.tree_nodes) = Part(U, Nodes(rows))

LEMMA NewTreeIs ==
    ASSUME NEW rows \in Seq(Row), Len(rows) <= MaxRows, NEW version \in 0..MaxRows,
           NEW tree, tree = NewTree(rows, version)
    PROVE  MadeOf(tree, rows, version)
  <1>1. PICK all, nodes, n : /\ all = Nodes(rows)
                             /\ nodes = Combine(all)
                             /\ n = Len(nodes)
    OBVIOUS
  <1>2. /\ all \in Seq(Node) /\ Len(all) = Len(rows)
        /\ Claimants(all) = {rows[i].pubkey : i \in 1..Len(rows)}
        /\ DOMAIN all = 1..Len(rows)
        /\ \A i \in 1..Len(rows) : all[i].claimant \in Users
    <2>1. \A i \in 1..Len(rows) : rows[i].pubkey \in Users
      <3>1. \A i \in 1..Len(rows) : rows[i] \in Row
        BY ONLY rows \in Seq(Row), ListIs
      <3> QED
        BY <3>1 DEF Row
    <2> QED
      BY <1>1, <2>1, NodesOfRows
  <1>3. /\ nodes \in Seq(Node) /\ Distinct(nodes)
        /\ Claimants(nodes) = Claimants(all)
        /\ Len(nodes) <= Len(all)
        /\ all # <<>> => nodes # <<>>
        /\ all = <<>> => nodes = <<>>
        /\ \A U : Part(U, nodes) = Part(U, all)
    BY ONLY <1>1, <1>2, CombineKeeps
  <1>4. /\ n \in Nat /\ DOMAIN nodes = 1..n /\ n <= Len(rows) /\ Len(rows) \in Nat
        /\ \A i \in 1..n : nodes[i] \in Node
        /\ n = 0 <=> rows = <<>>
    <2>1. /\ n \in Nat /\ DOMAIN nodes = 1..n /\ Len(rows) \in Nat
          /\ \A i \in 1..n : nodes[i] \in Node
      BY <1>1, <1>3, ListIs
    <2>2. (rows = <<>> <=> Len(rows) = 0) /\ (all = <<>> <=> Len(all) = 0)
      BY <1>2, EmptySeq
    <2>3. nodes = <<>> <=> n = 0
      BY <1>1, <1>3, EmptySeq
    <2> QED
      BY ONLY <1>1, <1>2, <1>3, <2>1, <2>2, <2>3
  <1>5. PICK leaves : leaves = [i \in 1..n |-> [claimant |-> nodes[i].claimant,
                                                amount |-> nodes[i].amount,
                                                proof |-> <<version, i>>]]
    OBVIOUS
  <1>6. /\ tree.airdrop_version = version
        /\ tree.max_num_nodes = n
        /\ tree.max_total_claim = Total(nodes)
        /\ tree.tree_nodes = leaves
        /\ tree = [airdrop_version |-> version, max_num_nodes |-> n,
                   max_total_claim |-> Total(nodes), tree_nodes |-> leaves]
    BY <1>1, <1>4, <1>5 DEF NewTree
  <1>7. /\ DOMAIN leaves = 1..n
        /\ \A i \in 1..n : /\ leaves[i].claimant = nodes[i].claimant
                           /\ leaves[i].amount = nodes[i].amount
                           /\ leaves[i].proof = <<version, i>>
                           /\ leaves[i] = [claimant |-> nodes[i].claimant,
                                           amount |-> nodes[i].amount,
                                           proof |-> <<version, i>>]
    BY <1>5
  <1>8. \A i \in 1..n : nodes[i].amount \in Nat /\ nodes[i].claimant \in Users
    BY <1>4 DEF Node
  <1>9. Claimants(leaves) = Claimants(nodes)
    BY <1>4, <1>7 DEF Claimants
  <1>10. \A U : Part(U, leaves) = Part(U, nodes)
    <2> SUFFICES ASSUME NEW U PROVE Part(U, leaves) = Part(U, nodes)
      OBVIOUS
    <2>1. \A i \in 1..n : /\ leaves[i].amount = nodes[i].amount
                          /\ leaves[i].claimant = nodes[i].claimant
      BY ONLY <1>7
    <2>2. /\ n \in Nat /\ DOMAIN nodes = 1..n /\ DOMAIN leaves = 1..n
          /\ \A i \in 1..n : nodes[i].amount \in Nat
      BY ONLY <1>4, <1>7, <1>8
    <2> QED
      BY ONLY <2>1, <2>2, PartSame
  <1>11. /\ Total(nodes) = Part(Users, nodes)
         /\ Total(leaves) = Part(Users, leaves)
         /\ Total(all) = Part(Users, all)
    <2>1. Total(nodes) = Part(Users, nodes)
      BY ONLY <1>4, <1>8, SumsArePromises
    <2>2. Total(leaves) = Part(Users, leaves)
      <3>1. \A i \in 1..n : leaves[i].claimant \in Users
        BY <1>7, <1>8
      <3> QED
        BY ONLY <1>4, <1>7, <3>1, SumsArePromises
    <2>3. Total(all) = Part(Users, all)
      BY ONLY <1>2, <1>4, SumsArePromises
    <2> QED
      BY <2>1, <2>2, <2>3
  <1>12. Len(leaves) = n /\ leaves \in Seq({leaves[i] : i \in 1..n})
    <2>1. PICK S : S = {leaves[i] : i \in 1..n}
      OBVIOUS
    <2>2. leaves \in [1..n -> S]
      BY <1>5, <2>1
    <2> QED
      BY ONLY <1>4, <2>1, <2>2, ListOf
  <1>13. Distinct(leaves)
    BY <1>3, <1>4, <1>7 DEF Distinct
  <1>14. Cardinality(Claimants(leaves)) = n
    BY <1>4, <1>7, <1>13, OneEach
  <1>15. leaves # <<>> <=> n # 0
    BY ONLY <1>12, EmptySeq
  <1>16. Part(Users, nodes) \in Nat /\ \A i \in 1..n : nodes[i].amount <= Part(Users, nodes)
    <2>1. /\ Part(Users, nodes) \in Nat
          /\ \A i \in 1..n : Shares(Users, nodes)[i] <= Part(Users, nodes)
      BY ONLY <1>4, <1>8, PartType
    <2>2. \A i \in 1..n : Shares(Users, nodes)[i] = nodes[i].amount
      BY <1>4, <1>8 DEF Shares
    <2> QED
      BY <2>1, <2>2
  <1>17. Valid(tree) <=> n # 0 /\ Part(Users, nodes) <= MaxU64
    BY <1>6, <1>10, <1>11, <1>12, <1>14, <1>15 DEF Valid
  <1>18. ASSUME Valid(tree) PROVE TreeOf(tree, version)
    <2>1. n \in 1..MaxRows /\ Part(Users, nodes) \in 0..MaxU64
      BY <1>4, <1>16, <1>17, <1>18, SizesAssumption, AmountsAssumption
    <2>2. ASSUME NEW i \in 1..n PROVE leaves[i] \in Leaf
      <3>1. nodes[i].amount \in 0..MaxU64
        <4>1. PICK a, b : a = nodes[i].amount /\ b = Part(Users, nodes)
          OBVIOUS
        <4>2. a \in Nat /\ b \in 0..MaxU64 /\ a <= b
          BY ONLY <1>8, <1>16, <2>1, <4>1, i \in 1..n
        <4> QED
          BY ONLY <4>1, <4>2, AmountsAssumption
      <3>2. i \in 1..MaxRows
        BY <1>4, <2>1, SizesAssumption
      <3>3. <<version, i>> \in (0..MaxRows) \X (1..MaxRows)
        BY <3>2
      <3> QED
        BY <1>7, <1>8, <3>1, <3>3 DEF Leaf
    <2>3. leaves \in Seq(Leaf)
      <3>1. leaves \in [1..n -> Leaf]
        BY <1>5, <2>2
      <3> QED
        BY <1>4, <3>1, ListOf
    <2>4. LeavesOf(leaves, version)
      BY <1>7, <1>12, <1>13, <2>1, <2>3 DEF LeavesOf
    <2>5. tree \in Tree
      BY <1>6, <1>11, <2>1, <2>3 DEF Tree
    <2> QED
      BY <1>6, <1>10, <1>11, <1>12, <2>4, <2>5 DEF TreeOf
  <1>19. ASSUME ~Valid(tree) PROVE rows = <<>> \/ Total(all) > MaxU64
    BY <1>3, <1>4, <1>11, <1>16, <1>17, <1>19, AmountsAssumption
  <1>20. /\ Claimants(tree.tree_nodes) = {rows[i].pubkey : i \in 1..Len(rows)}
         /\ \A U : Part(U, tree.tree_nodes) = Part(U, all)
    BY <1>2, <1>3, <1>6, <1>9, <1>10
  <1> QED
    BY <1>1, <1>4, <1>17, <1>18, <1>19, <1>20 DEF MadeOf

\* The next rows of the file are those that the next tree is made of.
NextRows(rows, left, n, last, part, left2) ==
    /\ part \in Seq(Row) /\ Len(part) = last
    /\ \A i \in 1..last : part[i] = rows[n + i]
    /\ n + last \in 0..Len(rows)
    /\ Cut(rows, left2, n + last)
    /\ left \in Seq(Row)

LEMMA CutsOff ==
    ASSUME NEW rows \in Seq(Row), NEW left, NEW n, Cut(rows, left, n),
           NEW last \in 0..Len(left),
           NEW part, part = SubSeq(left, 1, last),
           NEW left2, left2 = SubSeq(left, last + 1, Len(left))
    PROVE  NextRows(rows, left, n, last, part, left2)
  <1>1. PICK len, len2 : len = Len(rows) /\ len2 = Len(left)
    OBVIOUS
  <1>2. len \in Nat /\ n \in 0..len /\ len2 = len - n /\ last \in 0..len2
    BY <1>1, ListIs DEF Cut
  <1>3. left = SubSeq(rows, n + 1, len)
    BY <1>1 DEF Cut
  <1>4. /\ left \in Seq(Row)
        /\ \A i \in 1..len2 : left[i] = rows[n + i]
    <2>1. \A i \in (n + 1)..len : rows[i] \in Row
      BY <1>1, <1>2, ListIs
    <2>2. left = [i \in 1..len2 |-> rows[n + i]]
      BY <1>2, <1>3
    <2>3. \A i \in 1..len2 : n + i \in (n + 1)..len
      BY <1>2
    <2>4. left \in [1..len2 -> Row]
      BY <2>1, <2>2, <2>3
    <2>5. len2 \in Nat
      BY <1>2
    <2> QED
      BY <2>2, <2>4, <2>5, ListOf
  <1>5. part = [i \in 1..last |-> left[i]]
    BY <1>2
  <1>6. part \in Seq(Row) /\ Len(part) = last
    <2>1. \A i \in 1..last : i \in 1..len2 /\ left[i] \in Row
      BY <1>1, <1>2, <1>4, ListIs
    <2>2. part \in [1..last -> Row]
      BY ONLY <1>5, <2>1
    <2>3. last \in Nat
      BY <1>2
    <2> QED
      BY ONLY <2>2, <2>3, ListOf
  <1>7. \A i \in 1..last : part[i] = rows[n + i]
    BY <1>2, <1>4, <1>5
  <1>8. left2 = SubSeq(rows, n + last + 1, len) /\ Len(left2) = len - (n + last)
    <2>1. PICK m \in Nat : m = len2 - last
      BY <1>2
    <2>2. left2 = [i \in 1..m |-> left[last + i]]
      BY <1>1, <1>2, <2>1
    <2>3. \A i \in 1..m : last + i \in 1..len2 /\ left[last + i] = rows[n + last + i]
      BY <1>2, <1>4, <2>1
    <2>4. SubSeq(rows, n + last + 1, len) = [i \in 1..m |-> rows[n + last + i]]
      BY <1>2, <2>1
    <2>5. left2 = [i \in 1..m |-> rows[n + last + i]]
      BY <2>2, <2>3
    <2>6. Len(left2) = m
      BY <2>1, <2>2
    <2>7. m = len - (n + last)
      BY ONLY <1>2, <2>1
    <2> QED
      BY ONLY <2>4, <2>5, <2>6, <2>7
  <1>9. n + last \in 0..len
    BY ONLY <1>2
  <1>10. Cut(rows, left2, n + last)
    BY ONLY <1>1, <1>8, <1>9 DEF Cut
  <1> QED
    BY ONLY <1>1, <1>4, <1>6, <1>7, <1>9, <1>10 DEF NextRows

\* A file of the folder is written.
LEMMA FileWritten ==
    ASSUME NEW trees, Folder(trees), NEW i \in 0..Len(trees), i < MaxRows,
           NEW tree, TreeOf(tree, i)
    PROVE  /\ Folder(WriteFile(trees, i, tree))
           /\ i + 1 \in 0..Len(WriteFile(trees, i, tree))
           /\ \A j \in 1..i : WriteFile(trees, i, tree)[j] = trees[j]
           /\ WriteFile(trees, i, tree)[i + 1] = tree
  <1>1. PICK new, n : n = Len(trees) /\ new = WriteFile(trees, i, tree)
    OBVIOUS
  <1>2. /\ trees \in Seq(Tree) /\ n \in Nat /\ n <= MaxRows
        /\ DOMAIN trees = 1..n
        /\ \A j \in 1..n : trees[j] \in Tree /\ TreeOf(trees[j], j - 1)
    BY <1>1, ListIs DEF Folder
  <1>3. tree \in Tree /\ MaxRows \in Nat
    BY SizesAssumption DEF TreeOf
  <1>4. CASE i < n
    <2>1. /\ new = [trees EXCEPT ![i + 1] = tree]
          /\ i + 1 \in 1..n
      BY <1>1, <1>2, <1>4 DEF WriteFile
    <2>2. /\ new \in Seq(Tree) /\ Len(new) = n
          /\ \A j \in 1..n : new[j] = IF j = i + 1 THEN tree ELSE trees[j]
      <3>1. new \in [1..n -> Tree]
        <4>1. trees \in [1..n -> Tree]
          BY <1>2
        <4> QED
          BY <1>3, <2>1, <4>1
      <3>2. new \in Seq(Tree) /\ Len(new) = n
        BY ONLY <1>2, <3>1, ListOf
      <3> QED
        BY <1>2, <2>1, <3>2
    <2>3. \A j \in 1..n : TreeOf(new[j], j - 1)
      BY <1>2, <2>1, <2>2
    <2>4. Folder(new)
      BY <1>2, <2>2, <2>3 DEF Folder
    <2>5. \A j \in 1..i : j \in 1..n /\ j # i + 1
      BY <1>2, <2>1
    <2> QED
      BY <1>1, <1>2, <2>1, <2>2, <2>4, <2>5
  <1>5. CASE ~(i < n)
    <2>1. i = n /\ new = Append(trees, tree)
      BY <1>1, <1>2, <1>5 DEF WriteFile
    <2>2. /\ new \in Seq(Tree) /\ Len(new) = n + 1
          /\ \A j \in 1..n : new[j] = trees[j]
          /\ new[n + 1] = tree
      <3>1. /\ new \in Seq(Tree) /\ Len(new) = Len(trees) + 1
            /\ \A j \in 1..Len(trees) : new[j] = trees[j]
            /\ new[Len(trees) + 1] = tree
        BY ONLY <1>2, <1>3, <2>1, AppendProperties
      <3> QED
        BY ONLY <1>1, <3>1
    <2>3. ASSUME NEW j \in 1..(n + 1) PROVE TreeOf(new[j], j - 1)
      <3>1. CASE j = n + 1
        <4>1. j - 1 = i
          BY <1>2, <2>1, <3>1
        <4> QED
          BY <2>2, <3>1, <4>1
      <3>2. CASE j # n + 1
        BY <1>2, <2>2, <3>2
      <3> QED
        BY <3>1, <3>2
    <2>4. Folder(new)
      <3>1. n + 1 <= MaxRows
        BY <1>2, <1>3, <2>1
      <3> QED
        BY <2>2, <2>3, <3>1 DEF Folder
    <2> QED
      BY <1>1, <1>2, <2>1, <2>2, <2>4
  <1> QED
    BY <1>4, <1>5

\* In a folder, what a tree promises is a number.
LEMMA FolderPromises ==
    ASSUME NEW trees, Folder(trees), NEW i \in 1..Len(trees)
    PROVE  /\ TreeOf(trees[i], i - 1)
           /\ trees[i].tree_nodes \in Seq(Leaf)
           /\ DOMAIN trees[i].tree_nodes = 1..Len(trees[i].tree_nodes)
           /\ Len(trees[i].tree_nodes) \in Nat
           /\ \A k \in 1..Len(trees[i].tree_nodes) : trees[i].tree_nodes[k] \in Leaf
           /\ \A U : Part(U, trees[i].tree_nodes) \in Nat
  <1>1. PICK nodes, n : nodes = trees[i].tree_nodes /\ n = Len(nodes)
    OBVIOUS
  <1>2. TreeOf(trees[i], i - 1)
    BY DEF Folder
  <1>3. nodes \in Seq(Leaf)
    BY <1>1, <1>2 DEF TreeOf, LeavesOf
  <1>4. n \in Nat /\ DOMAIN nodes = 1..n /\ \A k \in 1..n : nodes[k] \in Leaf
    BY ONLY <1>1, <1>3, ListIs
  <1>5. \A k \in 1..n : nodes[k].amount \in Nat
    BY <1>4 DEF Leaf
  <1>6. \A U : Part(U, nodes) \in Nat
    BY ONLY <1>4, <1>5, PartType
  <1> QED
    BY <1>1, <1>2, <1>3, <1>4, <1>6

\* The next tree holds the next rows, and so the trees together hold more.
LEMMA CoversMore ==
    ASSUME NEW rows \in Seq(Row), NEW n \in Nat, NEW last \in Nat,
           n + last <= Len(rows),
           NEW part \in Seq(Row), Len(part) = last,
           \A i \in 1..last : part[i] = rows[n + i],
           NEW trees, Folder(trees), NEW count \in 0..Len(trees),
           Covers(trees, count, rows, n),
           NEW new, Folder(new), count + 1 <= Len(new),
           \A i \in 1..count : new[i] = trees[i],
           NEW nodes, new[count + 1].tree_nodes = nodes,
           Claimants(nodes) = {part[i].pubkey : i \in 1..Len(part)},
           \A U : Part(U, nodes) = Part(U, Nodes(part))
    PROVE  Covers(new, count + 1, rows, n + last)
  <1>1. /\ Len(rows) \in Nat /\ Len(trees) \in Nat /\ Len(new) \in Nat
        /\ count \in Nat
    <2>1. trees \in Seq(Tree) /\ new \in Seq(Tree)
      BY DEF Folder
    <2>2. Len(rows) \in Nat /\ Len(trees) \in Nat /\ Len(new) \in Nat
      BY <2>1, ListIs
    <2> QED
      BY <2>2
  <1>2. ASSUME NEW U \in SUBSET Users
        PROVE  Promised(U, new, count + 1)
                 = SumFunctionOnSet(Shares(U, Nodes(rows)), 1..(n + last))
    <2>1. PICK f, g, s, t : /\ f = [i \in 1..(count + 1) |-> Part(U, new[i].tree_nodes)]
                            /\ g = [i \in 1..count |-> Part(U, trees[i].tree_nodes)]
                            /\ s = Shares(U, Nodes(rows))
                            /\ t = Shares(U, Nodes(part))
      OBVIOUS
    <2>2. SumFunctionOnSet(f, 1..(count + 1)) = SumFunctionOnSet(g, 1..count) + f[count + 1]
      <3>1. \A i \in 1..(count + 1) : i \in 1..Len(new)
        BY <1>1
      <3>2. \A i \in 1..(count + 1) : f[i] \in Nat
        BY <2>1, <3>1, FolderPromises
      <3>3. \A i \in 1..count : i \in 1..(count + 1) /\ g[i] = f[i]
        BY <1>1, <2>1
      <3>4. \A i \in 1..(count + 1) : f[i] \in Int
        BY <3>2
      <3> QED
        BY ONLY <1>1, <3>3, <3>4, SumLonger
    <2>3. f[count + 1] = Part(U, Nodes(part))
      BY <1>1, <2>1
    <2>4. /\ \A i \in 1..Len(rows) : s[i] = Share(U, FromCsv(rows[i])) /\ s[i] \in Nat
          /\ \A i \in 1..last : t[i] = Share(U, FromCsv(part[i]))
          /\ DOMAIN Nodes(part) = 1..last
      <3>1. /\ DOMAIN Nodes(rows) = 1..Len(rows) /\ DOMAIN Nodes(part) = 1..last
            /\ \A i \in 1..Len(rows) : /\ Nodes(rows)[i] = FromCsv(rows[i])
                                       /\ Nodes(rows)[i].amount \in Nat
            /\ \A i \in 1..last : Nodes(part)[i] = FromCsv(part[i])
        BY NodesOfRows
      <3>2. \A i \in 1..Len(rows) : s[i] = Share(U, FromCsv(rows[i]))
        BY <2>1, <3>1 DEF Shares, Share
      <3>3. \A i \in 1..Len(rows) : s[i] \in Nat
        BY <2>1, <3>1 DEF Shares
      <3>4. \A i \in 1..last : t[i] = Share(U, FromCsv(part[i]))
        BY <2>1, <3>1 DEF Shares, Share
      <3> QED
        BY <3>1, <3>2, <3>3, <3>4
    <2>5. SumFunctionOnSet(s, 1..(n + last))
            = SumFunctionOnSet(s, 1..n) + SumFunctionOnSet(t, 1..last)
      <3>1. \A i \in 1..(n + last) : i \in 1..Len(rows)
        BY <1>1
      <3>2. \A i \in 1..(n + last) : s[i] \in Int
        BY <2>4, <3>1
      <3>3. \A i \in 1..last : n + i \in 1..Len(rows)
        BY <1>1
      <3>4. \A i \in 1..last : t[i] = s[n + i]
        BY <2>4, <3>3
      <3>5. n \in Nat /\ last \in Nat
        OBVIOUS
      <3>6. ASSUME NEW a \in Nat, NEW b \in Nat,
                   \A i \in 1..(a + b) : s[i] \in Int, \A i \in 1..b : t[i] = s[a + i]
            PROVE  SumFunctionOnSet(s, 1..(a + b))
                     = SumFunctionOnSet(s, 1..a) + SumFunctionOnSet(t, 1..b)
        BY ONLY <3>6, SumSplit
      <3> QED
        BY ONLY <3>2, <3>4, <3>5, <3>6
    <2>6. SumFunctionOnSet(t, 1..last) = Part(U, Nodes(part))
      BY <2>1, <2>4 DEF Part
    <2>7. SumFunctionOnSet(g, 1..count) = SumFunctionOnSet(s, 1..n)
      BY <2>1 DEF Covers, Promised
    <2> QED
      BY <2>1, <2>2, <2>3, <2>5, <2>6, <2>7 DEF Promised
  <1>3. Holders(new, 1..(count + 1)) = {rows[i].pubkey : i \in 1..(n + last)}
    <2>1. Holders(trees, 1..count) = {rows[i].pubkey : i \in 1..n}
      BY DEF Covers
    <2>2. Holders(new, 1..(count + 1)) = Holders(trees, 1..count) \cup Claimants(nodes)
      <3>1. /\ \A i \in 1..(count + 1) : i \in 1..count \/ i = count + 1
            /\ \A i \in 1..count : i \in 1..(count + 1)
            /\ count + 1 \in 1..(count + 1)
        BY <1>1
      <3>2. \A i \in 1..count : new[i] = trees[i]
        OBVIOUS
      <3>3. new[count + 1].tree_nodes = nodes
        OBVIOUS
      <3> QED
        BY ONLY <3>1, <3>2, <3>3 DEF Holders
    <2>3. /\ Claimants(nodes) = {part[i].pubkey : i \in 1..last}
          /\ \A i \in 1..last : part[i] = rows[n + i]
      OBVIOUS
    <2>4. /\ \A i \in 1..(n + last) : i \in 1..n \/ \E j \in 1..last : i = n + j
          /\ \A i \in 1..n : i \in 1..(n + last)
          /\ \A i \in 1..last : n + i \in 1..(n + last)
      <3>1. \A i \in 1..(n + last) : \/ i \in 1..n
                                     \/ i - n \in 1..last /\ i = n + (i - n)
        OBVIOUS
      <3> QED
        BY ONLY <3>1, n \in Nat, last \in Nat
    <2>5. PICK A, B : /\ A = {rows[i].pubkey : i \in 1..(n + last)}
                      /\ B = {rows[i].pubkey : i \in 1..n}
                               \cup {part[i].pubkey : i \in 1..last}
      OBVIOUS
    <2>6. \A x \in A : x \in B
      <3>1. ASSUME NEW i \in 1..(n + last) PROVE rows[i].pubkey \in B
        <4>1. CASE i \in 1..n
          BY ONLY <2>5, <4>1
        <4>2. CASE i \notin 1..n
          <5>1. PICK j \in 1..last : i = n + j
            BY ONLY <2>4, <4>2, i \in 1..(n + last)
          <5>2. part[j] = rows[i]
            BY ONLY <2>3, <5>1
          <5> QED
            BY ONLY <2>5, <5>1, <5>2
        <4> QED
          BY ONLY <4>1, <4>2
      <3>2. ASSUME NEW x \in A PROVE x \in B
        <4>1. PICK i \in 1..(n + last) : x = rows[i].pubkey
          BY ONLY <2>5, x \in A
        <4> QED
          BY ONLY <3>1, <4>1
      <3> QED
        BY ONLY <3>2
    <2>7. \A x \in B : x \in A
      BY ONLY <2>3, <2>4, <2>5
    <2> QED
      BY ONLY <2>1, <2>2, <2>3, <2>5, <2>6, <2>7
  <1> QED
    BY <1>2, <1>3 DEF Covers

-----------------------------------------------------------------------------
(* The maps that the API and generate-kv-proof fill. *)

\* A list of the trees of a folder, in any order.
Listed(trees) ==
    /\ trees \in Seq(Tree)
    /\ \A k \in 1..Len(trees) : TreeOf(trees[k], trees[k].airdrop_version)

LEMMA ListedIs ==
    ASSUME NEW trees, Listed(trees)
    PROVE  /\ Len(trees) \in Nat /\ DOMAIN trees = 1..Len(trees)
           /\ \A k \in 1..Len(trees) :
                 /\ trees[k] \in Tree
                 /\ Len(trees[k].tree_nodes) \in Nat
                 /\ Len(trees[k].tree_nodes) >= 1
                 /\ DOMAIN trees[k].tree_nodes = 1..Len(trees[k].tree_nodes)
                 /\ Distinct(trees[k].tree_nodes)
                 /\ \A i \in 1..Len(trees[k].tree_nodes) :
                       /\ trees[k].tree_nodes[i] \in Leaf
                       /\ trees[k].tree_nodes[i].proof
                            = <<trees[k].airdrop_version, i>>
  <1>1. /\ Len(trees) \in Nat /\ DOMAIN trees = 1..Len(trees)
        /\ \A k \in 1..Len(trees) : trees[k] \in Tree
    BY ListIs DEF Listed
  <1>2. ASSUME NEW k \in 1..Len(trees), NEW nodes, nodes = trees[k].tree_nodes
        PROVE  /\ Len(nodes) \in Nat /\ Len(nodes) >= 1
               /\ DOMAIN nodes = 1..Len(nodes) /\ Distinct(nodes)
               /\ \A i \in 1..Len(nodes) :
                     /\ nodes[i] \in Leaf
                     /\ nodes[i].proof = <<trees[k].airdrop_version, i>>
    <2>1. LeavesOf(nodes, trees[k].airdrop_version)
      BY <1>2 DEF Listed, TreeOf
    <2>2. /\ nodes \in Seq(Leaf) /\ Len(nodes) \in 1..MaxRows /\ Distinct(nodes)
          /\ \A i \in 1..Len(nodes) : nodes[i].proof = <<trees[k].airdrop_version, i>>
      BY ONLY <2>1 DEF LeavesOf
    <2>3. /\ Len(nodes) \in Nat /\ DOMAIN nodes = 1..Len(nodes)
          /\ \A i \in 1..Len(nodes) : nodes[i] \in Leaf
      BY ONLY <2>2, ListIs
    <2>4. Len(nodes) >= 1
      BY <2>2, SizesAssumption
    <2> QED
      BY <2>2, <2>3, <2>4
  <1> QED
    BY <1>1, <1>2

\* What is stored is what the API answers.
LEMMA StoredIs ==
    ASSUME NEW trees, Listed(trees), NEW l, NEW j, NEW map, Stores(map, trees, l, j),
           NEW user \in DOMAIN map
    PROVE  user \in Users /\ map[user] \in ClaimInfo
  <1>1. PICK k \in DOMAIN trees : \E i \in DOMAIN trees[k].tree_nodes :
           /\ Holds(trees, user, k, i, l, j)
           /\ map[user] = Entry(trees[k], i)
    BY DEF Stores
  <1>2. PICK i \in DOMAIN trees[k].tree_nodes :
           Holds(trees, user, k, i, l, j) /\ map[user] = Entry(trees[k], i)
    BY <1>1
  <1>3. trees[k] \in Tree /\ trees[k].tree_nodes[i] \in Leaf
    BY <1>1, <1>2, ListedIs
  <1>4. trees[k].tree_nodes[i].claimant = user
    BY <1>2 DEF Holds
  <1>5. Entry(trees[k], i) \in ClaimInfo
    <2>1. /\ trees[k].airdrop_version \in 0..MaxRows
          /\ trees[k].tree_nodes[i].amount \in 0..MaxU64
          /\ trees[k].tree_nodes[i].proof \in (0..MaxRows) \X (1..MaxRows)
      BY <1>3 DEF Tree, Leaf
    <2> QED
      BY <2>1 DEF Entry, ClaimInfo
  <1> QED
    BY <1>2, <1>3, <1>4, <1>5 DEF Leaf

\* Before anything is read a map is empty.
LEMMA StoresNothing ==
    ASSUME NEW trees, Listed(trees)
    PROVE  Stores(Empty, trees, 0, 0)
  <1>1. DOMAIN Empty = {} /\ Empty = [user \in DOMAIN Empty |-> Empty[user]]
    BY DEF Empty
  <1>2. ASSUME NEW k \in DOMAIN trees, NEW i \in DOMAIN trees[k].tree_nodes
        PROVE  ~Among(k, i, 0, 0)
    BY ListedIs DEF Among
  <1> QED
    BY <1>1, <1>2 DEF Stores

\* Two maps of the same nodes are the same.
LEMMA StoresOne ==
    ASSUME NEW trees, Listed(trees), NEW l, NEW j,
           NEW a, Stores(a, trees, l, j), NEW b, Stores(b, trees, l, j)
    PROVE  a = b
  <1>1. ASSUME NEW x, Stores(x, trees, l, j), NEW y, Stores(y, trees, l, j),
               NEW user \in DOMAIN x
        PROVE  user \in DOMAIN y
    <2>1. PICK k \in DOMAIN trees : \E i \in DOMAIN trees[k].tree_nodes :
             Holds(trees, user, k, i, l, j)
      BY <1>1 DEF Stores
    <2>2. PICK i \in DOMAIN trees[k].tree_nodes : Holds(trees, user, k, i, l, j)
      BY <2>1
    <2>3. Among(k, i, l, j) /\ trees[k].tree_nodes[i].claimant = user
      BY <2>2 DEF Holds
    <2> QED
      BY <1>1, <2>3 DEF Stores
  <1>2. DOMAIN a = DOMAIN b
    BY <1>1
  <1>3. ASSUME NEW user \in DOMAIN a PROVE a[user] = b[user]
    <2>1. PICK k \in DOMAIN trees : \E i \in DOMAIN trees[k].tree_nodes :
             /\ Holds(trees, user, k, i, l, j)
             /\ a[user] = Entry(trees[k], i)
             /\ \A k2 \in DOMAIN trees : \A i2 \in DOMAIN trees[k2].tree_nodes :
                   Holds(trees, user, k2, i2, l, j) => k2 <= k
      BY DEF Stores
    <2>2. PICK i \in DOMAIN trees[k].tree_nodes :
             /\ Holds(trees, user, k, i, l, j)
             /\ a[user] = Entry(trees[k], i)
      BY <2>1
    <2>3. user \in DOMAIN b
      BY <1>2
    <2>4. PICK m \in DOMAIN trees : \E i2 \in DOMAIN trees[m].tree_nodes :
             /\ Holds(trees, user, m, i2, l, j)
             /\ b[user] = Entry(trees[m], i2)
             /\ \A k2 \in DOMAIN trees : \A i3 \in DOMAIN trees[k2].tree_nodes :
                   Holds(trees, user, k2, i3, l, j) => k2 <= m
      BY <2>3 DEF Stores
    <2>5. PICK i2 \in DOMAIN trees[m].tree_nodes :
             /\ Holds(trees, user, m, i2, l, j)
             /\ b[user] = Entry(trees[m], i2)
      BY <2>4
    <2>6. k <= m /\ m <= k
      BY <2>1, <2>2, <2>4, <2>5
    <2>7. k \in Nat /\ m \in Nat /\ Distinct(trees[k].tree_nodes)
      BY ListedIs
    <2>8. k = m
      BY ONLY <2>6, <2>7
    <2>9. i = i2
      BY <2>2, <2>5, <2>7, <2>8 DEF Holds, Distinct
    <2> QED
      BY <2>2, <2>5, <2>8, <2>9
  <1>4. a = [user \in DOMAIN a |-> a[user]] /\ b = [user \in DOMAIN b |-> b[user]]
    BY DEF Stores
  <1> QED
    BY <1>2, <1>3, <1>4

\* A map has entries for the nodes j + 1 to j2 of a tree besides those it had.
Grown(new, map, tree, j, j2) ==
    /\ new = [user \in DOMAIN new |-> new[user]]
    /\ \A user \in DOMAIN map : user \in DOMAIN new
    /\ \A i \in 1..j2 : j < i => tree.tree_nodes[i].claimant \in DOMAIN new
    /\ \A user \in DOMAIN new :
          \/ \E i \in 1..j2 : /\ tree.tree_nodes[i].claimant = user
                              /\ new[user] = Entry(tree, i)
          \/ /\ user \in DOMAIN map
             /\ new[user] = map[user]
             /\ \A i \in 1..j2 : j < i => tree.tree_nodes[i].claimant # user

\* More nodes of the next tree are handled.
LEMMA StoresMore ==
    ASSUME NEW trees, Listed(trees), NEW l \in Nat, l + 1 \in 1..Len(trees),
           NEW j \in Nat, NEW j2 \in Nat, j <= j2,
           j2 <= Len(trees[l + 1].tree_nodes),
           NEW map, Stores(map, trees, l, j),
           NEW new, Grown(new, map, trees[l + 1], j, j2)
    PROVE  Stores(new, trees, l, j2)
  <1>0. PICK tree, nodes : tree = trees[l + 1] /\ nodes = tree.tree_nodes
    OBVIOUS
  <1> USE <1>0 DEF Grown
  <1>1. /\ Len(trees) \in Nat /\ DOMAIN trees = 1..Len(trees)
        /\ Len(nodes) \in Nat /\ DOMAIN nodes = 1..Len(nodes)
    BY ListedIs
  <1>2. ASSUME NEW k \in DOMAIN trees, NEW i \in DOMAIN trees[k].tree_nodes
        PROVE  /\ k \in Nat /\ i \in Nat /\ i >= 1
               /\ Among(k, i, l, j) => Among(k, i, l, j2)
               /\ Among(k, i, l, j2) => k <= l + 1
               /\ (Among(k, i, l, j2) /\ ~Among(k, i, l, j))
                     => k = l + 1 /\ j < i /\ i \in 1..j2
    <2>1. k \in Nat /\ i \in Nat /\ i >= 1
      BY <1>1, ListedIs
    <2> QED
      BY <2>1 DEF Among
  <1>3. ASSUME NEW user \in DOMAIN new
        PROVE  \E k \in DOMAIN trees : \E i \in DOMAIN trees[k].tree_nodes :
                  /\ Holds(trees, user, k, i, l, j2)
                  /\ new[user] = Entry(trees[k], i)
                  /\ \A k2 \in DOMAIN trees : \A i2 \in DOMAIN trees[k2].tree_nodes :
                        Holds(trees, user, k2, i2, l, j2) => k2 <= k
    <2>1. CASE \E i \in 1..j2 : nodes[i].claimant = user /\ new[user] = Entry(tree, i)
      <3>1. PICK i \in 1..j2 : nodes[i].claimant = user /\ new[user] = Entry(tree, i)
        BY <2>1
      <3>2. i \in DOMAIN trees[l + 1].tree_nodes /\ l + 1 \in DOMAIN trees
        BY <1>1
      <3>3. Among(l + 1, i, l, j2)
        BY DEF Among
      <3>4. Holds(trees, user, l + 1, i, l, j2)
        BY <3>1, <3>2, <3>3 DEF Holds
      <3>5. \A k2 \in DOMAIN trees : \A i2 \in DOMAIN trees[k2].tree_nodes :
               Holds(trees, user, k2, i2, l, j2) => k2 <= l + 1
        BY <1>2 DEF Holds
      <3> QED
        BY <3>1, <3>2, <3>4, <3>5
    <2>2. CASE ~\E i \in 1..j2 : nodes[i].claimant = user /\ new[user] = Entry(tree, i)
      <3>1. /\ user \in DOMAIN map
            /\ new[user] = map[user]
            /\ \A i \in 1..j2 : j < i => nodes[i].claimant # user
        BY <2>2
      <3>2. PICK k \in DOMAIN trees : \E i \in DOMAIN trees[k].tree_nodes :
               /\ Holds(trees, user, k, i, l, j)
               /\ map[user] = Entry(trees[k], i)
               /\ \A k2 \in DOMAIN trees : \A i2 \in DOMAIN trees[k2].tree_nodes :
                     Holds(trees, user, k2, i2, l, j) => k2 <= k
        BY <3>1 DEF Stores
      <3>3. PICK i \in DOMAIN trees[k].tree_nodes :
               /\ Holds(trees, user, k, i, l, j)
               /\ map[user] = Entry(trees[k], i)
        BY <3>2
      <3>4. Holds(trees, user, k, i, l, j2)
        BY <1>2, <3>3 DEF Holds
      <3>5. ASSUME NEW k2 \in DOMAIN trees, NEW i2 \in DOMAIN trees[k2].tree_nodes,
                   Holds(trees, user, k2, i2, l, j2)
            PROVE  k2 <= k
        <4>1. Among(k2, i2, l, j2) /\ trees[k2].tree_nodes[i2].claimant = user
          BY <3>5 DEF Holds
        <4>2. Among(k2, i2, l, j)
          BY <1>2, <3>1, <4>1
        <4>3. Holds(trees, user, k2, i2, l, j)
          BY <4>1, <4>2 DEF Holds
        <4> QED
          BY <3>2, <4>3
      <3> QED
        BY <3>1, <3>3, <3>4, <3>5
    <2> QED
      BY <2>1, <2>2
  <1>4. ASSUME NEW k \in DOMAIN trees, NEW i \in DOMAIN trees[k].tree_nodes,
               Among(k, i, l, j2)
        PROVE  trees[k].tree_nodes[i].claimant \in DOMAIN new
    <2>1. CASE Among(k, i, l, j)
      BY <2>1 DEF Stores
    <2>2. CASE ~Among(k, i, l, j)
      BY <1>2, <1>4, <2>2
    <2> QED
      BY <2>1, <2>2
  <1> QED
    BY <1>3, <1>4 DEF Stores

\* When all nodes of a tree are handled, so is the tree.
LEMMA StoresOver ==
    ASSUME NEW trees, Listed(trees), NEW l \in Nat, l + 1 \in 1..Len(trees),
           NEW j, j = Len(trees[l + 1].tree_nodes),
           NEW map, Stores(map, trees, l, j)
    PROVE  Stores(map, trees, l + 1, 0)
  <1>1. /\ Len(trees) \in Nat /\ DOMAIN trees = 1..Len(trees)
        /\ j \in Nat /\ DOMAIN trees[l + 1].tree_nodes = 1..j
    BY ListedIs
  <1>2. ASSUME NEW k \in DOMAIN trees, NEW i \in DOMAIN trees[k].tree_nodes
        PROVE  Among(k, i, l + 1, 0) <=> Among(k, i, l, j)
    <2>1. k \in Nat /\ i \in Nat /\ i >= 1
      BY <1>1, ListedIs
    <2>2. k = l + 1 => i <= j
      BY <1>1
    <2> QED
      BY <2>1, <2>2 DEF Among
  <1>3. ASSUME NEW user, NEW k \in DOMAIN trees, NEW i \in DOMAIN trees[k].tree_nodes
        PROVE  Holds(trees, user, k, i, l + 1, 0) <=> Holds(trees, user, k, i, l, j)
    BY <1>2 DEF Holds
  <1>4. ASSUME NEW user \in DOMAIN map
        PROVE  \E k \in DOMAIN trees : \E i \in DOMAIN trees[k].tree_nodes :
                  /\ Holds(trees, user, k, i, l + 1, 0)
                  /\ map[user] = Entry(trees[k], i)
                  /\ \A k2 \in DOMAIN trees : \A i2 \in DOMAIN trees[k2].tree_nodes :
                        Holds(trees, user, k2, i2, l + 1, 0) => k2 <= k
    <2>1. PICK k \in DOMAIN trees : \E i \in DOMAIN trees[k].tree_nodes :
             /\ Holds(trees, user, k, i, l, j)
             /\ map[user] = Entry(trees[k], i)
             /\ \A k2 \in DOMAIN trees : \A i2 \in DOMAIN trees[k2].tree_nodes :
                   Holds(trees, user, k2, i2, l, j) => k2 <= k
      BY DEF Stores
    <2> QED
      BY <1>3, <2>1
  <1>5. ASSUME NEW k \in DOMAIN trees, NEW i \in DOMAIN trees[k].tree_nodes,
               Among(k, i, l + 1, 0)
        PROVE  trees[k].tree_nodes[i].claimant \in DOMAIN map
    BY <1>2, <1>5 DEF Stores
  <1>6. map = [user \in DOMAIN map |-> map[user]]
    BY DEF Stores
  <1> QED
    BY <1>4, <1>5, <1>6 DEF Stores

\* The API inserts a whole tree.
LEMMA StoresTree ==
    ASSUME NEW trees, Listed(trees), NEW l \in Nat, l + 1 \in 1..Len(trees),
           NEW map, Stores(map, trees, l, 0)
    PROVE  Stores(Inserted(map, trees[l + 1]), trees, l + 1, 0)
  <1>1. PICK tree, nodes, n : /\ tree = trees[l + 1] /\ nodes = tree.tree_nodes
                              /\ n = Len(nodes)
    OBVIOUS
  <1>2. n \in Nat /\ DOMAIN nodes = 1..n /\ Distinct(nodes)
    BY <1>1, ListedIs
  <1> DEFINE at(user) == {i \in DOMAIN nodes : nodes[i].claimant = user}
             place(user) == CHOOSE i \in at(user) : \A j \in at(user) : j <= i
             entries == [user \in Claimants(nodes) |-> Entry(tree, place(user))]
  <1>3. PICK new : new = Inserted(map, tree)
    OBVIOUS
  <1>4. new = With(map, entries)
    BY <1>1, <1>3 DEF Inserted
  <1>5. ASSUME NEW user \in Claimants(nodes)
        PROVE  place(user) \in 1..n /\ nodes[place(user)].claimant = user
    <2>1. PICK i \in 1..n : nodes[i].claimant = user
      BY <1>2 DEF Claimants
    <2>2. \A j \in at(user) : j = i
      BY <1>2, <2>1 DEF Distinct
    <2>3. i \in at(user) /\ i <= i
      BY <1>2, <2>1
    <2>4. \E k \in at(user) : \A j \in at(user) : j <= k
      BY <2>2, <2>3
    <2>5. place(user) \in at(user)
      BY <2>4
    <2> HIDE DEF place
    <2> QED
      BY <1>2, <2>5
  <1>6. ASSUME NEW user \in Claimants(nodes) PROVE entries[user] = Entry(tree, place(user))
    <2> HIDE DEF place
    <2> QED
      OBVIOUS
  <1>7. DOMAIN entries = Claimants(nodes)
    <2> HIDE DEF place
    <2> QED
      OBVIOUS
  <1> HIDE DEF place, entries
  <1>8. /\ DOMAIN new = DOMAIN map \cup Claimants(nodes)
        /\ new = [user \in DOMAIN new |-> new[user]]
        /\ \A user \in DOMAIN new : new[user] = IF user \in Claimants(nodes)
                                                THEN entries[user] ELSE map[user]
    BY <1>4, <1>7 DEF With
  <1>9. \A i \in 1..n : nodes[i].claimant \in Claimants(nodes)
    BY <1>2 DEF Claimants
  <1>10. ASSUME NEW user \in DOMAIN new
         PROVE  \/ \E i \in 1..n : /\ nodes[i].claimant = user
                                   /\ new[user] = Entry(tree, i)
                \/ /\ user \in DOMAIN map
                   /\ new[user] = map[user]
                   /\ \A i \in 1..n : 0 < i => nodes[i].claimant # user
    <2>1. CASE user \in Claimants(nodes)
      BY <1>5, <1>6, <1>8, <2>1
    <2>2. CASE user \notin Claimants(nodes)
      BY <1>8, <1>9, <2>2
    <2> QED
      BY <2>1, <2>2
  <1>11. /\ \A user \in DOMAIN map : user \in DOMAIN new
         /\ \A i \in 1..n : 0 < i => nodes[i].claimant \in DOMAIN new
         /\ n <= Len(nodes) /\ 0 \in Nat /\ 0 <= n
    BY <1>1, <1>2, <1>8, <1>9
  <1>12. new = [user \in DOMAIN new |-> new[user]]
    BY <1>8
  <1>13. Stores(new, trees, l, n)
    <2>1. Grown(new, map, trees[l + 1], 0, n)
      BY ONLY <1>1, <1>10, <1>11, <1>12 DEF Grown
    <2>2. 0 \in Nat /\ 0 <= n /\ n <= Len(trees[l + 1].tree_nodes)
      BY <1>1, <1>2
    <2> QED
      BY ONLY <1>2, <2>1, <2>2, StoresMore, Listed(trees), l \in Nat,
              l + 1 \in 1..Len(trees), Stores(map, trees, l, 0)
  <1> QED
    BY <1>1, <1>3, <1>13, StoresOver

\* generate-kv-proof adds the next node.
LEMMA StoresNode ==
    ASSUME NEW trees, Listed(trees), NEW l \in Nat, l + 1 \in 1..Len(trees),
           NEW j \in Nat, j + 1 <= Len(trees[l + 1].tree_nodes),
           NEW map, Stores(map, trees, l, j),
           NEW entries,
           entries = [user \in {trees[l + 1].tree_nodes[j + 1].claimant} |->
                        Entry(trees[l + 1], j + 1)]
    PROVE  Stores(With(map, entries), trees, l, j + 1)
  <1>1. PICK tree, nodes, n, who : /\ tree = trees[l + 1] /\ nodes = tree.tree_nodes
                                   /\ n = Len(nodes)
                                   /\ who = nodes[j + 1].claimant
    OBVIOUS
  <1>2. n \in Nat /\ DOMAIN nodes = 1..n /\ Distinct(nodes)
    BY <1>1, ListedIs
  <1>3. PICK new : new = With(map, entries)
    OBVIOUS
  <1>4. DOMAIN entries = {who} /\ entries[who] = Entry(tree, j + 1)
    BY <1>1
  <1>5. /\ DOMAIN new = DOMAIN map \cup {who}
        /\ new = [user \in DOMAIN new |-> new[user]]
        /\ \A user \in DOMAIN new : new[user] = IF user = who
                                                THEN Entry(tree, j + 1) ELSE map[user]
    <2>1. DOMAIN new = DOMAIN map \cup {who}
      BY ONLY <1>3, <1>4 DEF With
    <2>2. new = [user \in DOMAIN map \cup {who} |->
                   IF user \in {who} THEN entries[user] ELSE map[user]]
      BY ONLY <1>3, <1>4 DEF With
    <2> QED
      BY ONLY <1>4, <2>1, <2>2
  <1>6. \A i \in 1..(j + 1) : j < i => i = j + 1
    OBVIOUS
  <1>7. ASSUME NEW user \in DOMAIN new
        PROVE  \/ \E i \in 1..(j + 1) : /\ nodes[i].claimant = user
                                        /\ new[user] = Entry(tree, i)
               \/ /\ user \in DOMAIN map
                  /\ new[user] = map[user]
                  /\ \A i \in 1..(j + 1) : j < i => nodes[i].claimant # user
    <2>1. CASE user = who
      <3>1. j + 1 \in 1..(j + 1)
        OBVIOUS
      <3> QED
        BY <1>1, <1>5, <2>1, <3>1
    <2>2. CASE user # who
      BY <1>1, <1>5, <1>6, <2>2
    <2> QED
      BY <2>1, <2>2
  <1>8. /\ \A user \in DOMAIN map : user \in DOMAIN new
        /\ \A i \in 1..(j + 1) : j < i => nodes[i].claimant \in DOMAIN new
        /\ j + 1 <= Len(nodes) /\ j + 1 \in Nat /\ j <= j + 1
    BY <1>1, <1>5, <1>6
  <1>9. new = [user \in DOMAIN new |-> new[user]]
    BY <1>5
  <1>10. Stores(new, trees, l, j + 1)
    <2>1. Grown(new, map, trees[l + 1], j, j + 1)
      BY ONLY <1>1, <1>7, <1>8, <1>9 DEF Grown
    <2>2. j \in Nat /\ j + 1 \in Nat /\ j <= j + 1
      OBVIOUS
    <2> QED
      BY ONLY <2>1, <2>2, StoresMore, Listed(trees), l \in Nat,
              l + 1 \in 1..Len(trees), Stores(map, trees, l, j),
              j + 1 <= Len(trees[l + 1].tree_nodes)
  <1> QED
    BY <1>3, <1>10

\* Inserting entries in two steps, and inserting none.
LEMMA WithTwice ==
    ASSUME NEW a, NEW b, NEW c
    PROVE  With(a, With(b, c)) = With(With(a, b), c)
  <1>1. PICK x, y : x = With(b, c) /\ y = With(a, b)
    OBVIOUS
  <1>2. /\ DOMAIN x = DOMAIN b \cup DOMAIN c
        /\ \A k \in DOMAIN x : x[k] = IF k \in DOMAIN c THEN c[k] ELSE b[k]
    BY <1>1 DEF With
  <1>3. /\ DOMAIN y = DOMAIN a \cup DOMAIN b
        /\ \A k \in DOMAIN y : y[k] = IF k \in DOMAIN b THEN b[k] ELSE a[k]
    BY <1>1 DEF With
  <1>4. With(a, x) = With(y, c)
    BY <1>2, <1>3 DEF With
  <1> QED
    BY <1>1, <1>4

LEMMA WithNothing ==
    ASSUME NEW a, a = [key \in DOMAIN a |-> a[key]]
    PROVE  With(a, Empty) = a /\ With(Empty, a) = a
  BY DEF With, Empty

\* The store that some files make up.
Uploaded(list) ==
    [user \in UNION {DOMAIN list[k] : k \in DOMAIN list} |->
        LET in == {k \in DOMAIN list : user \in DOMAIN list[k]}
        IN  list[CHOOSE k \in in : \A l \in in : l <= k][user]]

\* The store after one more file.
LEMMA UploadedMore ==
    ASSUME NEW S, NEW list \in Seq(S), NEW file \in S
    PROVE  Uploaded(Append(list, file)) = With(Uploaded(list), file)
  <1>1. PICK new, n : new = Append(list, file) /\ n = Len(list)
    OBVIOUS
  <1>2. /\ n \in Nat /\ DOMAIN list = 1..n
        /\ DOMAIN new = 1..(n + 1)
        /\ \A k \in 1..n : new[k] = list[k]
        /\ new[n + 1] = file
    <2>1. /\ new \in Seq(S) /\ Len(new) = n + 1
          /\ \A k \in 1..n : new[k] = list[k]
          /\ new[n + 1] = file
      BY <1>1, AppendProperties
    <2> QED
      BY <1>1, <2>1, ListIs
  <1> DEFINE in(user) == {k \in 1..n : user \in DOMAIN list[k]}
             in2(user) == {k \in 1..(n + 1) : user \in DOMAIN new[k]}
             last(user) == CHOOSE k \in in(user) : \A l \in in(user) : l <= k
             last2(user) == CHOOSE k \in in2(user) : \A l \in in2(user) : l <= k
  <1>3. PICK D, D2 : /\ D = UNION {DOMAIN list[k] : k \in 1..n}
                     /\ D2 = UNION {DOMAIN new[k] : k \in 1..(n + 1)}
    OBVIOUS
  <1>4. /\ Uploaded(list) = [user \in D |-> list[last(user)][user]]
        /\ Uploaded(new) = [user \in D2 |-> new[last2(user)][user]]
    BY <1>2, <1>3 DEF Uploaded
  <1>5. /\ \A k \in 1..(n + 1) : k \in 1..n \/ k = n + 1
        /\ \A k \in 1..n : k \in 1..(n + 1) /\ k # n + 1
        /\ n + 1 \in 1..(n + 1)
        /\ \A k \in 1..(n + 1) : k <= n + 1
    BY <1>2
  <1>6. D2 = D \cup DOMAIN file
    BY <1>2, <1>3, <1>5
  <1>7. ASSUME NEW user \in DOMAIN file PROVE last2(user) = n + 1
    <2>1. PICK T : T = in2(user)
      OBVIOUS
    <2>2. n + 1 \in T /\ \A l \in T : l <= n + 1 /\ l \in Nat
      BY <1>2, <1>5, <2>1
    <2>3. \A k \in T : (\A l \in T : l <= k) => k = n + 1
      BY <1>2, <2>2
    <2>4. (CHOOSE k \in T : \A l \in T : l <= k) = n + 1
      BY <2>2, <2>3
    <2> QED
      BY <2>1, <2>4
  <1>8. ASSUME NEW user, user \notin DOMAIN file PROVE in2(user) = in(user)
    BY <1>2, <1>5, <1>8
  <1>9. ASSUME NEW user \in D PROVE last(user) \in 1..n
    <2>1. PICK T : T = in(user)
      OBVIOUS
    <2>2. T # {} /\ IsFiniteSet(T) /\ T \subseteq 1..n /\ T \subseteq Int
      <3>1. IsFiniteSet(1..n)
        BY ONLY <1>2, FS_Interval, 1 \in Int
      <3>2. T \subseteq 1..n
        BY <2>1
      <3>3. IsFiniteSet(T)
        BY <3>1, <3>2, FS_Subset
      <3> QED
        BY <1>3, <2>1, <3>2, <3>3
    <2>3. \E k \in T : \A l \in T : l <= k
      <3> DEFINE R == {n - k : k \in T}
      <3>1. R \in SUBSET Nat /\ R # {}
        <4>1. ASSUME NEW k \in T PROVE n - k \in Nat
          <5>1. n \in Nat /\ k \in 1..n
            BY <1>2, <2>2
          <5> QED
            BY ONLY <5>1
        <4>2. T # {}
          BY <2>2
        <4> QED
          BY ONLY <4>1, <4>2
      <3>2. \E m \in R : \A k \in R : m <= k
        <4> HIDE DEF R
        <4> QED
          BY <3>1, LeastNumber
      <3>3. PICK m \in R : \A k \in R : m <= k
        BY <3>2
      <3>4. PICK k \in T : m = n - k
        OBVIOUS
      <3>5. ASSUME NEW l \in T PROVE l <= k
        <4>1. n - l \in R
          OBVIOUS
        <4>2. n - k <= n - l
          BY <3>3, <3>4, <4>1
        <4>3. n \in Nat /\ k \in Int /\ l \in Int
          BY <1>2, <2>2
        <4> QED
          BY ONLY <4>2, <4>3
      <3> QED
        BY <3>5
    <2>4. (CHOOSE k \in T : \A l \in T : l <= k) \in T
      BY <2>3
    <2> QED
      BY <2>1, <2>4
  <1>10. ASSUME NEW user \in D2
         PROVE  new[last2(user)][user]
                  = IF user \in DOMAIN file THEN file[user] ELSE list[last(user)][user]
    <2>1. CASE user \in DOMAIN file
      BY <1>2, <1>7, <2>1
    <2>2. CASE user \notin DOMAIN file
      <3>1. last2(user) = last(user)
        BY <1>8, <2>2
      <3>2. last(user) \in 1..n
        BY <1>6, <1>9, <2>2
      <3> HIDE DEF last, last2
      <3> QED
        BY <1>2, <2>2, <3>1, <3>2
    <2> QED
      BY <2>1, <2>2
  <1> HIDE DEF last, last2
  <1>11. With(Uploaded(list), file) = Uploaded(new)
    <2>1. PICK u, v : u = Uploaded(list) /\ v = Uploaded(new)
      OBVIOUS
    <2>2. u = [user \in D |-> list[last(user)][user]]
      BY <1>4, <2>1
    <2>3. v = [user \in D2 |-> new[last2(user)][user]]
      BY <1>4, <2>1
    <2>4. v = [user \in D \cup DOMAIN file |->
                 IF user \in DOMAIN file THEN file[user] ELSE list[last(user)][user]]
      BY <1>6, <1>10, <2>3
    <2>5. With(u, file) = v
      BY <2>2, <2>4 DEF With
    <2> QED
      BY <2>1, <2>5
  <1> QED
    BY <1>1, <1>11

-----------------------------------------------------------------------------
(* Reading the folder. *)

\* The trees of a folder in the order of their paths, c times each.
Reading(trees, c) ==
    [k \in 1..(c * Len(trees)) |-> trees[Paths[Len(trees)][Place(k, c)]]]

LEMMA ReadIs ==
    ASSUME Folder(disk), blobs # <<>> => blobs = disk
    PROVE  TreesRead = Reading(disk, Copies) /\ Copies \in {1, 2}
  <1>1. CASE blobs = <<>>
    <2>1. Copies = 1
      BY <1>1 DEF Copies
    <2> QED
      BY <2>1 DEF TreesRead, Reading, Place
  <1>2. CASE blobs # <<>>
    <2>1. Copies = 2 /\ blobs = disk
      BY <1>2 DEF Copies
    <2> QED
      BY <2>1 DEF TreesRead, Reading, Place
  <1> QED
    BY <1>1, <1>2

ReadInOrder(read, trees, c, m, p) ==
    /\ m \in Nat /\ Permutes(p, m)
    /\ Listed(read) /\ Len(read) = c * m /\ c * m \in Nat
    /\ \A k \in 1..(c * m) : /\ Place(k, c) \in 1..m
                             /\ p[Place(k, c)] \in 1..m
                             /\ read[k] = trees[p[Place(k, c)]]
                             /\ read[k].airdrop_version = p[Place(k, c)] - 1
    /\ \A i \in 1..m : \E k \in 1..(c * m) : read[k] = trees[i]

LEMMA ReadingIs ==
    ASSUME NEW trees, Folder(trees), NEW c \in {1, 2},
           NEW read, read = Reading(trees, c),
           NEW m, m = Len(trees), NEW p, p = Paths[m]
    PROVE  ReadInOrder(read, trees, c, m, p)
  <1>1. /\ m \in Nat /\ m <= MaxRows /\ m \in 0..MaxRows
        /\ \A i \in 1..m : trees[i] \in Tree /\ TreeOf(trees[i], i - 1)
    BY ListIs, SizesAssumption DEF Folder
  <1>2. Permutes(p, m)
    BY <1>1, PathsPermute
  <1>3. PICK n \in Nat : n = c * m
    BY <1>1, Places
  <1>4. read = [k \in 1..n |-> trees[p[Place(k, c)]]]
    BY <1>3 DEF Reading
  <1>5. ASSUME NEW k \in 1..n
        PROVE  /\ Place(k, c) \in 1..m
               /\ p[Place(k, c)] \in 1..m
               /\ read[k] = trees[p[Place(k, c)]]
               /\ TreeOf(read[k], p[Place(k, c)] - 1)
               /\ read[k] \in Tree
    <2>1. Place(k, c) \in 1..m
      BY <1>1, <1>3, Places
    <2>2. p[Place(k, c)] \in 1..m
      BY <1>2, <2>1 DEF Permutes
    <2> QED
      BY <1>1, <1>4, <2>1, <2>2
  <1>6. read \in Seq(Tree) /\ Len(read) = n
    <2>1. read \in [1..n -> Tree]
      BY <1>4, <1>5
    <2> QED
      BY ONLY <1>3, <2>1, ListOf
  <1>7. \A k \in 1..n : read[k].airdrop_version = p[Place(k, c)] - 1
    BY <1>5 DEF TreeOf
  <1>8. Listed(read)
    <2>1. \A k \in 1..n : TreeOf(read[k], read[k].airdrop_version)
      BY <1>5, <1>7
    <2> QED
      BY <1>6, <2>1 DEF Listed
  <1>9. ASSUME NEW i \in 1..m PROVE \E k \in 1..n : read[k] = trees[i]
    <2>1. PICK j \in 1..m : p[j] = i
      BY <1>2 DEF Permutes
    <2>2. 0 \in 0..(c - 1)
      OBVIOUS
    <2>3. PICK k : k = c * (j - 1) + 0 + 1
      OBVIOUS
    <2>4. k \in 1..n /\ Place(k, c) = j
      BY ONLY <1>1, <1>3, <2>2, <2>3, Places, c \in {1, 2}, j \in 1..m
    <2> QED
      BY <1>5, <2>1, <2>4
  <1> QED
    BY ONLY <1>1, <1>2, <1>3, <1>5, <1>6, <1>7, <1>8, <1>9 DEF ReadInOrder

\* The totals of all files read add up to c times those of the trees.
LEMMA ReadingTotal ==
    ASSUME NEW trees, Folder(trees), NEW c \in {1, 2},
           NEW read, read = Reading(trees, c)
    PROVE  SumFunctionOnSet([k \in 1..Len(read) |-> read[k].max_total_claim],
                            1..Len(read))
             = c * Promised(Users, trees, Len(trees))
  <1>1. PICK m, p, n : m = Len(trees) /\ p = Paths[m] /\ n = c * m
    OBVIOUS
  <1>2. /\ m \in Nat /\ n \in Nat /\ Permutes(p, m) /\ Len(read) = n
        /\ \A k \in 1..n : /\ Place(k, c) \in 1..m
                           /\ p[Place(k, c)] \in 1..m
                           /\ read[k] = trees[p[Place(k, c)]]
    <2>1. m = Len(trees) /\ p = Paths[m]
      BY <1>1
    <2>2. ReadInOrder(read, trees, c, m, p)
      BY ONLY <2>1, ReadingIs, Folder(trees), c \in {1, 2}, read = Reading(trees, c)
    <2> QED
      BY ONLY <1>1, <2>2 DEF ReadInOrder
  <1>3. \A i \in 1..m : /\ trees[i].max_total_claim = Part(Users, trees[i].tree_nodes)
                        /\ Part(Users, trees[i].tree_nodes) \in Int
    <2>1. ASSUME NEW i \in 1..m
          PROVE  /\ TreeOf(trees[i], i - 1)
                 /\ Part(Users, trees[i].tree_nodes) \in Nat
      BY <1>1, FolderPromises
    <2> QED
      BY <2>1 DEF TreeOf
  <1>4. PICK f, g, h : /\ f = [k \in 1..n |-> read[k].max_total_claim]
                       /\ g = [i \in 1..m |-> trees[p[i]].max_total_claim]
                       /\ h = [i \in 1..m |-> Part(Users, trees[i].tree_nodes)]
    OBVIOUS
  <1>5. \A i \in 1..m : p[i] \in 1..m
    BY <1>2 DEF Permutes
  <1>6. \A i \in 1..m : g[i] \in Int /\ h[i] \in Int /\ h[p[i]] = g[i]
    BY <1>3, <1>4, <1>5
  <1>7. IsFiniteSet(1..m)
    BY ONLY <1>2, FS_Interval, 1 \in Int
  <1>8. SumFunctionOnSet(h, 1..m) = SumFunctionOnSet(g, 1..m)
    <2>1. PICK S : S = 1..m
      OBVIOUS
    <2>2. Renames(p, g, S, h, S)
      BY <1>2, <1>6, <1>7, <2>1 DEF Permutes, Renames
    <2>3. SumFunctionOnSet(h, S) = SumFunctionOnSet(g, S)
      BY ONLY <2>2, SumRenamed
    <2> QED
      BY <2>1, <2>3
  <1>9. \A k \in 1..n : f[k] = g[Place(k, c)]
    BY <1>2, <1>4
  <1>10. SumFunctionOnSet(f, 1..n) = c * SumFunctionOnSet(g, 1..m)
    <2>1. CASE c = 1
      <3>1. n = m /\ \A k \in 1..n : Place(k, c) = k
        BY <1>1, <1>2, <2>1 DEF Place
      <3>2. \A k \in 1..m : g[k] \in Int /\ f[k] = g[k]
        BY <1>6, <1>9, <3>1
      <3>3. SumFunctionOnSet(f, 1..m) = SumFunctionOnSet(g, 1..m)
        BY ONLY <1>7, <3>2, SumAgrees
      <3>4. SumFunctionOnSet(g, 1..m) \in Int
        BY ONLY <1>6, <1>7, SumType
      <3> QED
        BY ONLY <2>1, <3>1, <3>3, <3>4
    <2>2. CASE c = 2
      <3>1. ASSUME NEW i \in 1..m
            PROVE  /\ 2 * i - 1 \in 1..n /\ Place(2 * i - 1, c) = i
                   /\ 2 * i \in 1..n /\ Place(2 * i, c) = i
        BY <1>1, <1>2, <2>2 DEF Place
      <3>2. \A i \in 1..m : f[2 * i - 1] = g[i] /\ f[2 * i] = g[i] /\ g[i] \in Int
        BY <1>6, <1>9, <3>1
      <3>3. SumFunctionOnSet(f, 1..(2 * m)) = 2 * SumFunctionOnSet(g, 1..m)
        BY ONLY <1>2, <3>2, SumDoubled
      <3> QED
        BY <1>1, <2>2, <3>3
    <2> QED
      BY <2>1, <2>2
  <1> QED
    BY <1>1, <1>2, <1>4, <1>8, <1>10 DEF Promised

\* What is still to be read of a list: it is over, or the next one is left.
LEMMA Remaining ==
    ASSUME NEW S, NEW list \in Seq(S), NEW l \in 0..Len(list),
           NEW left, left = SubSeq(list, l + 1, Len(list))
    PROVE  /\ left = <<>> <=> l = Len(list)
           /\ left # <<>> => /\ l + 1 \in 1..Len(list)
                             /\ l + 1 \in 0..Len(list)
                             /\ Head(left) = list[l + 1]
                             /\ Tail(left) = SubSeq(list, (l + 1) + 1, Len(list))
  <1>1. PICK n \in Nat : n = Len(list) /\ \A i \in 1..n : list[i] \in S
    BY ListIs
  <1>2. l \in 0..n
    BY <1>1
  <1>3. left = [i \in 1..(n - l) |-> list[l + i]]
    BY <1>1, <1>2
  <1>4. left \in Seq(S) /\ Len(left) = n - l
    <2>1. PICK m \in Nat : m = n - l
      BY <1>2
    <2>2. left = [i \in 1..m |-> list[l + i]] /\ \A i \in 1..m : l + i \in 1..n
      BY <1>2, <1>3, <2>1
    <2>3. left \in [1..m -> S]
      BY <1>1, <2>2
    <2>4. left \in Seq(S) /\ Len(left) = m
      BY ONLY <2>3, ListOf, m \in Nat
    <2> QED
      BY <2>1, <2>4
  <1>5. left = <<>> <=> l = n
    <2>1. left = <<>> <=> Len(left) = 0
      BY ONLY <1>4, EmptySeq
    <2>2. n - l = 0 <=> l = n
      BY <1>2
    <2> QED
      BY ONLY <1>4, <2>1, <2>2
  <1>6. ASSUME left # <<>>
        PROVE  /\ l + 1 \in 1..n /\ l + 1 \in 0..n
               /\ Head(left) = list[l + 1]
               /\ Tail(left) = SubSeq(list, (l + 1) + 1, n)
    <2>1. l + 1 \in 1..n /\ l + 1 \in 0..n /\ 1 \in 1..(n - l)
      BY <1>2, <1>5, <1>6
    <2>2. Head(left) = list[l + 1]
      <3>1. Head(left) = left[1]
        BY <1>4, <1>6, HeadTailProperties
      <3> QED
        BY <1>3, <2>1, <3>1
    <2>3. Tail(left) = SubSeq(list, (l + 1) + 1, n)
      <3>1. PICK m \in Nat : m = n - l - 1
        BY <1>2, <2>1
      <3>2. Tail(left) = [i \in 1..m |-> left[i + 1]]
        <4>1. Tail(left) = [i \in 1..(Len(left) - 1) |-> left[i + 1]]
          BY <1>4, <1>6
        <4>2. Len(left) - 1 = m
          BY <1>2, <1>4, <3>1
        <4> QED
          BY <4>1, <4>2
      <3>3. \A i \in 1..m : i + 1 \in 1..(n - l) /\ left[i + 1] = list[(l + 1) + i]
        <4>1. \A i \in 1..m : i + 1 \in 1..(n - l) /\ l + (i + 1) = (l + 1) + i
          BY <1>2, <3>1
        <4> QED
          BY <1>3, <4>1
      <3>4. SubSeq(list, (l + 1) + 1, n) = [i \in 1..m |-> list[(l + 1) + i]]
        BY <1>2, <2>1, <3>1
      <3> QED
        BY ONLY <3>2, <3>3, <3>4
    <2> QED
      BY <2>1, <2>2, <2>3
  <1> QED
    BY <1>1, <1>5, <1>6

-----------------------------------------------------------------------------
(* The invariant holds initially and is kept by every action. *)

\* A run of create-merkle-tree starts with all of its rows and no tree.
LEMMA NothingCut ==
    ASSUME NEW rows \in Seq(Row), NEW trees
    PROVE  /\ 0 \in 0..Len(rows)
           /\ Cut(rows, rows, 0)
           /\ Covers(trees, 0, rows, 0)
  <1>1. PICK n \in Nat : n = Len(rows)
    BY ListIs
  <1>2. rows = SubSeq(rows, 0 + 1, n)
    <2>1. rows = [i \in 1..n |-> rows[i]]
      BY <1>1, ListIs
    <2>2. SubSeq(rows, 1, n) = [i \in 1..n |-> rows[i]]
      BY <1>1
    <2> QED
      BY <2>1, <2>2
  <1>3. Cut(rows, rows, 0)
    BY <1>1, <1>2 DEF Cut
  <1>4. 1..0 = {}
    OBVIOUS
  <1>5. ASSUME NEW U
        PROVE  Promised(U, trees, 0) = SumFunctionOnSet(Shares(U, Nodes(rows)), 1..0)
    BY <1>4, SumEmpty DEF Promised
  <1>6. Holders(trees, 1..0) = {rows[i].pubkey : i \in 1..0}
    BY <1>4 DEF Holders
  <1> QED
    BY <1>1, <1>3, <1>5, <1>6 DEF Covers

LEMMA PlansStep ==
    ASSUME PlansInv, [Next]_vars
    PROVE  PlansInv'
  <1>1. CASE CreateAgain
    <2>1. PICK p, n : p = plan /\ n = Len(plan)
      OBVIOUS
    <2>2. p \in Seq(Runs) /\ p # <<>> /\ \A i \in 1..n : Len(p[i].csv) <= MaxRows
      BY <1>1, <2>1 DEF PlansInv, CreateAgain
    <2>3. n \in Nat /\ n >= 1 /\ \A i \in 1..n : p[i] \in Runs
      BY <2>1, <2>2, ListIs, EmptySeq
    <2>4. PICK h, t : h = Head(p) /\ t = Tail(p)
      OBVIOUS
    <2>5. /\ h = p[1] /\ t \in Seq(Runs) /\ Len(t) = n - 1
          /\ \A i \in 1..Len(t) : t[i] = p[i + 1]
      BY <2>1, <2>2, <2>4, HeadTailProperties
    <2>6. h \in Runs /\ Len(h.csv) <= MaxRows
      BY <2>2, <2>3, <2>5
    <2>7. \A i \in 1..Len(t) : Len(t[i].csv) <= MaxRows
      <3>1. \A i \in 1..Len(t) : i + 1 \in 1..n
        BY <2>3, <2>5
      <3> QED
        BY <2>2, <2>5, <3>1
    <2>8. plan' = t /\ csv' = h.csv /\ maxNodes' = h.max_nodes_per_tree
      BY <1>1, <2>1, <2>4 DEF CreateAgain
    <2> QED
      BY <2>5, <2>6, <2>7, <2>8 DEF PlansInv, Runs
  <1>2. CASE ~CreateAgain
    <2>1. UNCHANGED <<plan, csv, maxNodes>>
      BY <1>2 DEF Next, vars, createVars, CreateTree, FinishCreate, CreateBlobs,
                  StartApi, LoadTree, Serve, StartKv, AddProof, FinishKv
    <2> QED
      BY <2>1 DEF PlansInv
  <1> QED
    BY <1>1, <1>2

\* create-merkle-tree writes a tree or gives up.
LEMMA CreateTreeStep ==
    ASSUME PlansInv, CreateInv, CreateTree
    PROVE  CreateInv'
  <1>1. PICK rows, left, i, d, max : /\ rows = csv /\ left = rest /\ i = index
                                     /\ d = disk /\ max = maxNodes
    OBVIOUS
  <1>2. PICK last, part, tree, left2 :
          /\ last = (IF max < Len(left) THEN max ELSE Len(left))
          /\ part = SubSeq(left, 1, last)
          /\ tree = NewTree(part, i)
          /\ left2 = SubSeq(left, last + 1, Len(left))
    OBVIOUS
  <1>3. /\ rows \in Seq(Row) /\ Len(rows) <= MaxRows /\ max \in Nat
        /\ Folder(d) /\ i \in 0..Len(d)
        /\ csv' = rows /\ maxNodes' = max
    BY <1>1 DEF PlansInv, CreateInv, CreateTree
  <1>4. PICK n \in 0..Len(rows) :
          Cut(rows, left, n) /\ i <= n /\ Covers(d, i, rows, n)
    BY <1>1 DEF CreateInv
  <1>5. /\ left # <<>>
        /\ \/ /\ Valid(tree)
              /\ disk' = WriteFile(d, i, tree)
              /\ index' = i + 1
              /\ rest' = left2
              /\ create' = "running"
           \/ /\ ~Valid(tree)
              /\ create' = "panicked"
              /\ index' = i /\ disk' = d /\ rest' = left
    BY <1>1, <1>2 DEF CreateTree, Chunk, ChunkSize
  <1>6. Len(rows) \in Nat /\ Len(left) \in Nat /\ last \in 0..Len(left)
        /\ Len(d) \in Nat /\ MaxRows \in Nat
    <2>1. Len(rows) \in Nat /\ Len(d) \in Nat
      BY <1>3, ListIs DEF Folder
    <2>2. Len(left) \in Nat
      BY <1>4, <2>1 DEF Cut
    <2> QED
      BY <1>2, <1>3, <2>1, <2>2, SizesAssumption
  <1>7. /\ part \in Seq(Row) /\ Len(part) = last
        /\ \A k \in 1..last : part[k] = rows[n + k]
        /\ n + last \in 0..Len(rows)
        /\ Cut(rows, left2, n + last)
        /\ left \in Seq(Row)
    <2>1. NextRows(rows, left, n, last, part, left2)
      BY ONLY <1>2, <1>3, <1>4, <1>6, CutsOff
    <2> QED
      BY ONLY <2>1 DEF NextRows
  <1>8. i \in 0..MaxRows /\ Len(part) <= MaxRows /\ n \in Nat /\ last \in Nat
    BY ONLY <1>3, <1>4, <1>6, <1>7
  <1>9. /\ Valid(tree) => TreeOf(tree, i) /\ part # <<>>
        /\ ~Valid(tree) => part = <<>> \/ Total(Nodes(part)) > MaxU64
        /\ Claimants(tree.tree_nodes) = {part[k].pubkey : k \in 1..Len(part)}
        /\ \A U : Part(U, tree.tree_nodes) = Part(U, Nodes(part))
    <2>1. MadeOf(tree, part, i)
      BY ONLY <1>2, <1>7, <1>8, NewTreeIs
    <2> QED
      BY ONLY <2>1 DEF MadeOf
  <1>10. CASE Valid(tree)
    <2>1. TreeOf(tree, i) /\ part # <<>>
      BY <1>9, <1>10
    <2>2. last >= 1
      <3>1. last # 0
        BY ONLY <1>7, <2>1, EmptySeq
      <3> QED
        BY <1>8, <3>1
    <2>3. i < MaxRows
      BY ONLY <1>3, <1>4, <1>6, <1>7, <1>8, <2>2
    <2>4. PICK new : new = WriteFile(d, i, tree)
      OBVIOUS
    <2>5. /\ Folder(new) /\ i + 1 \in 0..Len(new)
          /\ \A j \in 1..i : new[j] = d[j]
          /\ new[i + 1] = tree
      BY ONLY <1>3, <2>1, <2>3, <2>4, FileWritten
    <2>6. Covers(new, i + 1, rows, n + last)
      <3>1. PICK nodes : nodes = tree.tree_nodes
        OBVIOUS
      <3>2. /\ new[i + 1].tree_nodes = nodes
            /\ Claimants(nodes) = {part[k].pubkey : k \in 1..Len(part)}
            /\ \A U : Part(U, nodes) = Part(U, Nodes(part))
            /\ n + last <= Len(rows)
            /\ i + 1 <= Len(new)
        <4>1. n + last <= Len(rows) /\ i + 1 <= Len(new)
          BY ONLY <1>3, <1>6, <1>7, <2>5
        <4> QED
          BY ONLY <1>9, <2>5, <3>1, <4>1
      <3> QED
        BY ONLY <1>3, <1>4, <1>7, <1>8, <2>5, <3>2, CoversMore
    <2>7. i + 1 <= n + last
      BY <1>4, <1>6, <1>8, <2>2
    <2>8. /\ disk' = new /\ index' = i + 1 /\ rest' = left2 /\ create' = "running"
          /\ csv' = rows
      BY <1>3, <1>5, <1>10, <2>4
    <2> QED
      BY ONLY <1>7, <2>5, <2>6, <2>7, <2>8 DEF CreateInv, OnlyOverflowAborts
  <1>11. CASE ~Valid(tree)
    <2>1. /\ create' = "panicked" /\ index' = i /\ disk' = d /\ rest' = left
          /\ csv' = rows /\ maxNodes' = max
      BY <1>3, <1>5, <1>11
    <2>2. max = 0 \/ Total(Nodes(part)) > MaxU64
      <3>1. CASE part = <<>>
        <4>1. last = 0 /\ Len(left) # 0
          BY ONLY <1>5, <1>7, <3>1, EmptySeq
        <4> QED
          BY <1>2, <4>1
      <3>2. CASE part # <<>>
        BY <1>9, <1>11, <3>2
      <3> QED
        BY <3>1, <3>2
    <2>3. Chunk' = part
      BY ONLY <1>2, <2>1 DEF Chunk, ChunkSize
    <2> QED
      BY ONLY <1>3, <1>4, <2>1, <2>2, <2>3 DEF CreateInv, OnlyOverflowAborts
  <1> QED
    BY <1>10, <1>11

LEMMA CreateStep ==
    ASSUME PlansInv, CreateInv, [Next]_vars
    PROVE  CreateInv'
  <1>1. CASE CreateTree
    BY <1>1, CreateTreeStep
  <1>2. CASE FinishCreate
    <2>1. /\ create' = "done" /\ rest' = rest /\ rest = <<>>
          /\ csv' = csv /\ index' = index /\ disk' = disk
      BY <1>2 DEF FinishCreate
    <2> QED
      BY <2>1 DEF CreateInv, OnlyOverflowAborts
  <1>3. CASE CreateAgain
    <2>1. /\ create' = "running" /\ rest' = csv' /\ index' = 0 /\ disk' = disk
      BY <1>3 DEF CreateAgain
    <2>2. csv' \in Seq(Row)
      BY PlansStep DEF PlansInv
    <2>3. PICK rows : rows = csv'
      OBVIOUS
    <2>4. 0 \in 0..Len(rows) /\ Cut(rows, rows, 0) /\ Covers(disk, 0, rows, 0)
      BY <2>2, <2>3, NothingCut
    <2>5. Folder(disk) /\ 0 \in 0..Len(disk)
      <3>1. Folder(disk)
        BY DEF CreateInv
      <3> QED
        BY <3>1, ListIs DEF Folder
    <2> QED
      BY <2>1, <2>3, <2>4, <2>5 DEF CreateInv, OnlyOverflowAborts
  <1>4. CASE ~CreateTree /\ ~FinishCreate /\ ~CreateAgain
    <2>1. UNCHANGED <<create, csv, maxNodes, rest, index, disk>>
      BY <1>4 DEF Next, vars, createVars, CreateBlobs,
                  StartApi, LoadTree, Serve, StartKv, AddProof, FinishKv
    <2> QED
      BY <2>1 DEF CreateInv, OnlyOverflowAborts, Chunk, ChunkSize
  <1> QED
    BY <1>1, <1>2, <1>3, <1>4

\* Nothing writes to a folder that is being read.
LEMMA ReadStep ==
    ASSUME ReadInv, [Next]_vars
    PROVE  ReadInv'
  <1>1. CASE CreateTree \/ FinishCreate
    <2>1. create = "running" /\ UNCHANGED <<blobs, api, kv>>
      BY <1>1 DEF CreateTree, FinishCreate, apiVars, kvVars
    <2>2. ~Settled
      BY <2>1 DEF Settled
    <2> QED
      BY <2>1, <2>2 DEF ReadInv
  <1>2. CASE CreateAgain
    <2>1. plan # <<>> /\ UNCHANGED <<blobs, api, kv>>
      BY <1>2 DEF CreateAgain, apiVars, kvVars
    <2>2. ~Settled
      BY <2>1 DEF Settled
    <2> QED
      BY <2>1, <2>2 DEF ReadInv
  <1>3. CASE CreateBlobs
    <2>1. /\ create = "done" /\ plan = <<>> /\ blobs' = disk
          /\ UNCHANGED <<plan, create, disk, api, kv>>
      BY <1>3 DEF CreateBlobs, apiVars, kvVars
    <2> QED
      BY <2>1 DEF ReadInv, Settled
  <1>4. CASE StartApi \/ \E n \in FileSizes : StartKv(n)
    <2>1. create = "done" /\ plan = <<>> /\ UNCHANGED createVars
      BY <1>4 DEF StartApi, StartKv
    <2> QED
      BY <2>1 DEF ReadInv, Settled, createVars
  <1>5. CASE LoadTree \/ Serve
    <2>1. api # "down" /\ UNCHANGED <<createVars, kv>>
      BY <1>5 DEF LoadTree, Serve, kvVars
    <2> QED
      BY <2>1 DEF ReadInv, Settled, createVars
  <1>6. CASE AddProof \/ FinishKv
    <2>1. kv # "idle" /\ UNCHANGED <<createVars, api>>
      BY <1>6 DEF AddProof, FinishKv, apiVars
    <2> QED
      BY <2>1 DEF ReadInv, Settled, createVars
  <1>7. CASE UNCHANGED vars
    BY <1>7 DEF vars, createVars, apiVars, kvVars, ReadInv, Settled
  <1> QED
    BY <1>1, <1>2, <1>3, <1>4, <1>5, <1>6, <1>7 DEF Next

LEMMA FolderFrozen ==
    ASSUME ReadInv, [Next]_vars, api # "down" \/ kv # "idle"
    PROVE  UNCHANGED createVars
  <1>1. Settled
    BY DEF ReadInv
  <1>2. CASE Next
    BY <1>1, <1>2 DEF Next, Settled, CreateTree, FinishCreate, CreateAgain, CreateBlobs,
                      StartApi, LoadTree, Serve, StartKv, AddProof, FinishKv
  <1>3. CASE UNCHANGED vars
    BY <1>3 DEF vars
  <1> QED
    BY <1>2, <1>3

LEMMA FilesRead ==
    ASSUME CreateInv, ReadInv
    PROVE  /\ TreesRead = Reading(disk, Copies) /\ Copies \in {1, 2}
           /\ Listed(TreesRead) /\ TreesRead \in Seq(Tree) /\ Len(TreesRead) \in Nat
           /\ ReadInOrder(TreesRead, disk, Copies, Len(disk), Paths[Len(disk)])
  <1>1. Folder(disk) /\ (blobs # <<>> => blobs = disk)
    BY DEF CreateInv, ReadInv
  <1>2. TreesRead = Reading(disk, Copies) /\ Copies \in {1, 2}
    BY <1>1, ReadIs
  <1>3. PICK read, c, m, p, d : /\ read = TreesRead /\ c = Copies /\ m = Len(disk)
                                /\ p = Paths[m] /\ d = disk
    OBVIOUS
  <1>4. ReadInOrder(read, d, c, m, p)
    BY <1>1, <1>2, <1>3, ReadingIs
  <1>5. Listed(read) /\ read \in Seq(Tree) /\ Len(read) \in Nat
    BY <1>4 DEF ReadInOrder, Listed
  <1> QED
    BY <1>2, <1>3, <1>4, <1>5

\* The API loads one more tree.
LEMMA LoadTreeStep ==
    ASSUME CreateInv, ReadInv, ApiInv, LoadTree
    PROVE  ApiInv'
  <1>1. api = "loading" /\ unread # <<>> /\ TreesRead' = TreesRead
    BY DEF LoadTree, createVars, TreesRead, Copies
  <1>2. PICK read : read = TreesRead /\ Listed(read) /\ read \in Seq(Tree)
    BY FilesRead
  <1>3. PICK l \in 0..Len(read) : Loaded(read, l) /\ state.trees = Versions(read, l)
    BY <1>1, <1>2 DEF ApiInv
  <1>4. PICK tree, left, st : tree = Head(unread) /\ left = unread /\ st = state
    OBVIOUS
  <1>5. /\ left = SubSeq(read, l + 1, Len(read)) /\ left # <<>>
        /\ Stores(st.tree, read, l, 0)
        /\ st.max_total_claim
             = SumFunctionOnSet([k \in 1..l |-> read[k].max_total_claim], 1..l)
        /\ st.max_total_claim \in 0..MaxU64
        /\ st.trees = Versions(read, l)
        /\ tree = Head(left)
    BY <1>1, <1>3, <1>4 DEF Loaded
  <1>6. /\ l + 1 \in 1..Len(read) /\ l + 1 \in 0..Len(read)
        /\ tree = read[l + 1]
        /\ Tail(left) = SubSeq(read, (l + 1) + 1, Len(read))
    BY <1>2, <1>5, Remaining
  <1>7. l \in Nat /\ Len(read) \in Nat
    BY <1>2, ListIs
  <1>8. \A k \in 1..Len(read) : /\ read[k].max_total_claim \in 0..MaxU64
                                /\ read[k].airdrop_version \in 0..MaxRows
    BY <1>2, ListedIs DEF Tree
  <1>9. CASE st.max_total_claim + tree.max_total_claim <= MaxU64
    <2>1. PICK new :
            new = [max_num_nodes |-> st.max_num_nodes + tree.max_num_nodes,
                   max_total_claim |-> st.max_total_claim + tree.max_total_claim,
                   trees |-> Append(st.trees, tree.airdrop_version),
                   tree |-> Inserted(st.tree, tree)]
      OBVIOUS
    <2>2. state' = new /\ unread' = Tail(left) /\ api' = api
      <3>1. ~(st.max_total_claim + tree.max_total_claim > MaxU64)
        BY <1>5, <1>6, <1>8, <1>9, AmountsAssumption
      <3> QED
        BY <1>4, <1>9, <2>1, <3>1 DEF LoadTree
    <2>3. Stores(Inserted(st.tree, tree), read, l + 1, 0)
      BY ONLY <1>2, <1>5, <1>6, <1>7, StoresTree
    <2>4. new.max_total_claim
            = SumFunctionOnSet([k \in 1..(l + 1) |-> read[k].max_total_claim],
                               1..(l + 1))
      <3>1. PICK f, g : /\ f = [k \in 1..(l + 1) |-> read[k].max_total_claim]
                        /\ g = [k \in 1..l |-> read[k].max_total_claim]
        OBVIOUS
      <3>2. \A k \in 1..(l + 1) : k \in 1..Len(read)
        BY <1>6, <1>7
      <3>3. \A k \in 1..(l + 1) : f[k] \in Int
        BY <1>8, <3>1, <3>2
      <3>4. \A k \in 1..l : g[k] = f[k]
        BY <1>7, <3>1
      <3>5. SumFunctionOnSet(f, 1..(l + 1)) = SumFunctionOnSet(g, 1..l) + f[l + 1]
        BY ONLY <1>7, <3>3, <3>4, SumLonger
      <3>6. f[l + 1] = tree.max_total_claim
        BY <1>6, <1>7, <3>1
      <3> QED
        BY ONLY <1>5, <2>1, <3>1, <3>5, <3>6
    <2>5. new.max_total_claim \in 0..MaxU64
      <3>1. st.max_total_claim \in Nat /\ tree.max_total_claim \in Nat
        BY <1>5, <1>6, <1>8, AmountsAssumption
      <3>2. new.max_total_claim = st.max_total_claim + tree.max_total_claim
        BY <2>1
      <3> QED
        BY ONLY <1>9, <3>1, <3>2, AmountsAssumption
    <2>6. new.trees = Versions(read, l + 1)
      <3>1. st.trees \in [1..l -> 0..MaxRows]
        <4>1. \A k \in 1..l : k \in 1..Len(read)
          BY <1>7
        <4> QED
          BY <1>5, <1>8, <4>1 DEF Versions
      <3>2. st.trees \in Seq(0..MaxRows) /\ Len(st.trees) = l
        BY ONLY <1>7, <3>1, ListOf
      <3>3. tree.airdrop_version \in 0..MaxRows
        BY <1>6, <1>8
      <3>4. PICK list : list = Append(st.trees, tree.airdrop_version)
        OBVIOUS
      <3>5. /\ list \in Seq(0..MaxRows) /\ Len(list) = l + 1
            /\ \A k \in 1..l : list[k] = st.trees[k]
            /\ list[l + 1] = tree.airdrop_version
        <4>1. /\ list \in Seq(0..MaxRows) /\ Len(list) = Len(st.trees) + 1
              /\ \A k \in 1..Len(st.trees) : list[k] = st.trees[k]
              /\ list[Len(st.trees) + 1] = tree.airdrop_version
          BY ONLY <3>2, <3>3, <3>4, AppendProperties
        <4> QED
          BY ONLY <3>2, <4>1
      <3>6. list = [k \in 1..(l + 1) |-> list[k]]
        BY <3>5, LenProperties
      <3>7. \A k \in 1..(l + 1) : list[k] = read[k].airdrop_version
        <4>1. \A k \in 1..(l + 1) : k \in 1..l \/ k = l + 1
          BY <1>7
        <4>2. \A k \in 1..l : st.trees[k] = read[k].airdrop_version
          BY <1>5 DEF Versions
        <4> QED
          BY <1>6, <3>5, <4>1, <4>2
      <3>8. list = Versions(read, l + 1)
        BY <3>6, <3>7 DEF Versions
      <3> QED
        BY <2>1, <3>4, <3>8
    <2>7. new.tree = Inserted(st.tree, tree)
      BY <2>1
    <2>8. Loaded(read, l + 1)'
      BY <1>6, <2>2, <2>3, <2>4, <2>5, <2>7 DEF Loaded
    <2> QED
      BY <1>1, <1>2, <1>6, <2>2, <2>6, <2>8 DEF ApiInv
  <1>10. CASE ~(st.max_total_claim + tree.max_total_claim <= MaxU64)
    <2>1. state' = state /\ unread' = unread /\ api' = "panicked"
      BY <1>4, <1>10 DEF LoadTree
    <2>2. Loaded(read, l)' /\ state'.trees = Versions(read, l)
      BY <1>3, <2>1 DEF Loaded
    <2> QED
      BY <1>1, <1>2, <2>1, <2>2 DEF ApiInv
  <1> QED
    BY <1>9, <1>10

LEMMA ApiStep ==
    ASSUME CreateInv, ReadInv, ApiInv, [Next]_vars
    PROVE  ApiInv'
  <1>1. CASE StartApi
    <2>1. /\ api = "down" /\ api' = "loading" /\ unread' = TreesRead
          /\ state' = state /\ TreesRead' = TreesRead
      BY <1>1 DEF StartApi, createVars, TreesRead, Copies
    <2>2. PICK read : read = TreesRead /\ Listed(read) /\ read \in Seq(Tree)
      BY FilesRead
    <2>3. state' = NoState
      BY <2>1 DEF ApiInv
    <2>4. PICK n \in Nat : n = Len(read)
      BY <2>2, ListIs
    <2>5. read = SubSeq(read, 0 + 1, n)
      <3>1. read = [k \in 1..n |-> read[k]]
        BY <2>2, <2>4, LenProperties
      <3>2. SubSeq(read, 1, n) = [k \in 1..n |-> read[k]]
        BY <2>4
      <3> QED
        BY <3>1, <3>2
    <2>6. Stores(Empty, read, 0, 0)
      BY <2>2, StoresNothing
    <2>7. 1..0 = {}
      OBVIOUS
    <2>8. SumFunctionOnSet([k \in 1..0 |-> read[k].max_total_claim], 1..0) = 0
      BY <2>7, SumEmpty
    <2>9. Versions(read, 0) = <<>>
      <3>1. Versions(read, 0) \in [1..0 -> {}]
        BY <2>7 DEF Versions
      <3>2. Versions(read, 0) \in Seq({}) /\ Len(Versions(read, 0)) = 0
        BY <3>1, ListOf
      <3> QED
        BY <3>2, EmptySeq
    <2>10. /\ NoState.tree = Empty /\ NoState.trees = <<>>
           /\ NoState.max_total_claim = 0
      BY DEF NoState
    <2>11. Loaded(read, 0)'
      BY <2>1, <2>2, <2>3, <2>4, <2>5, <2>6, <2>8, <2>10, AmountsAssumption DEF Loaded
    <2>12. 0 \in 0..Len(read)
      BY <2>4
    <2> QED
      BY <2>1, <2>2, <2>3, <2>9, <2>10, <2>11, <2>12 DEF ApiInv
  <1>2. CASE LoadTree
    BY <1>2, LoadTreeStep
  <1>3. CASE Serve
    <2>1. /\ api = "loading" /\ unread = <<>> /\ api' = "serving" /\ unread' = unread
          /\ state' = [state EXCEPT !.trees = SortVersions(@)]
          /\ TreesRead' = TreesRead
      BY <1>3 DEF Serve, createVars, TreesRead, Copies
    <2>2. PICK read : read = TreesRead /\ Listed(read) /\ read \in Seq(Tree)
      BY FilesRead
    <2>3. PICK l \in 0..Len(read) : Loaded(read, l) /\ state.trees = Versions(read, l)
      BY <2>1, <2>2 DEF ApiInv
    <2>4. l = Len(read)
      BY <2>1, <2>2, <2>3, Remaining DEF Loaded
    <2>5. /\ state'.tree = state.tree /\ state'.max_total_claim = state.max_total_claim
          /\ state'.trees = SortVersions(state.trees)
      BY <2>1
    <2>6. Loaded(read, l)'
      BY <2>1, <2>3, <2>5 DEF Loaded
    <2> QED
      BY <2>1, <2>2, <2>3, <2>4, <2>5, <2>6 DEF ApiInv
  <1>4. CASE ~StartApi /\ ~LoadTree /\ ~Serve
    <2>1. UNCHANGED apiVars
      BY <1>4 DEF Next, vars, CreateTree, FinishCreate, CreateAgain, CreateBlobs,
                  StartKv, AddProof, FinishKv
    <2>2. CASE api = "down"
      BY <2>1, <2>2 DEF apiVars, ApiInv
    <2>3. CASE api # "down"
      <3>1. TreesRead' = TreesRead
        BY <2>3, FolderFrozen DEF createVars, TreesRead, Copies
      <3> QED
        BY <2>1, <3>1 DEF apiVars, ApiInv, Loaded
    <2> QED
      BY <2>2, <2>3
  <1> QED
    BY <1>1, <1>2, <1>3, <1>4

\* A file is uploaded after the others.
LEMMA OneMoreFile ==
    ASSUME NEW list, \E S : list \in Seq(S), NEW file
    PROVE  /\ \E S : Append(list, file) \in Seq(S)
           /\ Uploaded(Append(list, file)) = With(Uploaded(list), file)
  <1>1. PICK S : list \in Seq(S)
    OBVIOUS
  <1>2. PICK n \in Nat : /\ n = Len(list) /\ DOMAIN list = 1..n
                         /\ \A i \in 1..n : list[i] \in S
    BY <1>1, ListIs
  <1>3. PICK T : T = S \cup {file}
    OBVIOUS
  <1>4. list = [i \in 1..n |-> list[i]]
    BY <1>1, <1>2, LenProperties
  <1>5. list \in [1..n -> T]
    BY <1>2, <1>3, <1>4
  <1>6. list \in Seq(T) /\ file \in T
    BY <1>3, <1>5, ListOf
  <1>7. Append(list, file) \in Seq(T)
    BY ONLY <1>6, AppendProperties
  <1>8. Uploaded(Append(list, file)) = With(Uploaded(list), file)
    BY ONLY <1>6, UploadedMore
  <1> QED
    BY <1>7, <1>8

\* generate-kv-proof is started.
LEMMA StartKvStep ==
    ASSUME CreateInv, ReadInv, KvInv, NEW n \in FileSizes, StartKv(n)
    PROVE  KvInv'
  <1>1. /\ kv = "idle" /\ kv' = IF blobs = <<>> THEN "running" ELSE "panicked"
        /\ toAdd' = TreesRead /\ TreesRead' = TreesRead
        /\ blobs' = blobs /\ added' = added /\ proofs' = proofs /\ files' = files
    BY DEF StartKv, createVars, TreesRead, Copies
  <1>2. proofs = Empty /\ files = <<>> /\ added = 0
    BY <1>1 DEF KvInv
  <1>3. PICK read : read = TreesRead /\ Listed(read) /\ read \in Seq(Tree)
    BY FilesRead
  <1>4. PICK len \in Nat : len = Len(read)
    BY <1>3, ListIs
  <1>5. read = SubSeq(read, 0 + 1, len)
    <2>1. read = [k \in 1..len |-> read[k]]
      BY <1>3, <1>4, LenProperties
    <2>2. SubSeq(read, 1, len) = [k \in 1..len |-> read[k]]
      BY <1>4
    <2> QED
      BY <2>1, <2>2
  <1>6. KvStore' = Uploaded(<<>>)
    BY <1>1, <1>2 DEF KvStore, Uploaded
  <1>7. With(Uploaded(<<>>), Empty) = Empty
    <2>1. DOMAIN <<>> = {}
      OBVIOUS
    <2>2. DOMAIN Uploaded(<<>>) = {}
      BY <2>1 DEF Uploaded
    <2>3. Empty = [key \in DOMAIN Empty |-> Empty[key]] /\ DOMAIN Empty = {}
      BY DEF Empty
    <2> QED
      BY <2>2, <2>3 DEF With, Empty
  <1>8. Stores(Empty, read, 0, 0)
    BY <1>3, StoresNothing
  <1>9. Handled(read, 0)'
    <2>1. 0 < len => 0 < Len(read[0 + 1].tree_nodes)
      BY <1>3, <1>4, ListedIs
    <2>2. Stores(With(KvStore, proofs), read, 0, added)'
      BY <1>1, <1>2, <1>6, <1>7, <1>8
    <2> QED
      BY <1>1, <1>2, <1>3, <1>4, <1>5, <2>1, <2>2 DEF Handled
  <1>10. 0 \in 0..Len(read)
    BY <1>4
  <1>11. \E S : files' \in Seq(S)
    BY <1>1 DEF KvInv
  <1> QED
    BY <1>1, <1>2, <1>3, <1>9, <1>10, <1>11 DEF KvInv

\* generate-kv-proof handles one more node.
LEMMA AddProofStep ==
    ASSUME CreateInv, ReadInv, KvInv, AddProof
    PROVE  KvInv'
  <1>1. /\ kv = "running" /\ kv' = kv /\ toAdd # <<>>
        /\ TreesRead' = TreesRead /\ blobs' = blobs
    BY DEF AddProof, createVars, TreesRead, Copies
  <1>2. blobs = <<>> /\ \E S : files \in Seq(S)
    BY <1>1 DEF KvInv
  <1>3. PICK read : read = TreesRead /\ Listed(read) /\ read \in Seq(Tree)
    BY FilesRead
  <1>4. PICK l \in 0..Len(read) : Handled(read, l)
    BY <1>1, <1>3 DEF KvInv
  <1>5. PICK left, j, fs, ps, next : /\ left = toAdd /\ j = added /\ fs = files
                                     /\ ps = proofs /\ next = WithNext
    OBVIOUS
  <1>6. PICK store : store = Uploaded(fs)
    OBVIOUS
  <1>7. KvStore = store
    BY <1>5, <1>6 DEF KvStore, Uploaded
  <1>8. /\ left = SubSeq(read, l + 1, Len(read)) /\ left # <<>>
        /\ j \in Nat
        /\ l < Len(read) => j < Len(read[l + 1].tree_nodes)
        /\ Stores(With(store, ps), read, l, j)
    BY <1>1, <1>4, <1>5, <1>7 DEF Handled
  <1>9. /\ l + 1 \in 1..Len(read) /\ l + 1 \in 0..Len(read)
        /\ Head(left) = read[l + 1]
        /\ Tail(left) = SubSeq(read, (l + 1) + 1, Len(read))
    BY <1>3, <1>8, Remaining
  <1>10. PICK m : m = Len(read[l + 1].tree_nodes)
    OBVIOUS
  <1>11. /\ l \in Nat /\ Len(read) \in Nat /\ m \in Nat /\ j < m /\ j + 1 <= m
         /\ \A k \in 1..Len(read) : /\ Len(read[k].tree_nodes) \in Nat
                                    /\ Len(read[k].tree_nodes) >= 1
    <2>1. Len(read) \in Nat
      BY <1>3, ListedIs
    <2>2. \A k \in 1..Len(read) : /\ Len(read[k].tree_nodes) \in Nat
                                  /\ Len(read[k].tree_nodes) >= 1
      BY <1>3, ListedIs
    <2>3. l \in Nat /\ l < Len(read)
      BY <1>9, <2>1
    <2>4. m \in Nat /\ j < m
      BY <1>8, <1>9, <1>10, <2>2, <2>3
    <2> QED
      BY <1>8, <2>1, <2>2, <2>3, <2>4
  <1>12. PICK entries :
           entries = [user \in {read[l + 1].tree_nodes[j + 1].claimant} |->
                        Entry(read[l + 1], j + 1)]
    OBVIOUS
  <1>13. next = With(ps, entries)
    BY <1>5, <1>9, <1>12 DEF WithNext
  <1>14. PICK map : map = With(store, next)
    OBVIOUS
  <1>15. Stores(map, read, l, j + 1)
    <2>1. PICK before : before = With(store, ps)
      OBVIOUS
    <2>2. Stores(With(before, entries), read, l, j + 1)
      BY ONLY <1>3, <1>8, <1>9, <1>10, <1>11, <1>12, <2>1, StoresNode
    <2>3. With(before, entries) = map
      BY ONLY <1>13, <1>14, <2>1, WithTwice
    <2> QED
      BY <2>2, <2>3
  <1>16. /\ With(KvStore, proofs)' = map
         /\ \E S : files' \in Seq(S)
    <2>1. \/ files' = Append(fs, next) /\ proofs' = Empty
          \/ files' = fs /\ proofs' = next
      BY <1>5 DEF AddProof
    <2>2. KvStore' = Uploaded(files')
      BY DEF KvStore, Uploaded
    <2>3. CASE files' = Append(fs, next) /\ proofs' = Empty
      <3>1. Uploaded(Append(fs, next)) = map /\ \E S : Append(fs, next) \in Seq(S)
        BY ONLY <1>2, <1>5, <1>6, <1>14, OneMoreFile
      <3>2. map = [key \in DOMAIN map |-> map[key]]
        BY <1>15 DEF Stores
      <3>3. With(map, Empty) = map
        BY ONLY <3>2, WithNothing
      <3> QED
        BY <2>2, <2>3, <3>1, <3>3
    <2>4. CASE files' = fs /\ proofs' = next
      BY <1>2, <1>5, <1>6, <1>14, <2>2, <2>4
    <2> QED
      BY <2>1, <2>3, <2>4
  <1>17. /\ read = TreesRead' /\ kv' = "running" /\ blobs' = <<>>
    BY <1>1, <1>2, <1>3
  <1>18. CASE j + 1 < m
    <2>1. added' = j + 1 /\ toAdd' = left
      <3>1. ~(j + 1 >= m)
        BY ONLY <1>8, <1>11, <1>18
      <3> QED
        BY <1>5, <1>9, <1>10, <3>1 DEF AddProof, Advance
    <2>2. Handled(read, l)'
      <3>1. Stores(map, read, l, added')
        BY <1>15, <2>1
      <3>2. l # Len(read) /\ j + 1 \in Nat
        BY <1>8, <1>9, <1>11
      <3> QED
        BY <1>8, <1>10, <1>16, <1>18, <2>1, <3>1, <3>2 DEF Handled
    <2> QED
      BY <1>16, <1>17, <2>2 DEF KvInv
  <1>19. CASE ~(j + 1 < m)
    <2>1. j + 1 = m
      BY ONLY <1>8, <1>11, <1>19
    <2>2. added' = 0 /\ toAdd' = Tail(left)
      BY <1>5, <1>9, <1>10, <1>19 DEF AddProof, Advance
    <2>3. Stores(map, read, l + 1, 0)
      BY ONLY <1>3, <1>9, <1>10, <1>11, <1>15, <2>1, StoresOver
    <2>4. Handled(read, l + 1)'
      <3>1. l + 1 < Len(read) => 0 < Len(read[(l + 1) + 1].tree_nodes)
        <4>1. l + 1 < Len(read) => (l + 1) + 1 \in 1..Len(read)
          BY <1>11
        <4> QED
          BY <1>11, <4>1
      <3>2. Stores(map, read, l + 1, added')
        BY <2>2, <2>3
      <3> QED
        BY <1>9, <1>16, <2>2, <3>1, <3>2 DEF Handled
    <2> QED
      BY <1>9, <1>16, <1>17, <2>4 DEF KvInv
  <1> QED
    BY <1>18, <1>19

\* generate-kv-proof writes what is left and ends.
LEMMA FinishKvStep ==
    ASSUME CreateInv, ReadInv, KvInv, FinishKv
    PROVE  KvInv'
  <1>1. /\ kv = "running" /\ kv' = "done" /\ toAdd = <<>>
        /\ files' = IF proofs # Empty THEN Append(files, proofs) ELSE files
        /\ proofs' = proofs /\ TreesRead' = TreesRead /\ blobs' = blobs
    BY DEF FinishKv, createVars, TreesRead, Copies
  <1>2. blobs = <<>> /\ \E S : files \in Seq(S)
    BY <1>1 DEF KvInv
  <1>3. PICK read : read = TreesRead /\ Listed(read) /\ read \in Seq(Tree)
    BY FilesRead
  <1>4. PICK l \in 0..Len(read) : Handled(read, l)
    BY <1>1, <1>3 DEF KvInv
  <1>5. l = Len(read) /\ added = 0
    <2>1. l = Len(read)
      BY <1>1, <1>3, <1>4, Remaining DEF Handled
    <2> QED
      BY <1>4, <2>1 DEF Handled
  <1>6. PICK fs, ps, store, map : /\ fs = files /\ ps = proofs /\ store = Uploaded(fs)
                                  /\ map = With(store, ps)
    OBVIOUS
  <1>7. KvStore = store /\ KvStore' = Uploaded(files')
    BY <1>6 DEF KvStore, Uploaded
  <1>8. Stores(map, read, l, 0)
    BY <1>4, <1>5, <1>6, <1>7 DEF Handled
  <1>9. KvStore' = map /\ \E S : files' \in Seq(S)
    <2>1. CASE ps # Empty
      <3>1. files' = Append(fs, ps)
        BY <1>1, <1>6, <2>1
      <3>2. Uploaded(Append(fs, ps)) = map /\ \E S : Append(fs, ps) \in Seq(S)
        BY ONLY <1>2, <1>6, OneMoreFile
      <3> QED
        BY <1>7, <3>1, <3>2
    <2>2. CASE ps = Empty
      <3>1. files' = fs
        BY <1>1, <1>6, <2>2
      <3>2. store = [key \in DOMAIN store |-> store[key]]
        <4>1. DOMAIN store = UNION {DOMAIN fs[k] : k \in DOMAIN fs}
          BY <1>6 DEF Uploaded
        <4> QED
          BY <1>6, <4>1 DEF Uploaded
      <3>3. map = store
        BY <1>6, <2>2, <3>2, WithNothing
      <3> QED
        BY <1>2, <1>6, <1>7, <3>1, <3>3
    <2> QED
      BY <2>1, <2>2
  <1>10. \A user \in DOMAIN ps : user \in DOMAIN map /\ map[user] = ps[user]
    BY <1>6 DEF With
  <1> QED
    BY <1>1, <1>2, <1>3, <1>5, <1>6, <1>8, <1>9, <1>10 DEF KvInv

LEMMA KvStep ==
    ASSUME CreateInv, ReadInv, KvInv, [Next]_vars
    PROVE  KvInv'
  <1>1. CASE \E n \in FileSizes : StartKv(n)
    BY <1>1, StartKvStep
  <1>2. CASE AddProof
    BY <1>2, AddProofStep
  <1>3. CASE FinishKv
    BY <1>3, FinishKvStep
  <1>4. CASE ~(\E n \in FileSizes : StartKv(n)) /\ ~AddProof /\ ~FinishKv
    <2>1. UNCHANGED kvVars
      BY <1>4 DEF Next, vars, CreateTree, FinishCreate, CreateAgain, CreateBlobs,
                  StartApi, LoadTree, Serve
    <2>2. KvStore' = KvStore
      BY <2>1 DEF kvVars, KvStore
    <2>3. CASE kv = "idle"
      BY <2>1, <2>3 DEF kvVars, KvInv
    <2>4. CASE kv # "idle"
      <3>1. TreesRead' = TreesRead /\ blobs' = blobs
        BY <2>4, FolderFrozen DEF createVars, TreesRead, Copies
      <3> QED
        BY <2>1, <2>2, <3>1 DEF kvVars, KvInv, Handled
    <2> QED
      BY <2>3, <2>4
  <1> QED
    BY <1>1, <1>2, <1>3, <1>4

LEMMA InitInv ==
    ASSUME Init
    PROVE  IInv
  <1>1. PICK runs \in Plans : /\ plan = Tail(runs)
                              /\ csv = Head(runs).csv
                              /\ maxNodes = Head(runs).max_nodes_per_tree
    BY DEF Init
  <1>2. /\ runs \in Seq(Runs) /\ runs # <<>>
        /\ \A run \in ToSet(runs) : Len(run.csv) <= MaxRows
    BY SizesAssumption DEF Runs
  <1>3. PICK n \in Nat : /\ n = Len(runs) /\ DOMAIN runs = 1..n
                         /\ \A i \in 1..n : runs[i] \in Runs
    BY <1>2, ListIs
  <1>4. \A i \in 1..n : Len(runs[i].csv) <= MaxRows
    BY <1>2, <1>3 DEF ToSet
  <1>5. n >= 1
    BY <1>2, <1>3, EmptySeq
  <1>6. PICK h, t : h = Head(runs) /\ t = Tail(runs)
    OBVIOUS
  <1>7. /\ h = runs[1] /\ t \in Seq(Runs) /\ Len(t) = n - 1
        /\ \A i \in 1..Len(t) : t[i] = runs[i + 1]
    BY <1>2, <1>3, <1>6, HeadTailProperties
  <1>8. h \in Runs /\ Len(h.csv) <= MaxRows
    BY <1>3, <1>4, <1>5, <1>7
  <1>9. \A i \in 1..Len(t) : Len(t[i].csv) <= MaxRows
    <2>1. \A i \in 1..Len(t) : i + 1 \in 1..n
      BY <1>3, <1>7
    <2> QED
      BY <1>4, <1>7, <2>1
  <1>10. PlansInv
    BY <1>1, <1>6, <1>7, <1>8, <1>9 DEF PlansInv, Runs
  <1>11. CreateInv
    <2>1. PICK rows : rows = csv /\ rows \in Seq(Row)
      BY <1>10 DEF PlansInv
    <2>2. /\ create = "running" /\ rest = rows /\ index = 0 /\ disk = <<>>
      BY <2>1 DEF Init
    <2>3. 0 \in 0..Len(rows) /\ Cut(rows, rows, 0) /\ Covers(<<>>, 0, rows, 0)
      BY <2>1, NothingCut
    <2>4. <<>> \in Seq(Tree) /\ Len(<<>>) = 0
      OBVIOUS
    <2>5. Folder(<<>>) /\ 0 \in 0..Len(<<>>)
      BY <2>4, SizesAssumption DEF Folder
    <2> QED
      BY <2>1, <2>2, <2>3, <2>5 DEF CreateInv, OnlyOverflowAborts
  <1>12. ReadInv /\ ApiInv
    BY DEF Init, ReadInv, ApiInv
  <1>13. KvInv
    <2>1. \E S : <<>> \in Seq(S)
      BY EmptySeq
    <2> QED
      BY <2>1 DEF Init, KvInv
  <1> QED
    BY <1>10, <1>11, <1>12, <1>13 DEF IInv

LEMMA StepInv ==
    ASSUME IInv, [Next]_vars
    PROVE  IInv'
  BY PlansStep, CreateStep, ReadStep, ApiStep, KvStep DEF IInv

LEMMA Inductive == Spec => []IInv
  <1>1. IInv /\ [Next]_vars => IInv'
    BY StepInv
  <1> QED
    BY <1>1, InitInv, PTL DEF Spec

-----------------------------------------------------------------------------
(* Theorems. *)

\* The data of the three commands have their types: no amount that is written,
\* summed or served leaves the range of a u64, and every entry of the API and
\* of a key-value file names a user, a tree and a leaf.
THEOREM TypesKept == Spec => []TypeOK
  <1>1. ASSUME IInv PROVE TypeOK
    <2> USE <1>1 DEF IInv
    <2>1. ASSUME NEW t \in ToSet(disk)
          PROVE  /\ t.airdrop_version \in 0..MaxRows
                 /\ t.max_num_nodes \in 1..MaxRows
                 /\ t.max_total_claim \in 0..MaxU64
      <3>1. disk \in Seq(Tree)
        BY DEF CreateInv, Folder
      <3>2. t \in Tree
        BY <3>1, ListIs DEF ToSet
      <3> QED
        BY <3>2 DEF Tree
    <2>2. PICK read : read = TreesRead /\ Listed(read) /\ read \in Seq(Tree)
      BY FilesRead
    <2>3. /\ state.max_total_claim \in 0..MaxU64
          /\ \A u \in DOMAIN state.tree : u \in Users /\ state.tree[u] \in ClaimInfo
      <3>1. CASE api = "down"
        <4>1. state = NoState
          BY <3>1 DEF ApiInv
        <4>2. NoState.max_total_claim = 0 /\ DOMAIN NoState.tree = {}
          BY DEF NoState, Empty
        <4> QED
          BY <4>1, <4>2, AmountsAssumption
      <3>2. CASE api # "down"
        <4>1. PICK l : Loaded(read, l)
          BY <2>2, <3>2 DEF ApiInv
        <4> QED
          BY <2>2, <4>1, StoredIs DEF Loaded
      <3> QED
        BY <3>1, <3>2
    <2>4. \A u \in DOMAIN proofs : u \in Users /\ proofs[u] \in ClaimInfo
      <3>1. CASE kv \in {"idle", "panicked"}
        BY <3>1 DEF KvInv, Empty
      <3>2. CASE kv = "running"
        <4>1. PICK l : Handled(read, l)
          BY <2>2, <3>2 DEF KvInv
        <4>2. PICK map, ps : ps = proofs /\ map = With(KvStore, ps)
          OBVIOUS
        <4>3. \A u \in DOMAIN ps : u \in DOMAIN map /\ map[u] = ps[u]
          BY <4>2 DEF With
        <4>4. Stores(map, read, l, added)
          BY <4>1, <4>2 DEF Handled
        <4> QED
          BY <2>2, <4>2, <4>3, <4>4, StoredIs
      <3>3. CASE kv = "done"
        <4>1. /\ Stores(KvStore, read, Len(read), 0)
              /\ \A u \in DOMAIN proofs : u \in DOMAIN KvStore /\ proofs[u] = KvStore[u]
          BY <2>2, <3>3 DEF KvInv
        <4>2. PICK store : store = KvStore
          OBVIOUS
        <4>3. \A u \in DOMAIN store : u \in Users /\ store[u] \in ClaimInfo
          BY <2>2, <4>1, <4>2, StoredIs
        <4> QED
          BY <4>1, <4>2, <4>3
      <3> QED
        BY <3>1, <3>2, <3>3 DEF KvInv
    <2> QED
      BY <2>1, <2>3, <2>4 DEF TypeOK, CreateInv, ApiInv, KvInv
  <1> QED
    BY <1>1, Inductive, PTL

\* create-merkle-tree stops short only when it is given a tree size of zero or
\* more than a u64 can hold: validate rejects nothing that new built.
THEOREM AbortsOnlyOnOverflow == Spec => []OnlyOverflowAborts
  <1>1. IInv => OnlyOverflowAborts
    BY DEF IInv, CreateInv
  <1> QED
    BY <1>1, Inductive, PTL

\* When all of its rows are cut off, a run has put all of the file in trees.
LEMMA AllCut ==
    ASSUME PlansInv, CreateInv, create = "done"
    PROVE  /\ Folder(disk) /\ index \in 0..Len(disk) /\ Len(disk) \in Nat
           /\ Len(csv) \in Nat
           /\ Covers(disk, index, csv, Len(csv))
           /\ \A user : Allocation(user) = Part({user}, Nodes(csv))
           /\ Total(Nodes(csv)) = Part(Users, Nodes(csv))
           /\ \A U : Part(U, Nodes(csv))
                       = SumFunctionOnSet(Shares(U, Nodes(csv)), 1..Len(csv))
  <1>1. PICK rows, len : rows = csv /\ len = Len(rows)
    OBVIOUS
  <1>2. rows \in Seq(Row) /\ len \in Nat
    BY <1>1, ListIs DEF PlansInv
  <1>3. Folder(disk) /\ index \in 0..Len(disk) /\ Len(disk) \in Nat
    <2>1. Folder(disk) /\ index \in 0..Len(disk)
      BY DEF CreateInv
    <2> QED
      BY <2>1, ListIs DEF Folder
  <1>4. PICK n \in 0..len : Cut(rows, rest, n) /\ Covers(disk, index, rows, n)
    BY <1>1 DEF CreateInv
  <1>5. n = len
    <2>1. rest = <<>>
      BY DEF CreateInv
    <2>2. Len(rest) = len - n
      BY <1>1, <1>4 DEF Cut
    <2>3. len - n = 0
      BY <2>1, <2>2
    <2> QED
      BY <1>2, <2>3
  <1>6. PICK nodes : nodes = Nodes(rows)
    OBVIOUS
  <1>7. DOMAIN nodes = 1..len /\ \A i \in 1..len : nodes[i].claimant \in Users
    <2>1. nodes \in Seq(Node) /\ DOMAIN nodes = 1..len /\ Len(nodes) = len
      BY <1>1, <1>2, <1>6, NodesOfRows
    <2>2. \A i \in 1..len : nodes[i] \in Node
      BY ONLY <2>1, ListIs
    <2> QED
      BY <2>1, <2>2 DEF Node
  <1>8. /\ Total(nodes) = Part(Users, nodes)
        /\ \A user : AmountOf(user, nodes) = Part({user}, nodes)
    BY ONLY <1>2, <1>7, SumsArePromises
  <1>9. \A U : Part(U, nodes) = SumFunctionOnSet(Shares(U, nodes), 1..len)
    BY <1>7 DEF Part
  <1> QED
    BY <1>1, <1>2, <1>3, <1>4, <1>5, <1>6, <1>8, <1>9 DEF Allocation

\* In the trees of a folder the model's sums are promises.
LEMMA TreeSums ==
    ASSUME NEW trees, Folder(trees), NEW i \in 1..Len(trees)
    PROVE  /\ Total(trees[i].tree_nodes) = Part(Users, trees[i].tree_nodes)
           /\ \A user : AmountOf(user, trees[i].tree_nodes)
                          = Part({user}, trees[i].tree_nodes)
  <1>1. PICK nodes, n : nodes = trees[i].tree_nodes /\ n = Len(nodes)
    OBVIOUS
  <1>2. /\ n \in Nat /\ DOMAIN nodes = 1..n
        /\ \A k \in 1..n : nodes[k] \in Leaf
    BY <1>1, FolderPromises
  <1>3. \A k \in 1..n : nodes[k].claimant \in Users
    BY <1>2 DEF Leaf
  <1>4. /\ Total(nodes) = Part(Users, nodes)
        /\ \A user : AmountOf(user, nodes) = Part({user}, nodes)
    BY ONLY <1>2, <1>3, SumsArePromises
  <1> QED
    BY <1>1, <1>4

\* However the file is cut into trees, and whatever the folder held before, the
\* trees of the run that ended promise to each user exactly what the file does.
THEOREM NothingIsLost == Spec => []NothingLost
  <1>1. ASSUME IInv, create = "done", NEW user \in Users
        PROVE  Allocation(user)
                 = SumFunction([i \in 1..index |-> AmountOf(user, disk[i].tree_nodes)])
    <2>1. PICK d, n, U : d = disk /\ n = index /\ U = {user}
      OBVIOUS
    <2>2. /\ Folder(d) /\ n \in 0..Len(d) /\ Len(d) \in Nat
          /\ Covers(d, n, csv, Len(csv))
          /\ Allocation(user) = Part(U, Nodes(csv))
          /\ Part(U, Nodes(csv)) = SumFunctionOnSet(Shares(U, Nodes(csv)), 1..Len(csv))
      BY <1>1, <2>1, AllCut DEF IInv
    <2>3. Promised(U, d, n) = Allocation(user)
      <3>1. U \in SUBSET Users
        BY <2>1
      <3> QED
        BY <2>2, <3>1 DEF Covers
    <2>4. PICK f : f = [i \in 1..n |-> Part(U, d[i].tree_nodes)]
      OBVIOUS
    <2>5. \A i \in 1..n : AmountOf(user, d[i].tree_nodes) = Part(U, d[i].tree_nodes)
      <3>1. \A i \in 1..n : i \in 1..Len(d)
        BY <2>2
      <3> QED
        BY <2>1, <2>2, <3>1, TreeSums
    <2>6. f = [i \in 1..n |-> AmountOf(user, d[i].tree_nodes)]
      BY <2>4, <2>5
    <2>7. DOMAIN f = 1..n /\ Promised(U, d, n) = SumFunctionOnSet(f, 1..n)
      BY <2>4 DEF Promised
    <2> QED
      BY <2>1, <2>3, <2>6, <2>7 DEF SumFunction
  <1>2. IInv => NothingLost
    BY <1>1 DEF NothingLost
  <1> QED
    BY <1>2, Inductive, PTL

\* What the API has read when it serves.
LEMMA ServingIs ==
    ASSUME IInv, api = "serving"
    PROVE  /\ create = "done"
           /\ Stores(state.tree, TreesRead, Len(TreesRead), 0)
           /\ state.max_total_claim
                = SumFunctionOnSet([k \in 1..Len(TreesRead) |->
                                      TreesRead[k].max_total_claim],
                                   1..Len(TreesRead))
           /\ state.trees = SortVersions(Versions(TreesRead, Len(TreesRead)))
  BY DEF IInv, ReadInv, ApiInv, Settled, Loaded

\* For every user the key-value files and the API give the same tree, amount
\* and proof, wherever the files were cut.
THEOREM KvAndApiAgree == Spec => []KvAgreesWithApi
  <1>1. ASSUME IInv, api = "serving", kv = "done" PROVE KvStore = state.tree
    <2>1. PICK read : read = TreesRead /\ Listed(read)
      BY <1>1, FilesRead DEF IInv
    <2>2. Stores(state.tree, read, Len(read), 0)
      BY <1>1, <2>1, ServingIs
    <2>3. Stores(KvStore, read, Len(read), 0)
      BY <1>1, <2>1 DEF IInv, KvInv
    <2> QED
      BY <2>1, <2>2, <2>3, StoresOne
  <1>2. IInv => KvAgreesWithApi
    BY <1>1 DEF KvAgreesWithApi
  <1> QED
    BY <1>2, Inductive, PTL

\* The API serves everybody in the file and in the trees that are left over,
\* nobody else, and to each the leaf of a tree in the folder and its proof.
THEOREM EverybodyIsServed == Spec => []EverybodyServed
  <1>1. ASSUME IInv, api = "serving"
        PROVE  /\ DOMAIN state.tree = Entitled \cup LeftOver
               /\ \A user \in DOMAIN state.tree :
                     LET info == GetUserInfo(user)
                         nodes == disk[info.merkle_tree + 1].tree_nodes
                     IN  \E i \in DOMAIN nodes :
                             /\ nodes[i] = [claimant |-> user,
                                            amount |-> info.amount,
                                            proof |-> info.proof]
                             /\ info.proof = <<info.merkle_tree, i>>
    <2>1. PICK read, d, m, c, p, map, n :
            /\ read = TreesRead /\ d = disk /\ m = Len(d) /\ c = Copies
            /\ p = Paths[m] /\ map = state.tree /\ n = index
      OBVIOUS
    <2>2. Listed(read) /\ ReadInOrder(read, d, c, m, p)
      BY <1>1, <2>1, FilesRead DEF IInv
    <2>3. Stores(map, read, Len(read), 0) /\ create = "done"
      BY <1>1, <2>1, ServingIs
    <2>4. /\ Folder(d) /\ n \in 0..m /\ m \in Nat
          /\ Len(csv) \in Nat
          /\ Covers(d, n, csv, Len(csv))
      BY <1>1, <2>1, <2>3, AllCut DEF IInv
    <2>5. /\ Len(read) \in Nat /\ DOMAIN read = 1..Len(read)
          /\ \A k \in 1..Len(read) :
                /\ DOMAIN read[k].tree_nodes = 1..Len(read[k].tree_nodes)
                /\ \A i \in DOMAIN read[k].tree_nodes :
                      /\ read[k].tree_nodes[i] \in Leaf
                      /\ read[k].tree_nodes[i].proof = <<read[k].airdrop_version, i>>
      BY ONLY <2>2, ListedIs
    <2>6. ASSUME NEW k \in DOMAIN read
          PROVE  \E i \in 1..m : read[k] = d[i] /\ read[k].airdrop_version = i - 1
      BY <2>2, <2>5 DEF ReadInOrder
    <2>7. ASSUME NEW i \in 1..m PROVE \E k \in DOMAIN read : read[k] = d[i]
      BY <2>2, <2>5 DEF ReadInOrder
    <2>8. DOMAIN map = Holders(d, 1..m)
      <3>1. ASSUME NEW user \in DOMAIN map PROVE user \in Holders(d, 1..m)
        <4>1. PICK k \in DOMAIN read : \E i \in DOMAIN read[k].tree_nodes :
                 Holds(read, user, k, i, Len(read), 0)
          BY <2>3 DEF Stores
        <4>2. PICK i \in DOMAIN read[k].tree_nodes : read[k].tree_nodes[i].claimant = user
          BY <4>1 DEF Holds
        <4>3. PICK q \in 1..m : read[k] = d[q]
          BY <2>6
        <4> QED
          BY <4>2, <4>3 DEF Holders, Claimants
      <3>2. ASSUME NEW user \in Holders(d, 1..m) PROVE user \in DOMAIN map
        <4>1. PICK q \in 1..m : user \in Claimants(d[q].tree_nodes)
          BY DEF Holders
        <4>2. PICK k \in DOMAIN read : read[k] = d[q]
          BY <2>7
        <4>3. PICK i \in DOMAIN read[k].tree_nodes : read[k].tree_nodes[i].claimant = user
          BY <4>1, <4>2 DEF Claimants
        <4>4. Among(k, i, Len(read), 0)
          BY <2>5 DEF Among
        <4> QED
          BY <2>3, <4>3, <4>4 DEF Stores
      <3> QED
        BY <3>1, <3>2
    <2>9. Holders(d, 1..m) = Holders(d, 1..n) \cup Holders(d, (n + 1)..m)
      <3>1. /\ \A i \in 1..m : i \in 1..n \/ i \in (n + 1)..m
            /\ \A i \in 1..n : i \in 1..m
            /\ \A i \in (n + 1)..m : i \in 1..m
        BY <2>4
      <3> QED
        BY <3>1 DEF Holders
    <2>10. Holders(d, 1..n) = Entitled
      <3>1. Holders(d, 1..n) = {csv[i].pubkey : i \in 1..Len(csv)}
        BY <2>4 DEF Covers
      <3>2. DOMAIN csv = 1..Len(csv)
        BY <1>1, ListIs DEF IInv, PlansInv
      <3> QED
        BY <3>1, <3>2 DEF Entitled
    <2>11. Holders(d, (n + 1)..m) = LeftOver
      BY <2>1 DEF Holders, LeftOver, Leftovers
    <2>12. ASSUME NEW user \in DOMAIN map, NEW info, info = map[user],
                  NEW nodes, nodes = d[info.merkle_tree + 1].tree_nodes
           PROVE  \E i \in DOMAIN nodes :
                     /\ nodes[i] = [claimant |-> user,
                                    amount |-> info.amount,
                                    proof |-> info.proof]
                     /\ info.proof = <<info.merkle_tree, i>>
      <3>1. PICK k \in DOMAIN read : \E i \in DOMAIN read[k].tree_nodes :
               /\ Holds(read, user, k, i, Len(read), 0)
               /\ map[user] = Entry(read[k], i)
        BY <2>3 DEF Stores
      <3>2. PICK i \in DOMAIN read[k].tree_nodes :
               /\ Holds(read, user, k, i, Len(read), 0)
               /\ map[user] = Entry(read[k], i)
        BY <3>1
      <3>3. PICK q \in 1..m : read[k] = d[q] /\ read[k].airdrop_version = q - 1
        BY <2>6
      <3>4. PICK leaf : leaf = read[k].tree_nodes[i]
        OBVIOUS
      <3>5. /\ leaf \in Leaf /\ leaf.claimant = user
            /\ leaf.proof = <<q - 1, i>>
        BY <2>5, <3>2, <3>3, <3>4 DEF Holds
      <3>6. /\ info.merkle_tree = q - 1
            /\ info.amount = leaf.amount
            /\ info.proof = leaf.proof
        BY <2>12, <3>2, <3>3, <3>4 DEF Entry
      <3>7. leaf = [claimant |-> user, amount |-> info.amount, proof |-> info.proof]
        BY <3>5, <3>6 DEF Leaf
      <3>8. info.merkle_tree + 1 = q
        BY <2>4, <3>6
      <3>9. nodes[i] = leaf /\ i \in DOMAIN nodes
        BY <2>12, <3>3, <3>4, <3>8
      <3> QED
        BY <3>5, <3>6, <3>7, <3>9
    <2>13. ASSUME NEW user \in DOMAIN state.tree
           PROVE  LET info == GetUserInfo(user)
                      nodes == disk[info.merkle_tree + 1].tree_nodes
                  IN  \E i \in DOMAIN nodes :
                          /\ nodes[i] = [claimant |-> user,
                                         amount |-> info.amount,
                                         proof |-> info.proof]
                          /\ info.proof = <<info.merkle_tree, i>>
      <3>1. PICK info, nodes : /\ info = GetUserInfo(user)
                               /\ nodes = disk[info.merkle_tree + 1].tree_nodes
        OBVIOUS
      <3>2. /\ user \in DOMAIN map /\ info = map[user]
            /\ nodes = d[info.merkle_tree + 1].tree_nodes
        BY ONLY <2>1, <3>1, user \in DOMAIN state.tree DEF GetUserInfo
      <3>3. \E i \in DOMAIN nodes :
               /\ nodes[i] = [claimant |-> user,
                              amount |-> info.amount,
                              proof |-> info.proof]
               /\ info.proof = <<info.merkle_tree, i>>
        BY ONLY <2>12, <3>2
      <3> QED
        BY ONLY <3>1, <3>3
    <2>14. DOMAIN state.tree = Entitled \cup LeftOver
      BY <2>1, <2>8, <2>9, <2>10, <2>11
    <2> QED
      BY ONLY <2>13, <2>14
  <1>2. IInv => EverybodyServed
    BY <1>1 DEF EverybodyServed
  <1> QED
    BY <1>2, Inductive, PTL

\* What all trees of a folder promise: what the first n do, and the others.
LEMMA PromisedParts ==
    ASSUME NEW trees, Folder(trees), NEW m \in Nat, m = Len(trees),
           NEW n \in 0..m,
           NEW others, others = [i \in (n + 1)..m |-> Total(trees[i].tree_nodes)]
    PROVE  /\ Promised(Users, trees, m)
                = Promised(Users, trees, n) + SumFunctionOnSet(others, (n + 1)..m)
           /\ Promised(Users, trees, n) \in Int
           /\ SumFunctionOnSet(others, (n + 1)..m) \in Int
  <1>1. PICK b \in Nat : m = n + b /\ n \in Nat
    <2>1. m - n \in Nat /\ m = n + (m - n) /\ n \in Nat
      OBVIOUS
    <2> QED
      BY <2>1
  <1>2. \A i \in 1..m : /\ Part(Users, trees[i].tree_nodes) \in Int
                        /\ Total(trees[i].tree_nodes) = Part(Users, trees[i].tree_nodes)
    <2>1. ASSUME NEW i \in 1..m
          PROVE  /\ Part(Users, trees[i].tree_nodes) \in Nat
                 /\ Total(trees[i].tree_nodes) = Part(Users, trees[i].tree_nodes)
      BY FolderPromises, TreeSums
    <2> QED
      BY <2>1
  <1>3. PICK f, f2, g : /\ f = [i \in 1..m |-> Part(Users, trees[i].tree_nodes)]
                        /\ f2 = [i \in 1..n |-> Part(Users, trees[i].tree_nodes)]
                        /\ g = [i \in 1..b |-> Part(Users, trees[n + i].tree_nodes)]
    OBVIOUS
  <1>4. /\ \A i \in 1..(n + b) : f[i] \in Int
        /\ \A i \in 1..n : f2[i] = f[i] /\ f[i] \in Int /\ f2[i] \in Int
        /\ \A i \in 1..b : g[i] = f[n + i] /\ g[i] \in Int
    <2>1. /\ \A i \in 1..n : i \in 1..m
          /\ \A i \in 1..b : n + i \in 1..m
      BY <1>1
    <2>2. \A i \in 1..m : f[i] \in Int /\ f[i] = Part(Users, trees[i].tree_nodes)
      BY <1>2, <1>3
    <2>3. \A i \in 1..n : f2[i] = f[i]
      BY <1>3, <2>1, <2>2
    <2>4. \A i \in 1..b : g[i] = f[n + i]
      BY <1>3, <2>1, <2>2
    <2> QED
      BY <1>1, <2>1, <2>2, <2>3, <2>4
  <1>5. SumFunctionOnSet(f, 1..(n + b))
          = SumFunctionOnSet(f, 1..n) + SumFunctionOnSet(g, 1..b)
    BY ONLY <1>1, <1>4, SumSplit
  <1>6. IsFiniteSet(1..n) /\ IsFiniteSet(1..b)
    BY ONLY <1>1, FS_Interval, 1 \in Int
  <1>7. SumFunctionOnSet(f2, 1..n) = SumFunctionOnSet(f, 1..n)
    BY ONLY <1>4, <1>6, SumAgrees
  <1>8. /\ SumFunctionOnSet(f2, 1..n) \in Int
        /\ SumFunctionOnSet(g, 1..b) \in Int
    <2>1. SumFunctionOnSet(f2, 1..n) \in Int
      BY ONLY <1>4, <1>6, SumType
    <2>2. SumFunctionOnSet(g, 1..b) \in Int
      BY ONLY <1>4, <1>6, SumType
    <2> QED
      BY <2>1, <2>2
  <1>9. SumFunctionOnSet(others, (n + 1)..m) = SumFunctionOnSet(g, 1..b)
    <2>1. PICK S, R, shift : /\ S = 1..b /\ R = (n + 1)..m
                             /\ shift = [i \in 1..b |-> n + i]
      OBVIOUS
    <2>2. \A i \in S : shift[i] = n + i /\ n + i \in R
      BY <1>1, <2>1
    <2>3. shift \in [S -> R]
      BY <2>1, <2>2
    <2>4. \A x, y \in S : shift[x] = shift[y] => x = y
      BY <1>1, <2>1, <2>2
    <2>5. ASSUME NEW y \in R PROVE \E x \in S : y = shift[x]
      <3>1. y - n \in S /\ y = n + (y - n)
        BY <1>1, <2>1
      <3>2. y = shift[y - n]
        BY <2>2, <3>1
      <3> QED
        BY <3>1, <3>2
    <2>6. \A x \in S : others[shift[x]] = g[x]
      <3>1. \A x \in S : n + x \in 1..m /\ n + x \in (n + 1)..m
        BY <1>1, <2>1
      <3>2. \A x \in S : others[n + x] = Total(trees[n + x].tree_nodes)
        BY <3>1
      <3>3. \A x \in S : g[x] = Part(Users, trees[n + x].tree_nodes)
        BY <1>3, <2>1
      <3> QED
        BY <1>2, <2>2, <3>1, <3>2, <3>3
    <2>7. \A x \in S : g[x] \in Int
      BY <1>4, <2>1
    <2>8. IsFiniteSet(S)
      BY <1>6, <2>1
    <2>9. SumFunctionOnSet(others, R) = SumFunctionOnSet(g, S)
      <3>1. Renames(shift, g, S, others, R)
        BY <2>3, <2>4, <2>5, <2>6, <2>7, <2>8 DEF Renames
      <3> QED
        BY ONLY <3>1, SumRenamed
    <2> QED
      BY <2>1, <2>9
  <1>10. /\ Promised(Users, trees, m) = SumFunctionOnSet(f, 1..(n + b))
         /\ Promised(Users, trees, n) = SumFunctionOnSet(f2, 1..n)
    BY <1>1, <1>3 DEF Promised
  <1> QED
    BY ONLY <1>5, <1>7, <1>8, <1>9, <1>10

\* The totals that the API reports are those of the file and of the trees left
\* over, twice that if each tree lies there in both forms; and it lists the
\* trees by version, although it read them by name.
THEOREM TotalsAreReported == Spec => []TotalsReported
  <1>1. ASSUME IInv, api = "serving"
        PROVE  state.max_total_claim
                 = Copies * (Total(Nodes(csv))
                               + SumFunction([i \in Leftovers |->
                                                Total(disk[i].tree_nodes)]))
    <2>1. PICK read, d, m, c, n, others :
            /\ read = TreesRead /\ d = disk /\ m = Len(d) /\ c = Copies
            /\ n = index
            /\ others = [i \in (n + 1)..m |-> Total(d[i].tree_nodes)]
      OBVIOUS
    <2>2. c \in {1, 2} /\ read = Reading(d, c)
      BY <1>1, <2>1, FilesRead DEF IInv
    <2>3. /\ create = "done"
          /\ state.max_total_claim
               = SumFunctionOnSet([k \in 1..Len(read) |-> read[k].max_total_claim],
                                  1..Len(read))
      BY <1>1, <2>1, ServingIs
    <2>4. /\ Folder(d) /\ n \in 0..m /\ m \in Nat
          /\ Covers(d, n, csv, Len(csv))
          /\ Total(Nodes(csv)) = Part(Users, Nodes(csv))
          /\ Part(Users, Nodes(csv))
               = SumFunctionOnSet(Shares(Users, Nodes(csv)), 1..Len(csv))
      BY <1>1, <2>1, <2>3, AllCut DEF IInv
    <2>5. state.max_total_claim = c * Promised(Users, d, m)
      BY <2>1, <2>2, <2>3, <2>4, ReadingTotal
    <2>6. Promised(Users, d, m)
            = Promised(Users, d, n) + SumFunctionOnSet(others, (n + 1)..m)
      <3>1. m = Len(d) /\ others = [i \in (n + 1)..m |-> Total(d[i].tree_nodes)]
        BY <2>1
      <3>2. Folder(d) /\ n \in 0..m /\ m \in Nat
        BY <2>4
      <3> QED
        BY ONLY <3>1, <3>2, PromisedParts
    <2>7. Promised(Users, d, n) = Total(Nodes(csv))
      <3>1. Users \in SUBSET Users
        OBVIOUS
      <3> QED
        BY <2>4, <3>1 DEF Covers
    <2>8. SumFunction([i \in Leftovers |-> Total(disk[i].tree_nodes)])
            = SumFunctionOnSet(others, (n + 1)..m)
      <3>1. others = [i \in Leftovers |-> Total(disk[i].tree_nodes)]
        BY <2>1 DEF Leftovers
      <3>2. DOMAIN others = (n + 1)..m
        BY <2>1
      <3> QED
        BY <3>1, <3>2 DEF SumFunction
    <2> QED
      BY ONLY <2>1, <2>5, <2>6, <2>7, <2>8
  <1>2. ASSUME IInv, api = "serving"
        PROVE  state.trees = [i \in 1..(Copies * Len(disk)) |-> (i - 1) \div Copies]
    <2>1. PICK read, d, m, c, p, list :
            /\ read = TreesRead /\ d = disk /\ m = Len(d) /\ c = Copies
            /\ p = Paths[m] /\ list = Versions(read, Len(read))
      OBVIOUS
    <2>2. c \in {1, 2} /\ ReadInOrder(read, d, c, m, p)
      BY <1>2, <2>1, FilesRead DEF IInv
    <2>3. state.trees = SortVersions(list)
      BY <1>2, <2>1, ServingIs
    <2>4. /\ m \in Nat /\ Permutes(p, m) /\ Len(read) = c * m /\ c * m \in Nat
          /\ \A k \in 1..(c * m) : /\ p[Place(k, c)] \in 1..m
                                   /\ read[k].airdrop_version = p[Place(k, c)] - 1
      BY ONLY <2>2 DEF ReadInOrder
    <2>5. PICK len \in Nat : len = c * m
      BY <2>4
    <2>6. list = [k \in 1..len |-> read[k].airdrop_version]
      BY <2>1, <2>4, <2>5 DEF Versions
    <2>7. \A k \in 1..len : /\ p[Place(k, c)] - 1 \in Int
                            /\ list[k] = p[Place(k, c)] - 1
      BY <2>4, <2>5, <2>6
    <2>8. list \in Seq(Int) /\ Len(list) = len
      <3>1. list \in [1..len -> Int]
        BY <2>6, <2>7
      <3> QED
        BY ONLY <3>1, ListOf, len \in Nat
    <2>9. SortVersions(list) = [i \in 1..(c * m) |-> (i - 1) \div c]
      <3>1. Len(list) = c * m /\ \A k \in 1..(c * m) : list[k] = p[Place(k, c)] - 1
        BY ONLY <2>5, <2>7, <2>8
      <3> QED
        <4>1. AsRead(list, c, m, p)
          BY ONLY <2>8, <3>1 DEF AsRead
        <4> QED
          BY ONLY <2>2, <2>4, <4>1, VersionsSorted
    <2> QED
      BY <2>1, <2>3, <2>9
  <1>3. IInv => TotalsReported
    BY <1>1, <1>2 DEF TotalsReported
  <1> QED
    BY <1>3, Inductive, PTL

=============================================================================
