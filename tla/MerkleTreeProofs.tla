-------------------------- MODULE MerkleTreeProofs --------------------------
(***************************************************************************)
(* Merkle proofs for trees of every size and every order of the digests:   *)
(* each item's proof verifies, it is the only one that does, and nothing   *)
(* but an item has one.                                                    *)
(***************************************************************************)
EXTENDS MerkleTree, ArithmeticLemmas, TLAPS

-----------------------------------------------------------------------------
(* The levels of a tree with n leaves. *)

\* The lengths of the levels, one from the other.
LEMMA LevelLens ==
    ASSUME NEW n \in Nat
    PROVE  /\ LevelLen(n, 0) = n
           /\ \A k \in Nat : /\ LevelLen(n, k) \in Nat
                             /\ LevelLen(n, k + 1) = NextLevelLen(LevelLen(n, k))
  <1> DEFINE Is(s) == s = [k \in Nat |->
                             IF k = 0 THEN n ELSE NextLevelLen(s[k - 1])]
             len == CHOOSE s : Is(s)
             F == [k \in Nat |-> [x \in Nat |-> NextLevelLen(x)]]
  <1>1. F \in [Nat -> [Nat -> Nat]]
    BY DEF NextLevelLen
  <1>2. PICK s : FollowsOn(s, Nat, n, F)
    <2> HIDE DEF F
    <2>1. n \in Nat
      OBVIOUS
    <2> QED
      BY <1>1, <2>1, NatRecursion
  <1>3. \A k \in Nat \ {0} : s[k] = NextLevelLen(s[k - 1])
    <2> SUFFICES ASSUME NEW k \in Nat \ {0} PROVE s[k] = NextLevelLen(s[k - 1])
      OBVIOUS
    <2>1. k - 1 \in Nat /\ s[k - 1] \in Nat
      BY <1>2 DEF FollowsOn
    <2> QED
      BY <1>2, <2>1 DEF FollowsOn
  <1> HIDE DEF F
  <1>4. Is(s)
    <2> HIDE DEF NextLevelLen
    <2> QED
      BY <1>2, <1>3 DEF FollowsOn
  <1>5. Is(len)
    <2> HIDE DEF Is
    <2> QED
      BY <1>4
  <1>6. \A k \in Nat : LevelLen(n, k) = len[k]
    BY DEF LevelLen
  <1> HIDE DEF len
  <1>7. len[0] = n /\ \A k \in Nat : len[k + 1] = NextLevelLen(len[k])
    <2>1. len[0] = n
      BY <1>5
    <2>2. ASSUME NEW k \in Nat PROVE len[k + 1] = NextLevelLen(len[k])
      <3>1. k + 1 \in Nat /\ k + 1 # 0 /\ (k + 1) - 1 = k
        OBVIOUS
      <3> QED
        BY <1>5, <3>1
    <2> QED
      BY <2>1, <2>2
  <1>8. \A k \in Nat : len[k] \in Nat
    <2> DEFINE N == {k \in Nat : len[k] \in Nat}
    <2>1. 0 \in N
      BY <1>7
    <2>2. ASSUME NEW k \in Nat, k \in N PROVE k + 1 \in N
      <3>1. len[k] \in Nat /\ len[k + 1] = NextLevelLen(len[k])
        BY <1>7, <2>2
      <3>2. len[k + 1] \in Nat
        BY <3>1 DEF NextLevelLen
      <3> QED
        BY <3>2
    <2> HIDE DEF N
    <2>3. \A k \in Nat : k \in N
      BY <2>1, <2>2, SetInduction
    <2> QED
      BY <2>3 DEF N
  <1> QED
    BY <1>6, <1>7, <1>8

\* Where the levels start, one from the other.
LEMMA LevelStarts ==
    ASSUME NEW n \in Nat
    PROVE  /\ LevelStart(n, 0) = 0
           /\ \A k \in Nat : /\ LevelStart(n, k) \in Nat
                             /\ LevelStart(n, k + 1)
                                  = LevelStart(n, k) + LevelLen(n, k)
  <1> DEFINE Is(s) == s = [k \in Nat |->
                             IF k = 0 THEN 0 ELSE s[k - 1] + LevelLen(n, k - 1)]
             start == CHOOSE s : Is(s)
             F == [k \in Nat |-> [x \in Nat |->
                     IF k = 0 THEN x ELSE x + LevelLen(n, k - 1)]]
  <1>0. \A k \in Nat \ {0} : k - 1 \in Nat /\ LevelLen(n, k - 1) \in Nat
    BY LevelLens
  <1>1. F \in [Nat -> [Nat -> Nat]]
    BY <1>0
  <1>2. PICK s : FollowsOn(s, Nat, 0, F)
    <2> HIDE DEF F
    <2>1. 0 \in Nat
      OBVIOUS
    <2> QED
      BY <1>1, <2>1, NatRecursion
  <1>3. \A k \in Nat \ {0} : s[k] = s[k - 1] + LevelLen(n, k - 1)
    <2> SUFFICES ASSUME NEW k \in Nat \ {0}
                 PROVE  s[k] = s[k - 1] + LevelLen(n, k - 1)
      OBVIOUS
    <2>1. k - 1 \in Nat /\ s[k - 1] \in Nat
      BY <1>2 DEF FollowsOn
    <2> QED
      BY <1>2, <2>1 DEF FollowsOn
  <1> HIDE DEF F
  <1>4. Is(s)
    BY <1>2, <1>3 DEF FollowsOn
  <1>5. Is(start)
    <2> HIDE DEF Is
    <2> QED
      BY <1>4
  <1>6. \A k \in Nat : LevelStart(n, k) = start[k]
    BY DEF LevelStart
  <1> HIDE DEF start
  <1>7. /\ start[0] = 0
        /\ \A k \in Nat : start[k + 1] = start[k] + LevelLen(n, k)
    <2>1. start[0] = 0
      BY <1>5
    <2>2. ASSUME NEW k \in Nat PROVE start[k + 1] = start[k] + LevelLen(n, k)
      <3>1. k + 1 \in Nat /\ k + 1 # 0 /\ (k + 1) - 1 = k
        OBVIOUS
      <3> QED
        BY <1>5, <3>1
    <2> QED
      BY <2>1, <2>2
  <1>8. \A k \in Nat : start[k] \in Nat
    <2> DEFINE N == {k \in Nat : start[k] \in Nat}
    <2>1. 0 \in N
      BY <1>7
    <2>2. ASSUME NEW k \in Nat, k \in N PROVE k + 1 \in N
      <3>1. start[k] \in Nat /\ LevelLen(n, k) \in Nat
        BY <2>2, LevelLens
      <3>2. start[k + 1] = start[k] + LevelLen(n, k)
        BY <1>7
      <3> QED
        BY <3>1, <3>2
    <2> HIDE DEF N
    <2>3. \A k \in Nat : k \in N
      BY <2>1, <2>2, SetInduction
    <2> QED
      BY <2>3 DEF N
  <1> QED
    BY <1>6, <1>7, <1>8

\* Halving, rounded up.
LEMMA Halving ==
    ASSUME NEW len \in Nat
    PROVE  /\ NextLevelLen(len) \in Nat
           /\ len <= 1 => NextLevelLen(len) = 0
           /\ len > 1 => /\ NextLevelLen(len) > 0
                         /\ NextLevelLen(len) < len
                         /\ 2 * NextLevelLen(len) >= len
                         /\ 2 * NextLevelLen(len) <= len + 1
  <1>1. CASE len = 0
    BY <1>1 DEF NextLevelLen
  <1>2. CASE len = 1
    BY <1>2 DEF NextLevelLen
  <1>3. CASE len > 1
    BY <1>3 DEF NextLevelLen
  <1> QED
    BY <1>1, <1>2, <1>3

\* The root's level: the levels below it have more than one node, it has one,
\* and those above it none.
RootLevel(n, h) ==
    /\ h \in Nat
    /\ h < n
    /\ \A k \in Nat : k < h => LevelLen(n, k) > 1
    /\ LevelLen(n, h) = 1
    /\ \A k \in Nat : k > h => LevelLen(n, k) = 0

\* Every tree has a root.
LEMMA RootLevelExists ==
    ASSUME NEW n \in Nat \ {0}
    PROVE  \E h : RootLevel(n, h)
  <1>1. \A k \in Nat : k \in {j \in Nat : j < n => LevelLen(n, j) <= n - j}
    <2> DEFINE N == {j \in Nat : j < n => LevelLen(n, j) <= n - j}
    <2>1. 0 \in N
      BY LevelLens
    <2>2. ASSUME NEW k \in Nat, k \in N PROVE k + 1 \in N
      <3> SUFFICES ASSUME k + 1 < n PROVE LevelLen(n, k + 1) <= n - (k + 1)
        OBVIOUS
      <3>1. LevelLen(n, k) \in Nat /\ LevelLen(n, k) <= n - k
        BY <2>2, LevelLens
      <3>2. LevelLen(n, k + 1) = NextLevelLen(LevelLen(n, k))
        BY LevelLens
      <3>3. /\ NextLevelLen(LevelLen(n, k)) \in Nat
            /\ \/ NextLevelLen(LevelLen(n, k)) = 0
               \/ NextLevelLen(LevelLen(n, k)) < LevelLen(n, k)
        BY <3>1, Halving
      <3> QED
        BY <3>1, <3>2, <3>3
    <2> HIDE DEF N
    <2>3. \A k \in Nat : k \in N
      BY <2>1, <2>2, SetInduction
    <2> QED
      BY <2>3 DEF N
  <1> DEFINE T == {k \in Nat : LevelLen(n, k) <= 1}
  <1>2. n - 1 \in T
    <2>1. n - 1 \in Nat /\ n - 1 < n /\ n - (n - 1) = 1
      OBVIOUS
    <2> QED
      BY <1>1, <2>1
  <1>3. PICK h \in T : \A k \in T : h <= k
    <2>1. T \in SUBSET Nat /\ T # {}
      BY <1>2
    <2> HIDE DEF T
    <2> QED
      BY <2>1, LeastNumber
  <1>4. h \in Nat /\ h < n
    BY <1>2, <1>3 DEF FollowsOn
  <1>5. \A k \in Nat : k < h => LevelLen(n, k) > 1
    BY <1>3, LevelLens
  <1>6. LevelLen(n, h) = 1
    <2>1. LevelLen(n, h) \in Nat /\ LevelLen(n, h) <= 1
      BY <1>3, LevelLens
    <2>2. CASE h = 0
      BY <2>1, <2>2, LevelLens
    <2>3. CASE h # 0
      <3>1. h - 1 \in Nat /\ h - 1 < h /\ (h - 1) + 1 = h
        BY <1>4, <2>3
      <3>2. LevelLen(n, h - 1) \in Nat /\ LevelLen(n, h - 1) > 1
        BY <1>5, <3>1, LevelLens
      <3>3. LevelLen(n, h) = NextLevelLen(LevelLen(n, h - 1))
        BY <3>1, LevelLens
      <3>4. LevelLen(n, h) > 0
        BY <3>2, <3>3, Halving
      <3> QED
        BY <2>1, <3>4
    <2> QED
      BY <2>2, <2>3
  <1>7. \A k \in Nat : k > h => LevelLen(n, k) = 0
    <2> DEFINE N == {k \in Nat : k > h => LevelLen(n, k) = 0}
    <2>1. 0 \in N
      BY <1>4
    <2>2. ASSUME NEW k \in Nat, k \in N PROVE k + 1 \in N
      <3> SUFFICES ASSUME k + 1 > h PROVE LevelLen(n, k + 1) = 0
        OBVIOUS
      <3>1. LevelLen(n, k) \in Nat
        BY LevelLens
      <3>2. k = h \/ k > h
        BY <1>4
      <3>3. LevelLen(n, k) <= 1
        BY <1>6, <2>2, <3>1, <3>2
      <3> QED
        BY <3>1, <3>3, LevelLens, Halving
    <2> HIDE DEF N
    <2>3. \A k \in Nat : k \in N
      BY <2>1, <2>2, SetInduction
    <2> QED
      BY <2>3 DEF N
  <1> QED
    BY <1>4, <1>5, <1>6, <1>7 DEF RootLevel

\* There is one root only, and find_path stops below it.
LEMMA RootLevelUnique ==
    ASSUME NEW n \in Nat \ {0}, NEW h, RootLevel(n, h),
           NEW k \in Nat, LevelLen(n, k) = 1
    PROVE  k = h
  BY DEF RootLevel

LEMMA HeightIsRootLevel ==
    ASSUME Len(items) \in 1..MaxLeaves
    PROVE  RootLevel(Len(items), Height)
  <1> DEFINE n == Len(items)
  <1>0. n \in Nat \ {0} /\ n <= MaxLeaves
    BY LeavesAssumption
  <1> HIDE DEF n
  <1>1. PICK h : RootLevel(n, h)
    BY <1>0, RootLevelExists
  <1> DEFINE Q(j) == /\ LevelLen(n, j) = 1
                     /\ \A k \in 0..(j - 1) : LevelLen(n, k) # 1
  <1>2. h \in Levels /\ Q(h)
    <2>1. h \in Nat /\ h < n /\ LevelLen(n, h) = 1
      BY <1>1 DEF RootLevel
    <2>2. \A k \in 0..(h - 1) : k \in Nat /\ k < h
      BY <2>1
    <2>3. \A k \in 0..(h - 1) : LevelLen(n, k) # 1
      BY <1>1, <2>2 DEF RootLevel
    <2> QED
      BY <1>0, <2>1, <2>3, LeavesAssumption DEF Levels
  <1>3. Height = CHOOSE j \in Levels : Q(j)
    BY DEF Height, n
  <1> HIDE DEF Q
  <1>4. Height \in Levels /\ Q(Height)
    BY <1>2, <1>3
  <1>5. Height = h
    <2>1. Height \in Nat /\ LevelLen(n, Height) = 1
      BY <1>4, LeavesAssumption DEF Levels, Q
    <2> QED
      BY <1>0, <1>1, <2>1, RootLevelUnique
  <1> QED
    BY <1>1, <1>5 DEF n

\* The levels follow each other in the vector.
LEMMA StartsMonotone ==
    ASSUME NEW n \in Nat, NEW j \in Nat
    PROVE  \A k \in Nat : k >= j => LevelStart(n, k) >= LevelStart(n, j)
  <1> DEFINE N == {k \in Nat : k >= j => LevelStart(n, k) >= LevelStart(n, j)}
  <1>1. 0 \in N
    BY LevelStarts
  <1>2. ASSUME NEW k \in Nat, k \in N PROVE k + 1 \in N
    <2>1. /\ LevelStart(n, k) \in Nat /\ LevelLen(n, k) \in Nat
          /\ LevelStart(n, j) \in Nat
          /\ LevelStart(n, k + 1) = LevelStart(n, k) + LevelLen(n, k)
      BY LevelStarts, LevelLens
    <2>2. CASE k >= j
      BY <1>2, <2>1, <2>2
    <2>3. CASE k + 1 = j
      BY <2>1, <2>3
    <2>4. k >= j \/ k + 1 = j \/ ~(k + 1 >= j)
      OBVIOUS
    <2> QED
      BY <2>2, <2>3, <2>4
  <1> HIDE DEF N
  <1>3. \A k \in Nat : k \in N
    BY <1>1, <1>2, SetInduction
  <1> QED
    BY <1>3 DEF N

\* The root is the last node, and a tree of n leaves has less than 3 n nodes.
LEMMA NodeCount ==
    ASSUME NEW n \in Nat \ {0}, NEW h, RootLevel(n, h)
    PROVE  /\ \A k \in Nat : k > h => LevelStart(n, k) = LevelStart(n, h) + 1
           /\ LevelStart(n, h) + 1 < 3 * n
  <1>0. h \in Nat /\ h < n
    BY DEF RootLevel
  <1>1. \A k \in Nat : k > h => LevelStart(n, k) = LevelStart(n, h) + 1
    <2> DEFINE N == {k \in Nat : k > h => LevelStart(n, k) = LevelStart(n, h) + 1}
    <2>1. 0 \in N
      BY <1>0
    <2>2. ASSUME NEW k \in Nat, k \in N PROVE k + 1 \in N
      <3>1. /\ LevelStart(n, k) \in Nat /\ LevelStart(n, h) \in Nat
            /\ LevelStart(n, k + 1) = LevelStart(n, k) + LevelLen(n, k)
        BY <1>0, LevelStarts
      <3>2. CASE k = h
        BY <3>1, <3>2 DEF RootLevel
      <3>3. CASE k > h
        <4>1. LevelLen(n, k) = 0
          BY <3>3 DEF RootLevel
        <4> QED
          BY <2>2, <3>1, <3>3, <4>1
      <3>4. k = h \/ k > h \/ ~(k + 1 > h)
        BY <1>0
      <3> QED
        BY <3>2, <3>3, <3>4
    <2> HIDE DEF N
    <2>3. \A k \in Nat : k \in N
      BY <2>1, <2>2, SetInduction
    <2> QED
      BY <2>3 DEF N
  <1>2. LevelStart(n, h) + 1 < 3 * n
    <2> DEFINE N == {k \in Nat : k <= h =>
                       LevelStart(n, k) + 2 * LevelLen(n, k) <= 2 * n + k}
    <2>1. 0 \in N
      BY LevelStarts, LevelLens
    <2>2. ASSUME NEW k \in Nat, k \in N PROVE k + 1 \in N
      <3> SUFFICES ASSUME k + 1 <= h
                   PROVE  LevelStart(n, k + 1) + 2 * LevelLen(n, k + 1)
                            <= 2 * n + (k + 1)
        OBVIOUS
      <3>1. LevelStart(n, k) + 2 * LevelLen(n, k) <= 2 * n + k
        BY <1>0, <2>2
      <3>5. k < h
        BY <1>0
      <3>6. LevelLen(n, k) > 1
        BY <3>5 DEF RootLevel
      <3>2. LevelLen(n, k) \in Nat /\ LevelLen(n, k) > 1
        BY <3>6, LevelLens
      <3>3. /\ LevelStart(n, k) \in Nat
            /\ LevelStart(n, k + 1) = LevelStart(n, k) + LevelLen(n, k)
        BY LevelStarts
      <3>4. /\ LevelLen(n, k + 1) \in Nat
            /\ 2 * LevelLen(n, k + 1) <= LevelLen(n, k) + 1
        BY <3>2, LevelLens, Halving
      <3> QED
        BY <3>1, <3>2, <3>3, <3>4
    <2> HIDE DEF N
    <2>3. \A k \in Nat : k \in N
      BY <2>1, <2>2, SetInduction
    <2>4. LevelStart(n, h) + 2 * 1 <= 2 * n + h
      BY <1>0, <2>3 DEF N, RootLevel
    <2>5. LevelStart(n, h) \in Nat
      BY <1>0, LevelStarts
    <2> QED
      BY <1>0, <2>4, <2>5
  <1> QED
    BY <1>1, <1>2

\* A place of the tree: node number i of a level.
Place(n, level, i) == level \in Nat /\ i \in Nat /\ i < LevelLen(n, level)

\* Different places have different numbers in the vector.
LEMMA PlacesDiffer ==
    ASSUME NEW n \in Nat, NEW k, NEW i, Place(n, k, i), NEW l, NEW j,
           Place(n, l, j), LevelStart(n, k) + i = LevelStart(n, l) + j
    PROVE  k = l /\ i = j
  <1>1. ASSUME NEW a, NEW x, Place(n, a, x), NEW b, NEW y, Place(n, b, y), a < b
        PROVE  LevelStart(n, a) + x < LevelStart(n, b) + y
    <2>1. a \in Nat /\ b \in Nat /\ x \in Nat /\ y \in Nat
      BY <1>1 DEF Place
    <2>2. LevelStart(n, b) >= LevelStart(n, a + 1)
      BY <1>1, <2>1, StartsMonotone
    <2>3. /\ LevelStart(n, a + 1) = LevelStart(n, a) + LevelLen(n, a)
          /\ LevelStart(n, a) \in Nat /\ LevelStart(n, b) \in Nat
          /\ LevelLen(n, a) \in Nat /\ x < LevelLen(n, a)
      BY <1>1, <2>1, LevelStarts, LevelLens DEF Place
    <2> QED
      BY <2>1, <2>2, <2>3
  <1>2. k \in Nat /\ l \in Nat /\ i \in Nat /\ j \in Nat
    BY DEF Place
  <1>3. LevelStart(n, k) \in Nat /\ LevelStart(n, l) \in Nat
    BY <1>2, LevelStarts
  <1>4. ~(k < l)
    BY <1>1, <1>2, <1>3
  <1>5. ~(l < k)
    BY <1>1, <1>2, <1>3
  <1>6. k = l
    BY <1>2, <1>4, <1>5
  <1> QED
    BY <1>2, <1>3, <1>6

\* Every number of the vector is one of a place.
LEMMA PlaceExists ==
    ASSUME NEW n \in Nat, NEW m \in Nat, NEW x \in Nat, x < LevelStart(n, m)
    PROVE  \E level \in Nat, i \in Nat :
              Place(n, level, i) /\ x = LevelStart(n, level) + i
  <1> DEFINE T == {k \in Nat : x < LevelStart(n, k)}
  <1>1. PICK k \in T : \A j \in T : k <= j
    <2>1. T \in SUBSET Nat /\ T # {}
      OBVIOUS
    <2> HIDE DEF T
    <2> QED
      BY <2>1, LeastNumber
  <1>2. k \in Nat /\ k # 0
    BY <1>1, LevelStarts
  <1> DEFINE level == k - 1
             i == x - LevelStart(n, level)
  <1>3. level \in Nat /\ level + 1 = k /\ level < k
    BY <1>2
  <1>4. LevelStart(n, level) <= x
    BY <1>1, <1>3, LevelStarts
  <1>5. /\ LevelStart(n, k) = LevelStart(n, level) + LevelLen(n, level)
        /\ LevelStart(n, level) \in Nat /\ LevelLen(n, level) \in Nat
    BY <1>3, LevelStarts, LevelLens
  <1>6. x < LevelStart(n, k)
    BY <1>1
  <1> HIDE DEF level
  <1>7. i \in Nat /\ i < LevelLen(n, level) /\ x = LevelStart(n, level) + i
    BY <1>4, <1>5, <1>6
  <1> QED
    BY <1>3, <1>7 DEF Place

-----------------------------------------------------------------------------
(* Children, siblings and parents. *)

Sibling(n, level, i) ==
    IF i % 2 = 1
    THEN i - 1
    ELSE IF i + 1 < LevelLen(n, level) THEN i + 1 ELSE i

\* The children of a place are places of the level below.
LEMMA Children ==
    ASSUME NEW n \in Nat, NEW level, NEW i, Place(n, level + 1, i), level \in Nat
    PROVE  /\ Place(n, level, 2 * i)
           /\ Place(n, level, Sibling(n, level, 2 * i))
           /\ Sibling(n, level, 2 * i) \in {2 * i, 2 * i + 1}
  <1>1. i \in Nat /\ i < LevelLen(n, level + 1)
    BY DEF Place
  <1>2. /\ LevelLen(n, level) \in Nat
        /\ LevelLen(n, level + 1) = NextLevelLen(LevelLen(n, level))
    BY LevelLens
  <1> DEFINE len == LevelLen(n, level)
             up == NextLevelLen(len)
  <1>3. up \in Nat /\ up > 0
    BY <1>1, <1>2, Halving
  <1>4. len > 1 /\ 2 * up <= len + 1
    BY <1>2, <1>3, Halving
  <1>5. i < up
    BY <1>1, <1>2
  <1> HIDE DEF up
  <1>6. 2 * i \in Nat /\ (2 * i) % 2 = 0
    BY <1>1
  <1>7. 2 * i < len
    BY <1>1, <1>2, <1>3, <1>4, <1>5
  <1>8. Sibling(n, level, 2 * i) = IF 2 * i + 1 < len THEN 2 * i + 1 ELSE 2 * i
    BY <1>6 DEF Sibling
  <1> QED
    BY <1>1, <1>2, <1>6, <1>7, <1>8 DEF Place

\* Below the root, a node and its sibling are the children of one place.
LEMMA Parents ==
    ASSUME NEW n \in Nat, NEW level, NEW i, Place(n, level, i),
           LevelLen(n, level) > 1
    PROVE  /\ Place(n, level + 1, i \div 2)
           /\ Place(n, level, Sibling(n, level, i))
           /\ \/ /\ i = 2 * (i \div 2)
                 /\ Sibling(n, level, i) = Sibling(n, level, 2 * (i \div 2))
              \/ /\ i = Sibling(n, level, 2 * (i \div 2))
                 /\ Sibling(n, level, i) = 2 * (i \div 2)
  <1>1. i \in Nat /\ level \in Nat /\ i < LevelLen(n, level)
    BY DEF Place
  <1>2. /\ LevelLen(n, level) \in Nat
        /\ LevelLen(n, level + 1) = NextLevelLen(LevelLen(n, level))
    BY <1>1, LevelLens
  <1> DEFINE len == LevelLen(n, level)
             up == NextLevelLen(len)
             j == i \div 2
  <1>3. up \in Nat /\ 2 * up >= len
    BY <1>2, Halving
  <1>4. j \in Nat /\ (i = 2 * j \/ i = 2 * j + 1)
    BY <1>1
  <1> HIDE DEF up, j
  <1>5. j < up
    BY <1>1, <1>2, <1>3, <1>4
  <1>6. Place(n, level + 1, j)
    BY <1>1, <1>2, <1>4, <1>5 DEF Place, up
  <1>7. CASE i = 2 * j
    <2>1. i % 2 = 0
      BY <1>4, <1>7
    <2> QED
      BY <1>1, <1>2, <1>6, <1>7, <2>1 DEF Place, Sibling, j
  <1>8. CASE i = 2 * j + 1
    <2>1. i % 2 = 1 /\ (2 * j) % 2 = 0 /\ 2 * j \in Nat
      BY <1>4, <1>8
    <2>2. Sibling(n, level, i) = 2 * j
      BY <1>4, <1>8, <2>1 DEF Sibling
    <2>3. Sibling(n, level, 2 * j) = i
      BY <1>1, <1>2, <1>8, <2>1 DEF Sibling
    <2>4. Place(n, level, 2 * j)
      BY <1>1, <1>2, <1>8, <2>1 DEF Place
    <2> QED
      BY <1>6, <2>2, <2>3, <2>4 DEF j
  <1> QED
    BY <1>4, <1>7, <1>8

\* A place lies in front of the places of the levels above it.
LEMMA LowerFirst ==
    ASSUME NEW n \in Nat, NEW level \in Nat, NEW i, NEW j \in Nat,
           Place(n, level, i)
    PROVE  LevelStart(n, level) + i < LevelStart(n, level + 1) + j
  <1>1. /\ LevelStart(n, level + 1) = LevelStart(n, level) + LevelLen(n, level)
        /\ LevelStart(n, level) \in Nat /\ LevelLen(n, level) \in Nat
    BY LevelStarts, LevelLens
  <1>2. i \in Nat /\ i < LevelLen(n, level)
    BY DEF Place
  <1> QED
    BY <1>1, <1>2

-----------------------------------------------------------------------------
(* What has been hashed. *)

At(n, ns, level, i) == ns[LevelStart(n, level) + i + 1]

SortedPair(l, r) ==
    IF l <= r THEN IntermediatePreimage(l, r) ELSE IntermediatePreimage(r, l)

\* What is hashed for a place: its item, or its two children in order.
PreimageAt(n, ns, level, i) ==
    IF level = 0
    THEN LeafPreimage(<<i + 1>>)
    ELSE SortedPair(At(n, ns, level - 1, 2 * i),
                    At(n, ns, level - 1, Sibling(n, level - 1, 2 * i)))

Pushed(n, ns, level, i) ==
    Place(n, level, i) /\ LevelStart(n, level) + i < Len(ns)

\* The digests are numbers between -Len(ns) and Len(ns), all different; the
\* oracle was asked for the places pushed so far and for nothing else.
Committed(n, ns, hs) ==
    /\ ns \in Seq(Int)
    /\ \E m \in Nat : Len(ns) <= LevelStart(n, m)
    /\ \A k \in 1..Len(ns) : ns[k] <= Len(ns) /\ -Len(ns) <= ns[k]
    /\ \A j, k \in 1..Len(ns) : ns[j] = ns[k] => j = k
    /\ \A level, i \in Nat :
          Pushed(n, ns, level, i) =>
             /\ PreimageAt(n, ns, level, i) \in DOMAIN hs
             /\ hs[PreimageAt(n, ns, level, i)] = At(n, ns, level, i)
    /\ \A p \in DOMAIN hs : \E level, i \in Nat :
          Pushed(n, ns, level, i) /\ p = PreimageAt(n, ns, level, i)

\* Two pairs with the same preimage have the same members.
LEMMA PairsDiffer ==
    ASSUME NEW a \in Int, NEW b \in Int, NEW c \in Int, NEW d \in Int,
           SortedPair(a, b) = SortedPair(c, d)
    PROVE  (a = c /\ b = d) \/ (a = d /\ b = c)
  BY DEF SortedPair, IntermediatePreimage

\* The order of a pair is of no account.
LEMMA PairsCommute ==
    ASSUME NEW a \in Int, NEW b \in Int
    PROVE  SortedPair(a, b) = SortedPair(b, a)
  BY DEF SortedPair

\* An item is not hashed like a pair, nor like another item.
LEMMA LeafPreimages ==
    ASSUME NEW c \in Seq(Int)
    PROVE  /\ \A a, b \in Int : LeafPreimage(c) # SortedPair(a, b)
           /\ \A i \in Int : LeafPreimage(c) = LeafPreimage(<<i>>) => c = <<i>>
  <1> DEFINE p == LeafPreimage(c)
  <1>1. <<0>> \in Seq(Int) /\ Len(<<0>>) = 1 /\ <<0>>[1] = 0
    OBVIOUS
  <1>2. /\ p \in Seq(Int) /\ Len(p) = Len(c) + 1 /\ p[1] = 0
        /\ \A k \in 1..Len(c) : p[k + 1] = c[k]
    BY <1>1 DEF LeafPreimage, LEAF_PREFIX
  <1>3. ASSUME NEW a \in Int, NEW b \in Int PROVE p # SortedPair(a, b)
    <2>1. SortedPair(a, b)[1] = 1
      BY DEF SortedPair, IntermediatePreimage, INTERMEDIATE_PREFIX
    <2> QED
      BY <1>2, <2>1
  <1>4. ASSUME NEW i \in Int, p = LeafPreimage(<<i>>) PROVE c = <<i>>
    <2> DEFINE q == LeafPreimage(<<i>>)
    <2>1. <<i>> \in Seq(Int) /\ Len(<<i>>) = 1 /\ <<i>>[1] = i
      OBVIOUS
    <2>2. q \in Seq(Int) /\ Len(q) = 2 /\ q[2] = i
      BY <1>1, <2>1 DEF LeafPreimage, LEAF_PREFIX
    <2> HIDE DEF q
    <2>6. p = q /\ Len(c) \in Nat
      BY <1>4 DEF q
    <2> HIDE DEF p
    <2>7. Len(p) = Len(c) + 1 /\ Len(q) = 2
      BY <1>2, <2>2
    <2>3. Len(c) \in Nat /\ Len(c) = 1
      <3> DEFINE len == Len(c)
      <3>1. len + 1 = 2 /\ len \in Nat
        BY <2>6, <2>7
      <3> HIDE DEF len
      <3>2. len = 1
        BY <3>1
      <3> QED
        BY <3>1, <3>2 DEF len
    <2>4. 1 \in 1..Len(c) /\ c[1] = p[1 + 1]
      BY <1>2, <2>3
    <2>5. c[1] = i
      BY <2>2, <2>4, <2>6
    <2> QED
      BY <2>3, <2>5
  <1> QED
    BY <1>3, <1>4

\* A bounded set of integers has a greatest and a least member.
LEMMA Extremes ==
    ASSUME NEW S \in SUBSET Int, S # {}, NEW b \in Nat,
           \A x \in S : x <= b /\ -b <= x
    PROVE  /\ Max(S) \in S /\ \A x \in S : x <= Max(S)
           /\ Min(S) \in S /\ \A x \in S : Min(S) <= x
  <1>1. \E x \in S : \A y \in S : x >= y
    <2> DEFINE T == {b - x : x \in S}
    <2>0. \A x \in S : b - x \in Nat
      OBVIOUS
    <2>1. T \in SUBSET Nat /\ T # {}
      BY <2>0
    <2>2. PICK m \in T : \A k \in T : m <= k
      <3> HIDE DEF T
      <3> QED
        BY <2>1, LeastNumber
    <2>3. PICK x \in S : m = b - x
      BY <2>2
    <2>4. ASSUME NEW y \in S PROVE x >= y
      <3>1. m <= b - y
        BY <2>2
      <3> QED
        BY <2>3, <3>1
    <2> QED
      BY <2>4
  <1>2. \E x \in S : \A y \in S : x =< y
    <2> DEFINE T == {b + x : x \in S}
    <2>0. \A x \in S : b + x \in Nat
      OBVIOUS
    <2>1. T \in SUBSET Nat /\ T # {}
      BY <2>0
    <2>2. PICK m \in T : \A k \in T : m <= k
      <3> HIDE DEF T
      <3> QED
        BY <2>1, LeastNumber
    <2>3. PICK x \in S : m = b + x
      BY <2>2
    <2>4. ASSUME NEW y \in S PROVE x =< y
      <3>1. m <= b + y
        BY <2>2
      <3> QED
        BY <2>3, <3>1
    <2> QED
      BY <2>4
  <1>3. Max(S) \in S /\ \A y \in S : Max(S) >= y
    BY <1>1 DEF Max
  <1>4. Min(S) \in S /\ \A y \in S : Min(S) =< y
    BY <1>2 DEF Min
  <1> QED
    BY <1>3, <1>4

\* The next place to be pushed: its children are in the vector.
Upcoming(n, ns, level, i) ==
    Place(n, level, i) /\ LevelStart(n, level) + i <= Len(ns)

LEMMA ChildrenPushed ==
    ASSUME NEW n \in Nat, NEW ns, ns \in Seq(Int), NEW level, NEW i,
           Upcoming(n, ns, level, i), level # 0
    PROVE  /\ level - 1 \in Nat
           /\ Pushed(n, ns, level - 1, 2 * i)
           /\ Pushed(n, ns, level - 1, Sibling(n, level - 1, 2 * i))
           /\ Sibling(n, level - 1, 2 * i) \in {2 * i, 2 * i + 1}
           /\ i \in Nat
  <1> DEFINE below == level - 1
             sib == Sibling(n, below, 2 * i)
  <1>1. /\ below \in Nat /\ below + 1 = level /\ i \in Nat
        /\ LevelStart(n, level) + i <= Len(ns)
    BY DEF Upcoming, Place
  <1> HIDE DEF below
  <1>2. Place(n, below + 1, i)
    BY <1>1 DEF Upcoming
  <1>3. Place(n, below, 2 * i) /\ Place(n, below, sib) /\ sib \in {2 * i, 2 * i + 1}
    BY <1>1, <1>2, Children
  <1> HIDE DEF sib
  <1>4. /\ LevelStart(n, below) + 2 * i < LevelStart(n, level) + i
        /\ LevelStart(n, below) + sib < LevelStart(n, level) + i
    BY <1>1, <1>3, LowerFirst
  <1>5. /\ LevelStart(n, below) \in Nat /\ LevelStart(n, level) \in Nat
        /\ 2 * i \in Nat /\ sib \in Nat /\ Len(ns) \in Nat
    BY <1>1, <1>3, LevelStarts DEF Place
  <1>6. /\ LevelStart(n, below) + 2 * i < Len(ns)
        /\ LevelStart(n, below) + sib < Len(ns)
    BY <1>1, <1>4, <1>5
  <1> QED
    BY <1>1, <1>3, <1>6 DEF Pushed, below, sib

\* The digest of a place that has been pushed.
LEMMA PushedAt ==
    ASSUME NEW n \in Nat, NEW ns, ns \in Seq(Int), NEW level, NEW i,
           Pushed(n, ns, level, i)
    PROVE  /\ level \in Nat /\ i \in Nat
           /\ LevelStart(n, level) + i + 1 \in 1..Len(ns)
           /\ At(n, ns, level, i) \in Int
           /\ At(n, ns, level, i) = ns[LevelStart(n, level) + i + 1]
  <1>1. level \in Nat /\ i \in Nat /\ LevelStart(n, level) + i < Len(ns)
    BY DEF Pushed, Place
  <1>2. LevelStart(n, level) \in Nat /\ Len(ns) \in Nat
    BY <1>1, LevelStarts
  <1>3. LevelStart(n, level) + i + 1 \in 1..Len(ns)
    BY <1>1, <1>2
  <1> QED
    BY <1>1, <1>3 DEF At

\* Different places pushed have different digests.
LEMMA DigestsDiffer ==
    ASSUME NEW n \in Nat, NEW ns, NEW hs, Committed(n, ns, hs),
           NEW k, NEW i, Pushed(n, ns, k, i), NEW l, NEW j, Pushed(n, ns, l, j),
           At(n, ns, k, i) = At(n, ns, l, j)
    PROVE  k = l /\ i = j
  <1>0. ns \in Seq(Int) /\ \A x, y \in 1..Len(ns) : ns[x] = ns[y] => x = y
    BY DEF Committed
  <1> DEFINE a == LevelStart(n, k) + i
             b == LevelStart(n, l) + j
  <1>1. a + 1 \in 1..Len(ns) /\ b + 1 \in 1..Len(ns) /\ ns[a + 1] = ns[b + 1]
    BY <1>0, PushedAt DEF At
  <1>2. a \in Nat /\ b \in Nat
    <2>1. k \in Nat /\ i \in Nat /\ l \in Nat /\ j \in Nat
      BY DEF Pushed, Place
    <2>2. LevelStart(n, k) \in Nat /\ LevelStart(n, l) \in Nat
      BY <2>1, LevelStarts
    <2> QED
      BY <2>1, <2>2
  <1> HIDE DEF a, b
  <1>3. a = b
    BY <1>0, <1>1, <1>2
  <1>4. Place(n, k, i) /\ Place(n, l, j)
    BY DEF Pushed
  <1> QED
    BY <1>3, <1>4, PlacesDiffer DEF a, b

\* Different places hash different things.
LEMMA PreimagesDiffer ==
    ASSUME NEW n \in Nat, NEW ns, NEW hs, Committed(n, ns, hs),
           NEW k, NEW i, Upcoming(n, ns, k, i), NEW l, NEW j, Upcoming(n, ns, l, j),
           PreimageAt(n, ns, k, i) = PreimageAt(n, ns, l, j)
    PROVE  k = l /\ i = j
  <1>0. ns \in Seq(Int) /\ i \in Nat /\ j \in Nat
    BY DEF Committed, Upcoming, Place
  <1> DEFINE Lft(m, x) == At(n, ns, m - 1, 2 * x)
             Rgt(m, x) == At(n, ns, m - 1, Sibling(n, m - 1, 2 * x))
  <1>1. ASSUME NEW m, NEW x, Upcoming(n, ns, m, x), m # 0
        PROVE  /\ PreimageAt(n, ns, m, x) = SortedPair(Lft(m, x), Rgt(m, x))
               /\ Lft(m, x) \in Int /\ Rgt(m, x) \in Int
    <2>1. PreimageAt(n, ns, m, x) = SortedPair(Lft(m, x), Rgt(m, x))
      BY <1>1 DEF PreimageAt
    <2>2. /\ Pushed(n, ns, m - 1, 2 * x)
          /\ Pushed(n, ns, m - 1, Sibling(n, m - 1, 2 * x))
      BY <1>0, <1>1, ChildrenPushed
    <2> QED
      BY <1>0, <2>1, <2>2, PushedAt
  <1>2. \A x \in Nat : <<x + 1>> \in Seq(Int) /\ x + 1 \in Int
    OBVIOUS
  <1>3. \A m, x : m = 0 => PreimageAt(n, ns, m, x) = LeafPreimage(<<x + 1>>)
    BY DEF PreimageAt
  <1>4. CASE k = 0 /\ l = 0
    <2>1. LeafPreimage(<<i + 1>>) = LeafPreimage(<<j + 1>>)
      BY <1>3, <1>4
    <2>2. <<i + 1>> = <<j + 1>>
      BY <1>0, <1>2, <2>1, LeafPreimages
    <2> QED
      BY <1>0, <1>4, <2>2
  <1>8. ASSUME NEW m, NEW x, Upcoming(n, ns, m, x), m # 0, NEW y \in Nat
        PROVE  LeafPreimage(<<y + 1>>) # PreimageAt(n, ns, m, x)
    <2>1. <<y + 1>> \in Seq(Int)
      BY <1>2
    <2>2. /\ PreimageAt(n, ns, m, x) = SortedPair(Lft(m, x), Rgt(m, x))
          /\ Lft(m, x) \in Int /\ Rgt(m, x) \in Int
      BY <1>1, <1>8
    <2> HIDE DEF Lft, Rgt
    <2> QED
      BY <2>1, <2>2, LeafPreimages
  <1>5. CASE k = 0 /\ l # 0
    BY <1>0, <1>3, <1>5, <1>8
  <1>6. CASE k # 0 /\ l = 0
    BY <1>0, <1>3, <1>6, <1>8
  <1>7. CASE k # 0 /\ l # 0
    <2>1. Lft(k, i) = Lft(l, j) \/ Lft(k, i) = Rgt(l, j)
      BY <1>1, <1>7, PairsDiffer
    <2>2. /\ k - 1 \in Nat /\ l - 1 \in Nat
          /\ Pushed(n, ns, k - 1, 2 * i) /\ Pushed(n, ns, l - 1, 2 * j)
          /\ Pushed(n, ns, l - 1, Sibling(n, l - 1, 2 * j))
          /\ Sibling(n, l - 1, 2 * j) \in {2 * j, 2 * j + 1}
      BY <1>0, <1>7, ChildrenPushed
    <2>3. k - 1 = l - 1 /\ (2 * i = 2 * j \/ 2 * i = Sibling(n, l - 1, 2 * j))
      BY <2>1, <2>2, DigestsDiffer
    <2>4. k \in Nat /\ l \in Nat
      BY DEF Upcoming, Place
    <2> QED
      BY <1>0, <2>2, <2>3, <2>4
  <1> QED
    BY <1>4, <1>5, <1>6, <1>7

\* The next place to be pushed hashes something new.
LEMMA NotYetHashed ==
    ASSUME NEW n \in Nat, NEW ns, NEW hs, Committed(n, ns, hs),
           NEW level, NEW i, Place(n, level, i),
           LevelStart(n, level) + i = Len(ns)
    PROVE  PreimageAt(n, ns, level, i) \notin DOMAIN hs
  <1> SUFFICES ASSUME PreimageAt(n, ns, level, i) \in DOMAIN hs PROVE FALSE
    OBVIOUS
  <1>1. PICK l \in Nat, j \in Nat :
           /\ Pushed(n, ns, l, j)
           /\ PreimageAt(n, ns, level, i) = PreimageAt(n, ns, l, j)
    BY DEF Committed
  <1>2. Len(ns) \in Nat /\ LevelStart(n, l) \in Nat
    <2>1. Len(ns) \in Nat
      BY DEF Committed
    <2>2. LevelStart(n, l) \in Nat
      BY LevelStarts
    <2> QED
      BY <2>1, <2>2
  <1>3. Upcoming(n, ns, l, j)
    BY <1>1, <1>2 DEF Upcoming, Pushed
  <1>4. Upcoming(n, ns, level, i)
    BY <1>2 DEF Upcoming
  <1>5. level = l /\ i = j
    BY <1>1, <1>3, <1>4, PreimagesDiffer
  <1> QED
    BY <1>1, <1>2, <1>5 DEF Pushed

\* A push leaves the places pushed before as they are.
Kept(n, ns, ns2) ==
    /\ \A l, j : Pushed(n, ns, l, j) =>
          /\ Upcoming(n, ns, l, j)
          /\ Pushed(n, ns2, l, j)
          /\ At(n, ns2, l, j) = At(n, ns, l, j)
    /\ \A l, j : Upcoming(n, ns, l, j) =>
          PreimageAt(n, ns2, l, j) = PreimageAt(n, ns, l, j)

LEMMA PushKeeps ==
    ASSUME NEW n \in Nat, NEW ns \in Seq(Int), NEW d \in Int,
           NEW ns2, ns2 = Append(ns, d)
    PROVE  Kept(n, ns, ns2)
  <1>0. /\ Len(ns) \in Nat /\ Len(ns2) = Len(ns) + 1
        /\ \A k \in 1..Len(ns) : ns2[k] = ns[k]
    OBVIOUS
  <1>1. ASSUME NEW l, NEW j, Pushed(n, ns, l, j)
        PROVE  /\ Upcoming(n, ns, l, j)
               /\ Pushed(n, ns2, l, j) /\ At(n, ns2, l, j) = At(n, ns, l, j)
    <2>1. /\ l \in Nat /\ j \in Nat
          /\ LevelStart(n, l) + j + 1 \in 1..Len(ns)
      BY <1>1, PushedAt
    <2>2. LevelStart(n, l) \in Nat
      BY <2>1, LevelStarts
    <2>3. LevelStart(n, l) + j < Len(ns2)
      BY <1>0, <2>1, <2>2
    <2>4. At(n, ns2, l, j) = At(n, ns, l, j)
      BY <1>0, <2>1 DEF At
    <2>5. LevelStart(n, l) + j <= Len(ns)
      BY <1>0, <2>1, <2>2
    <2> QED
      BY <1>1, <2>3, <2>4, <2>5 DEF Pushed, Upcoming
  <1>2. ASSUME NEW l, NEW j, Upcoming(n, ns, l, j)
        PROVE  PreimageAt(n, ns2, l, j) = PreimageAt(n, ns, l, j)
    <2>1. CASE l = 0
      BY <2>1 DEF PreimageAt
    <2>2. CASE l # 0
      <3>1. /\ Pushed(n, ns, l - 1, 2 * j)
            /\ Pushed(n, ns, l - 1, Sibling(n, l - 1, 2 * j))
        BY <1>2, <2>2, ChildrenPushed
      <3>2. /\ At(n, ns2, l - 1, 2 * j) = At(n, ns, l - 1, 2 * j)
            /\ At(n, ns2, l - 1, Sibling(n, l - 1, 2 * j))
                 = At(n, ns, l - 1, Sibling(n, l - 1, 2 * j))
        BY <1>1, <3>1
      <3> QED
        BY <3>2 DEF PreimageAt
    <2> QED
      BY <2>1, <2>2
  <1> QED
    BY <1>1, <1>2 DEF Kept

\* A digest different from all others, and the oracle with one answer more.
Unseen(ns, d) ==
    /\ d <= Len(ns) + 1 /\ -(Len(ns) + 1) <= d
    /\ \A k \in 1..Len(ns) : ns[k] # d

Answered(hs, preimage, d) ==
    [q \in DOMAIN hs \cup {preimage} |-> IF q = preimage THEN d ELSE hs[q]]

\* One more digest, which nobody has seen, for the next place.
LEMMA PushCommits ==
    ASSUME NEW n \in Nat, NEW ns, NEW hs, Committed(n, ns, hs),
           NEW level, NEW i, Place(n, level, i),
           LevelStart(n, level) + i = Len(ns),
           NEW d \in Int, Unseen(ns, d), NEW ns2, ns2 = Append(ns, d),
           NEW hs2, hs2 = Answered(hs, PreimageAt(n, ns, level, i), d)
    PROVE  Committed(n, ns2, hs2)
  <1> USE DEF Unseen
  <1> DEFINE p == PreimageAt(n, ns, level, i)
             len == Len(ns)
  <1>0. /\ ns \in Seq(Int) /\ len \in Nat /\ ns2 \in Seq(Int)
        /\ Len(ns2) = len + 1 /\ ns2[len + 1] = d
        /\ \A k \in 1..len : ns2[k] = ns[k]
    BY DEF Committed
  <1>1. /\ DOMAIN hs2 = {p} \cup DOMAIN hs
        /\ hs2[p] = d
        /\ \A q \in DOMAIN hs : q # p => hs2[q] = hs[q]
    BY DEF Answered
  <1>2. p \notin DOMAIN hs
    BY NotYetHashed
  <1> HIDE DEF p
  <1>12. Kept(n, ns, ns2)
    <2>1. ns \in Seq(Int)
      BY <1>0
    <2> QED
      BY <2>1, PushKeeps
  <1>3. level \in Nat /\ i \in Nat /\ LevelStart(n, level) \in Nat
    BY LevelStarts DEF Place
  <1>4. Upcoming(n, ns, level, i) /\ Pushed(n, ns2, level, i)
    BY <1>0, <1>3 DEF Upcoming, Pushed
  <1>5. PreimageAt(n, ns2, level, i) = p /\ At(n, ns2, level, i) = d
    <2>1. PreimageAt(n, ns2, level, i) = p
      BY <1>4, <1>12 DEF p, Kept
    <2> QED
      BY <1>0, <1>3, <2>1 DEF At
  <1>6. \E m \in Nat : Len(ns2) <= LevelStart(n, m)
    <2>4. LevelLen(n, level) \in Nat
      BY <1>3, LevelLens
    <2>1. /\ level + 1 \in Nat /\ LevelLen(n, level) \in Nat
          /\ LevelStart(n, level + 1) = LevelStart(n, level) + LevelLen(n, level)
      BY <1>3, <2>4, LevelStarts
    <2>2. i < LevelLen(n, level)
      BY DEF Place
    <2>3. Len(ns2) <= LevelStart(n, level + 1)
      BY <1>0, <1>3, <2>1, <2>2
    <2> QED
      BY <2>1, <2>3
  <1>7. \A k \in 1..Len(ns2) : ns2[k] <= Len(ns2) /\ -Len(ns2) <= ns2[k]
    <2> SUFFICES ASSUME NEW k \in 1..(len + 1)
                 PROVE  ns2[k] <= len + 1 /\ -(len + 1) <= ns2[k]
      BY <1>0
    <2>1. CASE k = len + 1
      BY <1>0, <2>1
    <2>2. CASE k # len + 1
      <3>1. k \in 1..len /\ ns2[k] = ns[k] /\ ns[k] \in Int
        BY <1>0, <2>2
      <3>2. ns[k] <= len /\ -len <= ns[k]
        BY <3>1 DEF Committed
      <3> HIDE DEF len
      <3> QED
        BY <1>0, <3>1, <3>2
    <2> QED
      BY <2>1, <2>2
  <1>8. \A j, k \in 1..Len(ns2) : ns2[j] = ns2[k] => j = k
    <2> SUFFICES ASSUME NEW j \in 1..(len + 1), NEW k \in 1..(len + 1),
                        ns2[j] = ns2[k]
                 PROVE  j = k
      BY <1>0
    <2>1. \A x \in 1..(len + 1) : x # len + 1 => x \in 1..len
      BY <1>0
    <2>2. \A x, y \in 1..len : ns[x] = ns[y] => x = y
      BY DEF Committed
    <2> HIDE DEF len
    <2>3. CASE j = len + 1 /\ k # len + 1
      BY <1>0, <2>1, <2>3 DEF len
    <2>4. CASE j # len + 1 /\ k = len + 1
      BY <1>0, <2>1, <2>4 DEF len
    <2>5. CASE j # len + 1 /\ k # len + 1
      BY <1>0, <2>1, <2>2, <2>5
    <2> QED
      BY <2>3, <2>4, <2>5
  <1>9. \A l, j \in Nat : Pushed(n, ns2, l, j) =>
           Pushed(n, ns, l, j) \/ (l = level /\ j = i)
    <2> SUFFICES ASSUME NEW l \in Nat, NEW j \in Nat, Pushed(n, ns2, l, j),
                        ~Pushed(n, ns, l, j)
                 PROVE  l = level /\ j = i
      OBVIOUS
    <2>1. Place(n, l, j) /\ LevelStart(n, l) + j < len + 1
      BY <1>0 DEF Pushed
    <2>2. LevelStart(n, l) \in Nat
      BY LevelStarts
    <2>4. ~(LevelStart(n, l) + j < len)
      BY <2>1 DEF Pushed
    <2>5. LevelStart(n, l) + j = len
      <3> HIDE DEF len
      <3> QED
        BY <1>0, <2>1, <2>2, <2>4
    <2>3. LevelStart(n, l) + j = LevelStart(n, level) + i
      BY <2>5
    <2> QED
      BY <2>1, <2>3, PlacesDiffer
  <1>10. ASSUME NEW l \in Nat, NEW j \in Nat, Pushed(n, ns2, l, j)
         PROVE  /\ PreimageAt(n, ns2, l, j) \in DOMAIN hs2
                /\ hs2[PreimageAt(n, ns2, l, j)] = At(n, ns2, l, j)
    <2>1. CASE l = level /\ j = i
      BY <1>1, <1>5, <2>1
    <2>2. CASE Pushed(n, ns, l, j)
      <3>1. Upcoming(n, ns, l, j)
        BY <1>12, <2>2 DEF Kept
      <3>2. /\ PreimageAt(n, ns2, l, j) = PreimageAt(n, ns, l, j)
            /\ At(n, ns2, l, j) = At(n, ns, l, j)
        BY <2>2, <3>1, <1>12 DEF Kept
      <3>3. /\ PreimageAt(n, ns, l, j) \in DOMAIN hs
            /\ hs[PreimageAt(n, ns, l, j)] = At(n, ns, l, j)
        BY <2>2 DEF Committed
      <3> QED
        BY <1>1, <1>2, <3>2, <3>3
    <2> QED
      BY <1>9, <1>10, <2>1, <2>2
  <1>11. ASSUME NEW q \in DOMAIN hs2
         PROVE  \E l, j \in Nat : Pushed(n, ns2, l, j) /\ q = PreimageAt(n, ns2, l, j)
    <2>1. CASE q = p
      BY <1>3, <1>4, <1>5, <2>1
    <2>2. CASE q \in DOMAIN hs
      <3>1. PICK l \in Nat, j \in Nat :
               Pushed(n, ns, l, j) /\ q = PreimageAt(n, ns, l, j)
        BY <2>2 DEF Committed
      <3>2. Upcoming(n, ns, l, j)
        BY <1>12, <3>1 DEF Kept
      <3>3. Pushed(n, ns2, l, j) /\ PreimageAt(n, ns2, l, j) = PreimageAt(n, ns, l, j)
        BY <3>1, <3>2, <1>12 DEF Kept
      <3> QED
        BY <3>1, <3>3
    <2> QED
      BY <1>1, <2>1, <2>2
  <1> QED
    BY <1>0, <1>6, <1>7, <1>8, <1>10, <1>11 DEF Committed

-----------------------------------------------------------------------------
(* The construction. *)

TreeInv ==
    /\ Len(items) \in 1..MaxLeaves
    /\ items = [k \in 1..Len(items) |-> <<k>>]
    /\ Committed(Len(items), nodes, hashes)

\* The level being filled has a place for the next digest.
LEMMA FillingPlace ==
    ASSUME TreeInv, NEW level \in Nat, Filling(level)
    PROVE  LET i == Len(nodes) - LevelStart(Len(items), level)
           IN  /\ Place(Len(items), level, i)
               /\ LevelStart(Len(items), level) + i = Len(nodes)
  <1> DEFINE n == Len(items)
             i == Len(nodes) - LevelStart(n, level)
  <1>1. n \in Nat
    BY LeavesAssumption DEF TreeInv
  <1>2. Len(nodes) \in Nat
    BY DEF TreeInv, Committed
  <1>3. /\ LevelStart(n, level) <= Len(nodes)
        /\ Len(nodes) < LevelStart(n, level + 1)
    BY DEF Filling
  <1> HIDE DEF n
  <1>4. LevelStart(n, level) \in Nat /\ LevelLen(n, level) \in Nat
    BY <1>1, LevelStarts, LevelLens
  <1>5. LevelStart(n, level + 1) = LevelStart(n, level) + LevelLen(n, level)
    BY <1>1, LevelStarts
  <1>6. i \in Nat /\ i < LevelLen(n, level) /\ LevelStart(n, level) + i = Len(nodes)
    BY <1>2, <1>3, <1>4, <1>5
  <1> QED
    BY <1>6 DEF Place, n

\* A push of the preimage of the next place.
LEMMA PushStep ==
    ASSUME TreeInv, NEW level \in Nat, NEW i, Place(Len(items), level, i),
           LevelStart(Len(items), level) + i = Len(nodes),
           Push(PreimageAt(Len(items), nodes, level, i))
    PROVE  TreeInv'
  <1> DEFINE n == Len(items)
             p == PreimageAt(n, nodes, level, i)
             len == Len(nodes)
             known == {nodes[k] : k \in DOMAIN nodes}
             seen == {0} \cup known
  <1>0. n \in Nat
    BY LeavesAssumption DEF TreeInv
  <1>1. Committed(n, nodes, hashes)
    BY DEF TreeInv
  <1>2. p \notin DOMAIN hashes
    BY <1>0, <1>1, NotYetHashed
  <1>3. PICK d \in {Max(seen) + 1, Min(seen) - 1} :
           /\ nodes' = Append(nodes, d)
           /\ hashes' = [q \in DOMAIN hashes \cup {p} |->
                           IF q = p THEN d ELSE hashes[q]]
           /\ UNCHANGED items
    BY <1>2 DEF Push
  <1>4. /\ nodes \in Seq(Int) /\ len \in Nat
        /\ \A k \in 1..len : nodes[k] <= len /\ -len <= nodes[k]
    BY <1>1 DEF Committed
  <1>5. seen \in SUBSET Int /\ 0 \in seen /\ \A x \in seen : x <= len /\ -len <= x
    <2>1. DOMAIN nodes = 1..len
      BY <1>4
    <2>2. \A k \in DOMAIN nodes :
             nodes[k] \in Int /\ nodes[k] <= len /\ -len <= nodes[k]
      BY <1>4, <2>1
    <2>3. 0 <= len /\ -len <= 0
      BY <1>4
    <2> QED
      BY <2>2, <2>3
  <1>6. \A k \in 1..len : nodes[k] \in seen
    BY <1>4
  <1> HIDE DEF seen
  <1>7. /\ Max(seen) \in seen /\ \A x \in seen : x <= Max(seen)
        /\ Min(seen) \in seen /\ \A x \in seen : Min(seen) <= x
    <2>1. seen # {} /\ seen \in SUBSET Int
      BY <1>5
    <2> HIDE DEF len
    <2> QED
      BY <1>4, <1>5, <2>1, Extremes
  <1>8. d \in Int /\ d <= len + 1 /\ -(len + 1) <= d /\ d \notin seen
    <2>1. /\ Max(seen) \in Int /\ Max(seen) <= len /\ -len <= Max(seen)
          /\ Min(seen) \in Int /\ Min(seen) <= len /\ -len <= Min(seen)
      BY <1>5, <1>7
    <2> HIDE DEF len
    <2>2. Max(seen) + 1 \notin seen /\ Min(seen) - 1 \notin seen
      <3> DEFINE a == Max(seen)
                 b == Min(seen)
      <3>1. a \in Int /\ b \in Int /\ \A x \in seen : x <= a /\ b <= x
        BY <1>7, <2>1
      <3> HIDE DEF a, b
      <3>2. a + 1 \notin seen /\ b - 1 \notin seen
        BY <3>1
      <3> QED
        BY <3>2 DEF a, b
    <2> QED
      BY <1>3, <1>4, <2>1, <2>2
  <1>9. d \in Int /\ Unseen(nodes, d)
    BY <1>6, <1>8 DEF Unseen
  <1>10. Committed(n, nodes', hashes')
    <2> DEFINE ns2 == nodes'
               hs2 == hashes'
    <2>1. /\ ns2 = Append(nodes, d)
          /\ hs2 = Answered(hashes, PreimageAt(n, nodes, level, i), d)
      BY <1>3 DEF Answered
    <2> HIDE DEF ns2, hs2
    <2>3. /\ Place(n, level, i) /\ LevelStart(n, level) + i = Len(nodes)
      OBVIOUS
    <2> HIDE DEF n
    <2>2. Committed(n, ns2, hs2)
      BY <1>0, <1>1, <1>9, <2>1, <2>3, PushCommits
    <2> QED
      BY <2>2 DEF ns2, hs2
  <1> QED
    BY <1>3, <1>10 DEF TreeInv

\* A digest is added to the places in their order, and the oracle is asked
\* for these only.
THEOREM TreeInvariant == Spec => []TreeInv
  <1>1. Init => TreeInv
    <2> SUFFICES ASSUME Init PROVE TreeInv
      OBVIOUS
    <2>1. PICK n \in 1..MaxLeaves : items = [k \in 1..n |-> <<k>>]
      BY DEF Init
    <2>2. n \in Nat /\ Len(items) = n
      BY <2>1, LeavesAssumption
    <2>3. nodes = <<>> /\ Len(nodes) = 0 /\ DOMAIN hashes = {}
      BY DEF Init
    <2>4. ASSUME NEW level \in Nat, NEW i \in Nat PROVE ~Pushed(n, nodes, level, i)
      <3>1. LevelStart(n, level) \in Nat
        BY <2>2, LevelStarts
      <3> QED
        BY <2>3, <3>1 DEF Pushed
    <2>5. LevelStart(n, 0) = 0
      BY <2>2, LevelStarts
    <2>6. Committed(n, nodes, hashes)
      BY <2>3, <2>4, <2>5 DEF Committed
    <2> QED
      BY <2>1, <2>2, <2>6 DEF TreeInv
  <1>2. TreeInv /\ [Next]_vars => TreeInv'
    <2> SUFFICES ASSUME TreeInv, [Next]_vars PROVE TreeInv'
      OBVIOUS
    <2> DEFINE n == Len(items)
    <2>1. CASE PushLeaf
      <3> DEFINE i == Len(nodes)
      <3>1. Filling(0) /\ Push(LeafPreimage(items[i + 1]))
        BY <2>1 DEF PushLeaf
      <3>2. n \in Nat /\ LevelStart(n, 0) = 0 /\ LevelLen(n, 0) = n
        BY LeavesAssumption, LevelStarts, LevelLens DEF TreeInv
      <3>3. i \in Nat
        BY DEF TreeInv, Committed
      <3>4. Place(n, 0, i) /\ LevelStart(n, 0) + i = Len(nodes)
        <4>1. i - 0 = i
          BY <3>3
        <4> QED
          BY <3>1, <3>2, <4>1, FillingPlace
      <3>5. items[i + 1] = <<i + 1>>
        <4>1. i + 1 \in 1..n
          BY <3>2, <3>3, <3>4 DEF Place
        <4> QED
          BY <4>1 DEF TreeInv
      <3>6. Push(PreimageAt(n, nodes, 0, i))
        BY <3>1, <3>5 DEF PreimageAt
      <3> QED
        BY <3>4, <3>6, PushStep
    <2>2. ASSUME NEW level \in Levels \ {0}, PushIntermediate(level)
          PROVE  TreeInv'
      <3> DEFINE i == Len(nodes) - LevelStart(n, level)
      <3>1. level \in Nat /\ level # 0
        BY <2>2, LeavesAssumption DEF Levels
      <3>2. Filling(level)
        BY <2>2 DEF PushIntermediate
      <3>3. Place(n, level, i) /\ LevelStart(n, level) + i = Len(nodes)
        BY <3>1, <3>2, FillingPlace
      <3>4. Push(PreimageAt(n, nodes, level, i))
        BY <2>2, <3>1
        DEF PushIntermediate, PreimageAt, NodeAt, At, SiblingIndex, Sibling,
            SortedPair
      <3> HIDE DEF i
      <3> QED
        BY <3>1, <3>3, <3>4, PushStep
    <2>3. CASE UNCHANGED vars
      BY <2>3 DEF vars, TreeInv
    <2> QED
      BY <2>1, <2>2, <2>3 DEF Next
  <1> QED
    BY <1>1, <1>2, PTL DEF Spec

\* The root of a tree with leaves, and the room below it.
LEMMA TreeSize ==
    ASSUME TreeInv
    PROVE  /\ Len(items) \in Nat \ {0} /\ Len(nodes) \in Nat
           /\ RootLevel(Len(items), Height)
           /\ Height \in Nat /\ Height < MaxLeaves
           /\ LevelStart(Len(items), Height) \in Nat
           /\ LevelStart(Len(items), Height + 1)
                = LevelStart(Len(items), Height) + 1
           /\ LevelStart(Len(items), MaxLeaves + 1)
                = LevelStart(Len(items), Height) + 1
           /\ Len(nodes) <= LevelStart(Len(items), Height) + 1
           /\ LevelStart(Len(items), Height) + 1 < Fresh
  <1> DEFINE n == Len(items)
             h == Height
  <1>1. /\ n \in Nat \ {0} /\ n <= MaxLeaves /\ RootLevel(n, h)
        /\ MaxLeaves \in Nat
    BY LeavesAssumption, HeightIsRootLevel DEF TreeInv
  <1>2. h \in Nat /\ h < n
    BY <1>1 DEF RootLevel
  <1>3. Len(nodes) \in Nat
    BY DEF TreeInv, Committed
  <1>4. PICK m \in Nat : Len(nodes) <= LevelStart(n, m)
    BY DEF TreeInv, Committed
  <1> HIDE DEF n, h
  <1>5. /\ \A k \in Nat : k > h => LevelStart(n, k) = LevelStart(n, h) + 1
        /\ LevelStart(n, h) + 1 < 3 * n
    BY <1>1, NodeCount
  <1>6. LevelStart(n, h) \in Nat /\ LevelStart(n, m) \in Nat
    BY <1>1, <1>2, LevelStarts
  <1>7. Len(nodes) <= LevelStart(n, h) + 1
    <2>1. CASE m > h
      BY <1>4, <1>5, <2>1
    <2>2. CASE ~(m > h)
      <3>1. LevelStart(n, h) >= LevelStart(n, m)
        BY <1>1, <1>2, <2>2, StartsMonotone
      <3> QED
        BY <1>3, <1>4, <1>6, <3>1
    <2> QED
      BY <2>1, <2>2
  <1>8. LevelStart(n, h) + 1 < Fresh
    BY <1>1, <1>5, <1>6 DEF Fresh
  <1>9. h + 1 \in Nat /\ h + 1 > h /\ MaxLeaves + 1 \in Nat /\ MaxLeaves + 1 > h
        /\ h < MaxLeaves
    BY <1>1, <1>2
  <1> QED
    BY <1>1, <1>2, <1>3, <1>5, <1>6, <1>7, <1>8, <1>9 DEF n, h

\* The node vector never outgrows the tree and holds digests of the oracle
\* only.
THEOREM TreeTypes == Spec => []TypeOK
  <1>1. TreeInv => TypeOK
    <2> SUFFICES ASSUME TreeInv PROVE TypeOK
      OBVIOUS
    <2> DEFINE n == Len(items)
    <2>1. /\ n \in Nat /\ Len(nodes) \in Nat
          /\ Len(nodes) <= LevelStart(n, MaxLeaves + 1)
      BY TreeSize
    <2>2. MaxLeaves + 1 \in Nat /\ n \in 1..MaxLeaves
      BY LeavesAssumption DEF TreeInv
    <2>3. nodes \in Seq(Int)
      BY DEF TreeInv, Committed
    <2>4. ASSUME NEW k \in DOMAIN nodes
          PROVE  \E p \in DOMAIN hashes : hashes[p] = nodes[k]
      <3>1. k \in Nat /\ k - 1 \in Nat /\ k <= Len(nodes)
        BY <2>3
      <3>2. LevelStart(n, MaxLeaves + 1) \in Nat
        BY <2>1, <2>2, LevelStarts
      <3>3. k - 1 < LevelStart(n, MaxLeaves + 1)
        BY <2>1, <3>1, <3>2
      <3> HIDE DEF n
      <3>4. PICK level \in Nat, i \in Nat :
               Place(n, level, i) /\ k - 1 = LevelStart(n, level) + i
        BY <2>1, <2>2, <3>1, <3>3, PlaceExists
      <3>5. Pushed(n, nodes, level, i)
        BY <2>1, <3>1, <3>4 DEF Pushed
      <3>6. At(n, nodes, level, i) = nodes[k]
        <4>1. LevelStart(n, level) \in Nat
          BY <2>1, LevelStarts
        <4>2. LevelStart(n, level) + i + 1 = k
          BY <3>1, <3>4, <4>1
        <4> QED
          BY <4>2 DEF At
      <3>7. /\ PreimageAt(n, nodes, level, i) \in DOMAIN hashes
            /\ hashes[PreimageAt(n, nodes, level, i)] = At(n, nodes, level, i)
        BY <3>5 DEF TreeInv, Committed, n
      <3> QED
        BY <3>6, <3>7
    <2> QED
      BY <2>1, <2>2, <2>4 DEF TypeOK
  <1> QED
    BY <1>1, TreeInvariant, PTL

-----------------------------------------------------------------------------
(* The finished tree. *)

\* When no level is being filled every place has been pushed, the root last.
LEMMA BuiltTree ==
    ASSUME TreeInv, Built
    PROVE  /\ Len(nodes) = LevelStart(Len(items), Height) + 1
           /\ GetRoot = At(Len(items), nodes, Height, 0)
           /\ \A level, i : Place(Len(items), level, i) =>
                 Pushed(Len(items), nodes, level, i)
  <1> DEFINE n == Len(items)
             h == Height
             len == Len(nodes)
  <1>1. /\ n \in Nat \ {0} /\ len \in Nat /\ RootLevel(n, h)
        /\ h \in Nat /\ h < MaxLeaves /\ LevelStart(n, h) \in Nat
        /\ LevelStart(n, h + 1) = LevelStart(n, h) + 1
        /\ len <= LevelStart(n, h) + 1
    BY TreeSize
  <1>2. len = LevelStart(n, h) + 1
    <2> SUFFICES ASSUME len < LevelStart(n, h + 1) PROVE FALSE
      BY <1>1
    <2>1. h + 1 \in Nat /\ n \in Nat
      BY <1>1
    <2> HIDE DEF n, h, len
    <2>2. PICK level \in Nat, i \in Nat :
             Place(n, level, i) /\ len = LevelStart(n, level) + i
      BY <1>1, <2>1, PlaceExists
    <2>3. i < LevelLen(n, level)
      BY <2>2 DEF Place
    <2>4. level <= h
      BY <1>1, <2>3 DEF RootLevel
    <2>5. level \in Levels
      BY <1>1, <2>4, LeavesAssumption DEF Levels
    <2>6. /\ LevelStart(n, level) \in Nat /\ LevelLen(n, level) \in Nat
          /\ LevelStart(n, level + 1) = LevelStart(n, level) + LevelLen(n, level)
      BY <2>1, LevelStarts, LevelLens
    <2>7. LevelStart(n, level) <= len /\ len < LevelStart(n, level + 1)
      BY <2>2, <2>3, <2>6
    <2>8. Filling(level)
      BY <2>7 DEF Filling, n, len
    <2> QED
      BY <2>5, <2>8 DEF Built
  <1>3. GetRoot = At(n, nodes, h, 0)
    <2>1. LevelStart(n, h) + 0 + 1 = len
      BY <1>1, <1>2
    <2> QED
      BY <2>1 DEF GetRoot, Last, At
  <1>4. ASSUME NEW level, NEW i, Place(n, level, i)
        PROVE  Pushed(n, nodes, level, i)
    <2>1. level \in Nat /\ i \in Nat /\ i < LevelLen(n, level)
      BY <1>4 DEF Place
    <2>2. level + 1 \in Nat /\ h + 1 \in Nat /\ n \in Nat
      BY <1>1, <2>1
    <2>3. level <= h
      BY <1>1, <2>1 DEF RootLevel
    <2> HIDE DEF n, h, len
    <2>4. LevelStart(n, h + 1) >= LevelStart(n, level + 1)
      BY <1>1, <2>1, <2>2, <2>3, StartsMonotone
    <2>5. /\ LevelStart(n, level) \in Nat /\ LevelLen(n, level) \in Nat
          /\ LevelStart(n, level + 1) = LevelStart(n, level) + LevelLen(n, level)
      BY <2>1, <2>2, LevelStarts, LevelLens
    <2>6. LevelStart(n, level) + i < len
      BY <1>1, <1>2, <2>1, <2>4, <2>5
    <2> QED
      BY <1>4, <2>6 DEF Pushed, len
  <1> QED
    BY <1>2, <1>3, <1>4

\* The digest of a place is the oracle's answer, and never Fresh.
LEMMA DigestOfPlace ==
    ASSUME TreeInv, NEW level, NEW i, Pushed(Len(items), nodes, level, i)
    PROVE  /\ Digest(PreimageAt(Len(items), nodes, level, i))
                = At(Len(items), nodes, level, i)
           /\ At(Len(items), nodes, level, i) \in Int
           /\ At(Len(items), nodes, level, i) # Fresh
  <1> DEFINE n == Len(items)
             a == At(n, nodes, level, i)
             k == LevelStart(n, level) + i + 1
  <1>1. n \in Nat /\ nodes \in Seq(Int) /\ Committed(n, nodes, hashes)
    BY LeavesAssumption DEF TreeInv, Committed
  <1>2. level \in Nat /\ i \in Nat /\ k \in 1..Len(nodes) /\ a \in Int /\ a = nodes[k]
    BY <1>1, PushedAt
  <1>3. /\ Len(nodes) \in Nat /\ LevelStart(n, Height) \in Nat
        /\ Len(nodes) <= LevelStart(n, Height) + 1
        /\ LevelStart(n, Height) + 1 < Fresh /\ Fresh \in Int
    BY TreeSize, LeavesAssumption DEF Fresh
  <1>4. a <= Len(nodes)
    BY <1>1, <1>2 DEF Committed
  <1>5. a # Fresh
    <2> HIDE DEF a
    <2> QED
      BY <1>2, <1>3, <1>4
  <1>6. Digest(PreimageAt(n, nodes, level, i)) = a
    BY <1>1, <1>2 DEF Committed, Digest
  <1> QED
    BY <1>2, <1>5, <1>6

\* What has a digest was hashed for a place of the tree.
LEMMA KnownPreimage ==
    ASSUME TreeInv, NEW p, Digest(p) # Fresh
    PROVE  \E level, i \in Nat : /\ Pushed(Len(items), nodes, level, i)
                                 /\ p = PreimageAt(Len(items), nodes, level, i)
  BY DEF Digest, TreeInv, Committed

\* Combining is hashing the sorted pair.
LEMMA CombineIsDigest ==
    ASSUME TreeInv, NEW a \in Int, NEW b \in Int
    PROVE  Combine(a, b) = Digest(SortedPair(a, b)) /\ Combine(a, b) \in Int
  <1>1. Combine(a, b) = Digest(SortedPair(a, b))
    BY DEF Combine, SortedPair
  <1>2. CASE Digest(SortedPair(a, b)) = Fresh
    BY <1>1, <1>2, LeavesAssumption DEF Fresh
  <1>3. CASE Digest(SortedPair(a, b)) # Fresh
    <2>1. PICK level \in Nat, i \in Nat :
             /\ Pushed(Len(items), nodes, level, i)
             /\ SortedPair(a, b) = PreimageAt(Len(items), nodes, level, i)
      BY <1>3, KnownPreimage
    <2>2. Digest(SortedPair(a, b)) \in Int
      BY <2>1, DigestOfPlace
    <2> QED
      BY <1>1, <2>2
  <1> QED
    BY <1>2, <1>3

\* What is hashed for an inner place, and for a leaf.
LEMMA InnerPreimage ==
    ASSUME TreeInv, NEW level, NEW j, Pushed(Len(items), nodes, level, j), level # 0
    PROVE  LET n == Len(items)
               sib == Sibling(n, level - 1, 2 * j)
               l == At(n, nodes, level - 1, 2 * j)
               r == At(n, nodes, level - 1, sib)
           IN  /\ PreimageAt(n, nodes, level, j) = SortedPair(l, r)
               /\ Pushed(n, nodes, level - 1, 2 * j) /\ l \in Int
               /\ Pushed(n, nodes, level - 1, sib) /\ r \in Int
               /\ sib \in {2 * j, 2 * j + 1}
               /\ j \in Nat /\ level \in Nat /\ level - 1 \in Nat
  <1> DEFINE n == Len(items)
  <1>1. n \in Nat /\ nodes \in Seq(Int)
    BY LeavesAssumption DEF TreeInv, Committed
  <1>2. Upcoming(n, nodes, level, j)
    <2>1. /\ level \in Nat /\ j \in Nat /\ Place(n, level, j)
          /\ LevelStart(n, level) + j < Len(nodes)
      BY DEF Pushed, Place
    <2>2. LevelStart(n, level) \in Nat /\ Len(nodes) \in Nat
      BY <1>1, <2>1, LevelStarts
    <2> QED
      BY <2>1, <2>2 DEF Upcoming
  <1>3. /\ level - 1 \in Nat /\ j \in Nat
        /\ Pushed(n, nodes, level - 1, 2 * j)
        /\ Pushed(n, nodes, level - 1, Sibling(n, level - 1, 2 * j))
        /\ Sibling(n, level - 1, 2 * j) \in {2 * j, 2 * j + 1}
    BY <1>1, <1>2, ChildrenPushed
  <1>4. level \in Nat
    BY DEF Pushed, Place
  <1>5. /\ At(n, nodes, level - 1, 2 * j) \in Int
        /\ At(n, nodes, level - 1, Sibling(n, level - 1, 2 * j)) \in Int
    BY <1>1, <1>3, PushedAt
  <1> QED
    BY <1>3, <1>4, <1>5 DEF PreimageAt

\* The pairs of known digests are the children of a place: who combines the
\* digest of a node with anything but its sibling gets a digest of no use.
LEMMA Climb ==
    ASSUME TreeInv, NEW level, NEW i, Pushed(Len(items), nodes, level, i),
           NEW e \in Int, Combine(At(Len(items), nodes, level, i), e) # Fresh
    PROVE  LET n == Len(items)
           IN  /\ Pushed(n, nodes, level + 1, i \div 2)
               /\ e = At(n, nodes, level, Sibling(n, level, i))
               /\ Combine(At(n, nodes, level, i), e)
                    = At(n, nodes, level + 1, i \div 2)
  <1> DEFINE n == Len(items)
             a == At(n, nodes, level, i)
  <1>1. a \in Int
    BY DigestOfPlace
  <1>2. Combine(a, e) = Digest(SortedPair(a, e))
    BY <1>1, CombineIsDigest
  <1>3. PICK l \in Nat, j \in Nat :
           /\ Pushed(n, nodes, l, j)
           /\ SortedPair(a, e) = PreimageAt(n, nodes, l, j)
    BY <1>2, KnownPreimage
  <1>4. l # 0
    <2> SUFFICES ASSUME l = 0 PROVE FALSE
      OBVIOUS
    <2>1. SortedPair(a, e) = LeafPreimage(<<j + 1>>) /\ <<j + 1>> \in Seq(Int)
      BY <1>3 DEF PreimageAt
    <2> HIDE DEF a
    <2> QED
      BY <1>1, <2>1, LeafPreimages
  <1> DEFINE sib == Sibling(n, l - 1, 2 * j)
             lft == At(n, nodes, l - 1, 2 * j)
             rgt == At(n, nodes, l - 1, sib)
  <1>5. /\ SortedPair(a, e) = SortedPair(lft, rgt)
        /\ Pushed(n, nodes, l - 1, 2 * j) /\ lft \in Int
        /\ Pushed(n, nodes, l - 1, sib) /\ rgt \in Int
        /\ sib \in {2 * j, 2 * j + 1} /\ l - 1 \in Nat
    BY <1>3, <1>4, InnerPreimage
  <1>6. (a = lft /\ e = rgt) \/ (a = rgt /\ e = lft)
    <2> HIDE DEF a, lft, rgt
    <2> QED
      BY <1>1, <1>5, PairsDiffer
  <1>7. n \in Nat /\ Committed(n, nodes, hashes)
    BY LeavesAssumption DEF TreeInv
  <1>8. level = l - 1 /\ (i = 2 * j \/ i = sib)
    BY <1>5, <1>6, <1>7, DigestsDiffer
  <1>9. l = level + 1 /\ j = i \div 2 /\ i \in Nat
    BY <1>3, <1>5, <1>8
  <1>10. e = At(n, nodes, level, Sibling(n, level, i))
    <2>1. CASE i = 2 * j
      <3>1. Sibling(n, level, i) = sib
        BY <1>8, <2>1
      <3>2. a = lft
        BY <1>8, <2>1
      <3>3. e = rgt
        <4>1. CASE a = rgt /\ e = lft
          BY <3>2, <4>1
        <4> QED
          BY <1>6, <4>1
      <3> QED
        BY <1>8, <3>1, <3>3
    <2>2. CASE i # 2 * j
      <3>1. i = 2 * j + 1 /\ i = sib
        BY <1>5, <1>8, <2>2
      <3>2. i % 2 = 1 /\ i - 1 = 2 * j
        BY <1>3, <3>1
      <3>3. Sibling(n, level, i) = 2 * j
        BY <3>2 DEF Sibling
      <3>4. a = rgt
        BY <1>8, <3>1
      <3>5. e = lft
        BY <1>6, <3>4
      <3> QED
        BY <1>8, <3>3, <3>5
    <2> QED
      BY <2>1, <2>2
  <1>11. Combine(a, e) = At(n, nodes, l, j)
    BY <1>2, <1>3, DigestOfPlace
  <1> QED
    BY <1>3, <1>9, <1>10, <1>11

\* Where the path passes the levels, one after the other.
LEMMA NodeIndices ==
    ASSUME NEW index \in Nat
    PROVE  /\ NodeIndex(index, 0) = index
           /\ \A k \in Nat : /\ NodeIndex(index, k) \in Nat
                             /\ NodeIndex(index, k + 1)
                                  = NodeIndex(index, k) \div 2
  <1> DEFINE Is(s) == s = [k \in Nat |->
                             IF k = 0 THEN index ELSE s[k - 1] \div 2]
             path == CHOOSE s : Is(s)
             F == [k \in Nat |-> [x \in Nat |-> x \div 2]]
  <1>1. F \in [Nat -> [Nat -> Nat]]
    OBVIOUS
  <1>2. PICK s : FollowsOn(s, Nat, index, F)
    <2> HIDE DEF F
    <2>1. index \in Nat
      OBVIOUS
    <2> QED
      BY <1>1, <2>1, NatRecursion
  <1>3. \A k \in Nat \ {0} : s[k] = s[k - 1] \div 2
    <2> SUFFICES ASSUME NEW k \in Nat \ {0} PROVE s[k] = s[k - 1] \div 2
      OBVIOUS
    <2>1. k - 1 \in Nat /\ s[k - 1] \in Nat
      BY <1>2 DEF FollowsOn
    <2> QED
      BY <1>2, <2>1 DEF FollowsOn
  <1> HIDE DEF F
  <1>4. Is(s)
    BY <1>2, <1>3 DEF FollowsOn
  <1>5. Is(path)
    <2> HIDE DEF Is
    <2> QED
      BY <1>4
  <1>6. \A k \in Nat : NodeIndex(index, k) = path[k]
    BY DEF NodeIndex
  <1> HIDE DEF path
  <1>7. path[0] = index /\ \A k \in Nat : path[k + 1] = path[k] \div 2
    <2>1. path[0] = index
      BY <1>5
    <2>2. ASSUME NEW k \in Nat PROVE path[k + 1] = path[k] \div 2
      <3>1. k + 1 \in Nat /\ k + 1 # 0 /\ (k + 1) - 1 = k
        OBVIOUS
      <3> QED
        BY <1>5, <3>1
    <2> QED
      BY <2>1, <2>2
  <1>8. \A k \in Nat : path[k] \in Nat
    <2> DEFINE N == {k \in Nat : path[k] \in Nat}
    <2>1. 0 \in N
      BY <1>7
    <2>2. ASSUME NEW k \in Nat, k \in N PROVE k + 1 \in N
      <3>1. path[k] \in Nat /\ path[k + 1] = path[k] \div 2
        BY <1>7, <2>2
      <3>2. path[k + 1] \in Nat
        BY <3>1
      <3> QED
        BY <3>2
    <2> HIDE DEF N
    <2>3. \A k \in Nat : k \in N
      BY <2>1, <2>2, SetInduction
    <2> QED
      BY <2>3 DEF N
  <1> QED
    BY <1>6, <1>7, <1>8

\* The path of a leaf is a path of places, up to the root.
LEMMA PathPlaces ==
    ASSUME NEW n \in Nat \ {0}, NEW h, RootLevel(n, h), NEW index \in Nat, index < n
    PROVE  \A k \in Nat : k <= h => Place(n, k, NodeIndex(index, k))
  <1> DEFINE N == {k \in Nat : k <= h => Place(n, k, NodeIndex(index, k))}
  <1>0. h \in Nat /\ \A k \in Nat : k < h => LevelLen(n, k) > 1
    BY DEF RootLevel
  <1>1. 0 \in N
    <2>1. NodeIndex(index, 0) = index /\ LevelLen(n, 0) = n
      BY NodeIndices, LevelLens
    <2> QED
      BY <2>1 DEF Place
  <1>2. ASSUME NEW k \in Nat, k \in N PROVE k + 1 \in N
    <2> SUFFICES ASSUME k + 1 <= h
                 PROVE  Place(n, k + 1, NodeIndex(index, k + 1))
      OBVIOUS
    <2>1. k < h /\ k <= h
      BY <1>0
    <2>2. Place(n, k, NodeIndex(index, k)) /\ LevelLen(n, k) > 1
      BY <1>0, <1>2, <2>1
    <2>3. NodeIndex(index, k + 1) = NodeIndex(index, k) \div 2
      BY NodeIndices
    <2> HIDE DEF N
    <2>4. Place(n, k + 1, NodeIndex(index, k) \div 2)
      BY <2>2, Parents
    <2> QED
      BY <2>3, <2>4
  <1> HIDE DEF N
  <1>3. \A k \in Nat : k \in N
    BY <1>1, <1>2, SetInduction
  <1> QED
    BY <1>3 DEF N

\* The intermediate hashes of a verification.
Chain(c, proof, leaf) ==
    /\ c[0] = leaf
    /\ \A k \in 0..Len(proof) : c[k] \in Int
    /\ \A k \in 1..Len(proof) : c[k] = Combine(c[k - 1], proof[k])

LEMMA VerifyChain ==
    ASSUME TreeInv, NEW proof \in Seq(Int), NEW leaf \in Int, NEW root
    PROVE  \E c : /\ Chain(c, proof, leaf)
                  /\ Verify(proof, root, leaf) <=> c[Len(proof)] = root
  <1> DEFINE len == Len(proof)
             Is(s) == s = [k \in 0..len |->
                             IF k = 0 THEN leaf ELSE Combine(s[k - 1], proof[k])]
             c == CHOOSE s : Is(s)
             F == [k \in Nat |-> [x \in Int |->
                     IF k \in 1..len THEN Combine(x, proof[k]) ELSE x]]
  <1>0. len \in Nat /\ \A k \in 1..len : proof[k] \in Int
    OBVIOUS
  <1>1. F \in [Nat -> [Int -> Int]]
    BY <1>0, CombineIsDigest
  <1>2. PICK s \in [0..len -> Int] : Follows(s, len, leaf, F)
    <2>1. leaf \in Int
      OBVIOUS
    <2> HIDE DEF F, len
    <2> QED
      BY <1>0, <1>1, <2>1, FiniteRecursion
  <1>3. \A k \in 1..len : s[k] = Combine(s[k - 1], proof[k])
    <2> SUFFICES ASSUME NEW k \in 1..len PROVE s[k] = Combine(s[k - 1], proof[k])
      OBVIOUS
    <2>2. k \in Nat /\ k - 1 \in 0..len
      <3> HIDE DEF len
      <3> QED
        BY <1>0
    <2>1. k \in Nat /\ k - 1 \in 0..len /\ s[k - 1] \in Int
      BY <1>2, <2>2
    <2> QED
      BY <1>2, <2>1 DEF Follows
  <1> HIDE DEF F
  <1>4. Is(s)
    <2>1. s[0] = leaf
      BY <1>2 DEF Follows
    <2>2. \A k \in 0..len : k # 0 => k \in 1..len
      BY <1>0
    <2> HIDE DEF len
    <2> QED
      BY <1>2, <1>3, <2>1, <2>2
  <1>5. Is(c)
    <2> HIDE DEF Is
    <2> QED
      BY <1>4
  <1>6. Verify(proof, root, leaf) <=> c[len] = root
    BY DEF Verify
  <1> HIDE DEF c
  <1>7. c[0] = leaf /\ \A k \in 1..len : c[k] = Combine(c[k - 1], proof[k])
    <2>1. c[0] = leaf
      BY <1>0, <1>5
    <2>2. \A k \in 1..len : k \in 0..len /\ k # 0
      BY <1>0
    <2> HIDE DEF len
    <2> QED
      BY <1>5, <2>1, <2>2
  <1>8. \A k \in 0..len : c[k] \in Int
    <2> DEFINE N == {k \in Nat : k <= len => c[k] \in Int}
    <2>1. 0 \in N
      BY <1>7
    <2>2. ASSUME NEW k \in Nat, k \in N PROVE k + 1 \in N
      <3> SUFFICES ASSUME k + 1 <= len PROVE c[k + 1] \in Int
        OBVIOUS
      <3>1. k <= len /\ k + 1 \in 1..len /\ (k + 1) - 1 = k
        BY <1>0
      <3>2. c[k] \in Int /\ proof[k + 1] \in Int
        BY <1>0, <2>2, <3>1
      <3>3. c[k + 1] = Combine(c[k], proof[k + 1])
        BY <1>7, <3>1
      <3> QED
        BY <3>2, <3>3, CombineIsDigest
    <2> HIDE DEF N
    <2>3. \A k \in Nat : k \in N
      BY <2>1, <2>2, SetInduction
    <2> QED
      BY <1>0, <2>3 DEF N
  <1> QED
    BY <1>6, <1>7, <1>8 DEF Chain

-----------------------------------------------------------------------------
(* Proofs. *)

\* A node and its sibling combine to their parent.
LEMMA CombineSiblings ==
    ASSUME TreeInv, Built, NEW level, NEW i, Place(Len(items), level, i),
           level < Height
    PROVE  LET n == Len(items)
           IN  Combine(At(n, nodes, level, i),
                       At(n, nodes, level, Sibling(n, level, i)))
                 = At(n, nodes, level + 1, i \div 2)
  <1> DEFINE n == Len(items)
             j == i \div 2
             a == At(n, nodes, level, i)
             b == At(n, nodes, level, Sibling(n, level, i))
             lft == At(n, nodes, level, 2 * j)
             rgt == At(n, nodes, level, Sibling(n, level, 2 * j))
  <1>1. n \in Nat /\ level \in Nat /\ LevelLen(n, level) > 1
    BY TreeSize DEF RootLevel, Place
  <1>2. /\ Place(n, level + 1, j) /\ Place(n, level, Sibling(n, level, i))
        /\ \/ i = 2 * j /\ Sibling(n, level, i) = Sibling(n, level, 2 * j)
           \/ i = Sibling(n, level, 2 * j) /\ Sibling(n, level, i) = 2 * j
    BY <1>1, Parents
  <1>3. /\ Pushed(n, nodes, level, i) /\ Pushed(n, nodes, level, Sibling(n, level, i))
        /\ Pushed(n, nodes, level + 1, j)
    BY <1>2, BuiltTree
  <1>4. a \in Int /\ b \in Int
    BY <1>3, DigestOfPlace
  <1>5. PreimageAt(n, nodes, level + 1, j) = SortedPair(lft, rgt)
    <2>1. level + 1 # 0 /\ (level + 1) - 1 = level
      BY <1>1
    <2> QED
      BY <2>1 DEF PreimageAt
  <1>6. SortedPair(lft, rgt) = SortedPair(a, b)
    <2>1. (lft = a /\ rgt = b) \/ (lft = b /\ rgt = a)
      BY <1>2
    <2> HIDE DEF a, b, lft, rgt
    <2> QED
      BY <1>4, <2>1, PairsCommute
  <1>7. Combine(a, b) = Digest(SortedPair(a, b))
    BY <1>4, CombineIsDigest
  <1>8. Digest(PreimageAt(n, nodes, level + 1, j)) = At(n, nodes, level + 1, j)
    BY <1>3, DigestOfPlace
  <1> QED
    BY <1>5, <1>6, <1>7, <1>8

\* The digest of an item, and its proof.
LEMMA ItemAndProof ==
    ASSUME TreeInv, Built, NEW index \in 0..(Len(items) - 1)
    PROVE  LET n == Len(items)
           IN  /\ index \in Nat /\ Place(n, 0, index)
               /\ Digest(LeafPreimage(items[index + 1])) = At(n, nodes, 0, index)
               /\ GetProof(index) \in Seq(Int)
               /\ Len(GetProof(index)) = Height
               /\ DOMAIN GetProof(index) = 1..Height
               /\ \A k \in 1..Height :
                     GetProof(index)[k]
                       = At(n, nodes, k - 1,
                            Sibling(n, k - 1, NodeIndex(index, k - 1)))
               /\ \A k \in Nat : k <= Height => Place(n, k, NodeIndex(index, k))
  <1> DEFINE n == Len(items)
             g == GetProof(index)
             s(k) == Sibling(n, k - 1, NodeIndex(index, k - 1))
  <1>1. /\ n \in Nat \ {0} /\ RootLevel(n, Height) /\ Height \in Nat
        /\ index \in Nat /\ index < n /\ index + 1 \in 1..n
    BY TreeSize
  <1>2. Place(n, 0, index)
    BY <1>1, LevelLens DEF Place
  <1>3. Digest(LeafPreimage(items[index + 1])) = At(n, nodes, 0, index)
    <2>1. items[index + 1] = <<index + 1>>
      BY <1>1 DEF TreeInv
    <2>2. PreimageAt(n, nodes, 0, index) = LeafPreimage(items[index + 1])
      BY <2>1 DEF PreimageAt
    <2>3. Pushed(n, nodes, 0, index)
      BY <1>2, BuiltTree
    <2> QED
      BY <2>2, <2>3, DigestOfPlace
  <1>4. \A k \in Nat : k <= Height => Place(n, k, NodeIndex(index, k))
    BY <1>1, PathPlaces
  <1>5. g = [k \in 1..Height |-> At(n, nodes, k - 1, s(k))]
    BY DEF GetProof, NodeAt, At, SiblingIndex, Sibling
  <1>6. ASSUME NEW k \in 1..Height PROVE At(n, nodes, k - 1, s(k)) \in Int
    <2>1. k - 1 \in Nat /\ k - 1 < Height /\ k - 1 <= Height
      BY <1>1
    <2>2. Place(n, k - 1, NodeIndex(index, k - 1)) /\ LevelLen(n, k - 1) > 1
      BY <1>1, <1>4, <2>1 DEF RootLevel
    <2>3. Place(n, k - 1, s(k))
      BY <1>1, <2>2, Parents
    <2> QED
      BY <2>3, BuiltTree, DigestOfPlace
  <1>7. g \in Seq(Int) /\ Len(g) = Height /\ DOMAIN g = 1..Height
    <2> HIDE DEF s, g, n
    <2> QED
      BY <1>1, <1>5, <1>6
  <1> QED
    BY <1>1, <1>2, <1>3, <1>4, <1>5, <1>7

\* Every claimant can claim: the proof of each item verifies on chain, in a
\* tree of any size and for any order of the digests.
THEOREM ProofsVerify == Spec => []EveryProofVerifies
  <1>1. TreeInv => EveryProofVerifies
    <2> SUFFICES ASSUME TreeInv, Built, NEW index \in 0..(Len(items) - 1)
                 PROVE  Verify(GetProof(index), GetRoot,
                               Digest(LeafPreimage(items[index + 1])))
      BY DEF EveryProofVerifies
    <2> DEFINE n == Len(items)
               h == Height
               g == GetProof(index)
               leaf == At(n, nodes, 0, index)
               node(k) == At(n, nodes, k, NodeIndex(index, k))
    <2>1. /\ index \in Nat /\ Place(n, 0, index)
          /\ Digest(LeafPreimage(items[index + 1])) = leaf
          /\ g \in Seq(Int) /\ Len(g) = h
          /\ \A k \in 1..h : g[k] = At(n, nodes, k - 1,
                                Sibling(n, k - 1, NodeIndex(index, k - 1)))
          /\ \A k \in Nat : k <= h => Place(n, k, NodeIndex(index, k))
      BY ItemAndProof
    <2>2. leaf \in Int
      BY <2>1, BuiltTree, DigestOfPlace
    <2> HIDE DEF leaf, g
    <2>3. PICK c : /\ Chain(c, g, leaf)
                   /\ Verify(g, GetRoot, leaf) <=> c[Len(g)] = GetRoot
      BY <2>1, <2>2, VerifyChain
    <2>4. h \in Nat /\ n \in Nat /\ RootLevel(n, h)
      BY TreeSize
    <2> HIDE DEF h
    <2>5. \A k \in Nat : k <= h => c[k] = node(k)
      <3> DEFINE N == {k \in Nat : k <= h => c[k] = node(k)}
      <3>1. 0 \in N
        <4>1. NodeIndex(index, 0) = index
          BY <2>1, NodeIndices
        <4> QED
          BY <2>3, <4>1 DEF Chain, leaf
      <3>2. ASSUME NEW k \in Nat, k \in N PROVE k + 1 \in N
        <4> SUFFICES ASSUME k + 1 <= h PROVE c[k + 1] = node(k + 1)
          OBVIOUS
        <4>1. k < h /\ k <= h /\ k + 1 \in 1..h /\ (k + 1) - 1 = k
          BY <2>4
        <4>2. c[k] = node(k)
          BY <3>2, <4>1
        <4>3. c[k + 1] = Combine(c[k], g[k + 1])
          BY <2>1, <2>3, <4>1 DEF Chain
        <4>4. g[k + 1] = At(n, nodes, k, Sibling(n, k, NodeIndex(index, k)))
          BY <2>1, <4>1
        <4>5. Place(n, k, NodeIndex(index, k)) /\ k < Height
          BY <2>1, <4>1 DEF h
        <4>6. NodeIndex(index, k + 1) = NodeIndex(index, k) \div 2
          BY <2>1, NodeIndices
        <4> QED
          BY <4>2, <4>3, <4>4, <4>5, <4>6, CombineSiblings
      <3> HIDE DEF N
      <3>3. \A k \in Nat : k \in N
        BY <3>1, <3>2, SetInduction
      <3> QED
        BY <3>3 DEF N
    <2>6. node(h) = GetRoot
      <3>1. NodeIndex(index, h) = 0
        <4>1. Place(n, h, NodeIndex(index, h)) /\ LevelLen(n, h) = 1
          BY <2>1, <2>4 DEF RootLevel
        <4> QED
          BY <4>1 DEF Place
      <3> QED
        BY <3>1, BuiltTree DEF h
    <2>7. c[h] = GetRoot
      BY <2>4, <2>5, <2>6
    <2> QED
      BY <2>1, <2>3, <2>7 DEF g
  <1> QED
    BY <1>1, TreeInvariant, PTL

\* A verification that goes wrong once never comes back: nothing known is
\* hashed together with an unknown digest.
LEMMA FreshStays ==
    ASSUME TreeInv, NEW a \in Int, NEW b \in Int, a = Fresh \/ b = Fresh
    PROVE  Combine(a, b) = Fresh
  <1> SUFFICES ASSUME Combine(a, b) # Fresh PROVE FALSE
    OBVIOUS
  <1> DEFINE n == Len(items)
  <1>1. Digest(SortedPair(a, b)) # Fresh
    BY CombineIsDigest
  <1>2. PICK l \in Nat, j \in Nat : /\ Pushed(n, nodes, l, j)
                                    /\ SortedPair(a, b) = PreimageAt(n, nodes, l, j)
    BY <1>1, KnownPreimage
  <1>3. l # 0
    <2> SUFFICES ASSUME l = 0 PROVE FALSE
      OBVIOUS
    <2>1. SortedPair(a, b) = LeafPreimage(<<j + 1>>) /\ <<j + 1>> \in Seq(Int)
      BY <1>2 DEF PreimageAt
    <2> QED
      BY <2>1, LeafPreimages
  <1> DEFINE lft == At(n, nodes, l - 1, 2 * j)
             rgt == At(n, nodes, l - 1, Sibling(n, l - 1, 2 * j))
  <1>4. /\ SortedPair(a, b) = SortedPair(lft, rgt)
        /\ Pushed(n, nodes, l - 1, 2 * j) /\ lft \in Int
        /\ Pushed(n, nodes, l - 1, Sibling(n, l - 1, 2 * j)) /\ rgt \in Int
    BY <1>2, <1>3, InnerPreimage
  <1>5. lft # Fresh /\ rgt # Fresh
    BY <1>4, DigestOfPlace
  <1> HIDE DEF lft, rgt
  <1> QED
    BY <1>4, <1>5, PairsDiffer

LEMMA FreshChain ==
    ASSUME TreeInv, NEW proof \in Seq(Int), NEW leaf, NEW c, Chain(c, proof, leaf),
           NEW j \in 0..Len(proof), c[j] = Fresh
    PROVE  c[Len(proof)] = Fresh
  <1> DEFINE len == Len(proof)
             N == {k \in Nat : j <= k /\ k <= len => c[k] = Fresh}
  <1>0. len \in Nat /\ j \in Nat /\ j <= len /\ \A k \in 1..len : proof[k] \in Int
    OBVIOUS
  <1>1. 0 \in N
    BY <1>0
  <1>2. ASSUME NEW k \in Nat, k \in N PROVE k + 1 \in N
    <2> SUFFICES ASSUME j <= k + 1, k + 1 <= len PROVE c[k + 1] = Fresh
      OBVIOUS
    <2>1. CASE j = k + 1
      BY <2>1
    <2>2. CASE j # k + 1
      <3>1. j <= k /\ k <= len /\ k + 1 \in 1..len /\ (k + 1) - 1 = k /\ k \in 0..len
        BY <1>0, <2>2
      <3>2. c[k] = Fresh /\ proof[k + 1] \in Int
        BY <1>0, <1>2, <3>1
      <3>3. c[k + 1] = Combine(c[k], proof[k + 1]) /\ c[k] \in Int
        BY <3>1 DEF Chain
      <3> QED
        BY <3>2, <3>3, FreshStays
    <2> QED
      BY <2>1, <2>2
  <1> HIDE DEF N
  <1>3. \A k \in Nat : k \in N
    BY <1>1, <1>2, SetInduction
  <1> QED
    BY <1>0, <1>3 DEF N

\* The root is no unknown digest.
LEMMA RootKnown ==
    ASSUME TreeInv, Built
    PROVE  Place(Len(items), Height, 0) /\ GetRoot # Fresh
  <1>1. Place(Len(items), Height, 0)
    BY TreeSize DEF Place, RootLevel
  <1> QED
    BY <1>1, BuiltTree, DigestOfPlace

\* Nobody but a claimant can claim: whatever is handed in as a claim and as a
\* proof of any length, the verification rejects what is not an item.
NothingElseVerifies ==
    Built => \A claim \in Seq(Int) \ ToSet(items), proof \in Seq(Int) :
                ~Verify(proof, GetRoot, Digest(LeafPreimage(claim)))

\* That holds of every finished tree.
THEOREM OnlyItems == Spec => []NothingElseVerifies
  <1>1. TreeInv => NothingElseVerifies
    <2> SUFFICES ASSUME TreeInv, Built, NEW claim \in Seq(Int) \ ToSet(items),
                        NEW proof \in Seq(Int)
                 PROVE  ~Verify(proof, GetRoot, Digest(LeafPreimage(claim)))
      BY DEF NothingElseVerifies
    <2> DEFINE n == Len(items)
    <2>1. Digest(LeafPreimage(claim)) = Fresh
      <3> SUFFICES ASSUME Digest(LeafPreimage(claim)) # Fresh PROVE FALSE
        OBVIOUS
      <3>1. PICK l \in Nat, j \in Nat :
               /\ Pushed(n, nodes, l, j)
               /\ LeafPreimage(claim) = PreimageAt(n, nodes, l, j)
        BY KnownPreimage
      <3>2. CASE l = 0
        <4>1. LeafPreimage(claim) = LeafPreimage(<<j + 1>>) /\ j + 1 \in Int
          BY <3>1, <3>2 DEF PreimageAt
        <4>2. claim = <<j + 1>>
          BY <4>1, LeafPreimages
        <4>3. n \in Nat /\ j < n
          <5>1. n \in Nat
            BY TreeSize
          <5> QED
            BY <3>1, <3>2, <5>1, LevelLens DEF Pushed, Place
        <4>4. j + 1 \in 1..n /\ items = [k \in 1..n |-> <<k>>]
          BY <4>3 DEF TreeInv
        <4>5. DOMAIN items = 1..n /\ items[j + 1] = <<j + 1>>
          BY <4>4
        <4> QED
          BY <4>2, <4>4, <4>5 DEF ToSet
      <3>3. CASE l # 0
        <4> DEFINE lft == At(n, nodes, l - 1, 2 * j)
                   rgt == At(n, nodes, l - 1, Sibling(n, l - 1, 2 * j))
        <4>1. LeafPreimage(claim) = SortedPair(lft, rgt) /\ lft \in Int /\ rgt \in Int
          BY <3>1, <3>3, InnerPreimage
        <4> HIDE DEF lft, rgt
        <4> QED
          BY <4>1, LeafPreimages
      <3> QED
        BY <3>2, <3>3
    <2>2. Fresh \in Int
      BY LeavesAssumption DEF Fresh
    <2>3. PICK c : /\ Chain(c, proof, Fresh)
                   /\ Verify(proof, GetRoot, Fresh) <=> c[Len(proof)] = GetRoot
      BY <2>2, VerifyChain
    <2>4. c[0] = Fresh /\ 0 \in 0..Len(proof)
      BY <2>3 DEF Chain
    <2>5. c[Len(proof)] = Fresh
      BY <2>3, <2>4, FreshChain
    <2> QED
      BY <2>1, <2>3, <2>5, RootKnown
  <1> QED
    BY <1>1, TreeInvariant, PTL

\* What the search of the model checker asks of a small tree is a part of it.
THEOREM OnlyItemsSearched == Spec => []OnlyItemsVerify
  <1>1. TreeInv /\ NothingElseVerifies => OnlyItemsVerify
    <2> SUFFICES ASSUME TreeInv, NothingElseVerifies, Built,
                        NEW claim \in Candidates \ ToSet(items),
                        NEW m \in 0..(Len(GetProof(0)) + 1),
                        NEW proof \in [1..m -> {nodes[k] : k \in DOMAIN nodes}]
                 PROVE  ~Verify(proof, GetRoot, Digest(LeafPreimage(claim)))
      BY DEF OnlyItemsVerify
    <2>1. nodes \in Seq(Int) /\ \A k \in DOMAIN nodes : nodes[k] \in Int
      BY DEF TreeInv, Committed
    <2>2. Len(GetProof(0)) \in Nat
      <3>1. 0 \in 0..(Len(items) - 1) /\ Height \in Nat
        BY TreeSize
      <3> QED
        BY <3>1, ItemAndProof
    <2>3. proof \in Seq(Int)
      <3>1. m \in Nat /\ proof \in [1..m -> Int]
        BY <2>1, <2>2
      <3> QED
        BY <3>1
    <2>4. claim \in Seq(Int)
      <3>1. \A k \in Int : <<k>> \in Seq(Int)
        OBVIOUS
      <3>2. \A l, r \in Int : <<l, r>> \in Seq(Int)
        OBVIOUS
      <3>3. \A k \in 1..(MaxLeaves + 1) : k \in Int
        BY LeavesAssumption
      <3> DEFINE known == {nodes[k] : k \in DOMAIN nodes}
      <3>4. \A x \in known : x \in Int
        BY <2>1
      <3> HIDE DEF known
      <3>5. \/ claim \in {<<k>> : k \in 1..(MaxLeaves + 1)}
            \/ claim \in known \X known
        BY DEF Candidates, known
      <3>6. CASE claim \in {<<k>> : k \in 1..(MaxLeaves + 1)}
        BY <3>1, <3>3, <3>6
      <3>7. CASE claim \in known \X known
        <4>1. PICK l \in known, r \in known : claim = <<l, r>>
          BY <3>7
        <4> QED
          BY <3>2, <3>4, <4>1
      <3> QED
        BY <3>5, <3>6, <3>7
    <2> QED
      BY <2>3, <2>4 DEF NothingElseVerifies
  <1> QED
    BY <1>1, TreeInvariant, OnlyItems, PTL

\* An item has one proof, among all sequences of digests of any length.
OneProofVerifies ==
    Built => \A index \in 0..(Len(items) - 1), proof \in Seq(Int) :
                Verify(proof, GetRoot, Digest(LeafPreimage(items[index + 1])))
                  => proof = GetProof(index)

\* That holds of every finished tree.
THEOREM OneProof == Spec => []OneProofVerifies
  <1>1. TreeInv => OneProofVerifies
    <2> SUFFICES ASSUME TreeInv, Built, NEW index \in 0..(Len(items) - 1),
                        NEW proof \in Seq(Int),
                        Verify(proof, GetRoot,
                               Digest(LeafPreimage(items[index + 1])))
                 PROVE  proof = GetProof(index)
      BY DEF OneProofVerifies
    <2> DEFINE n == Len(items)
               h == Height
               len == Len(proof)
               g == GetProof(index)
               leaf == At(n, nodes, 0, index)
               node(k) == At(n, nodes, k, NodeIndex(index, k))
               sib(k) == At(n, nodes, k, Sibling(n, k, NodeIndex(index, k)))
    <2>1. /\ index \in Nat /\ Place(n, 0, index)
          /\ Digest(LeafPreimage(items[index + 1])) = leaf
          /\ g \in Seq(Int) /\ Len(g) = h /\ DOMAIN g = 1..h
          /\ \A k \in 1..h : g[k] = sib(k - 1)
      BY ItemAndProof
    <2>2. leaf \in Int
      BY <2>1, BuiltTree, DigestOfPlace
    <2> HIDE DEF leaf, g
    <2>3. PICK c : /\ Chain(c, proof, leaf)
                   /\ Verify(proof, GetRoot, leaf) <=> c[Len(proof)] = GetRoot
      BY <2>2, VerifyChain
    <2>4. c[len] = GetRoot /\ len \in Nat
      BY <2>1, <2>3
    <2>5. \A k \in 0..len : c[k] # Fresh
      BY <2>3, <2>4, FreshChain, RootKnown
    <2> DEFINE Right(k) == /\ Pushed(n, nodes, k, NodeIndex(index, k))
                           /\ c[k] = node(k)
                           /\ k # 0 => proof[k] = sib(k - 1)
    <2>6. \A k \in Nat : k <= len => Right(k)
      <3> DEFINE N == {k \in Nat : k <= len => Right(k)}
      <3>1. 0 \in N
        <4>1. NodeIndex(index, 0) = index
          BY <2>1, NodeIndices
        <4>2. Pushed(n, nodes, 0, index)
          BY <2>1, BuiltTree
        <4> QED
          BY <2>3, <4>1, <4>2 DEF Chain, leaf
      <3>2. ASSUME NEW k \in Nat, k \in N PROVE k + 1 \in N
        <4> SUFFICES ASSUME k + 1 <= len PROVE Right(k + 1)
          OBVIOUS
        <4>1. /\ k <= len /\ k + 1 \in 1..len /\ k + 1 \in 0..len
              /\ (k + 1) - 1 = k
          BY <2>4
        <4>2. Pushed(n, nodes, k, NodeIndex(index, k)) /\ c[k] = node(k)
          BY <3>2, <4>1
        <4>3. c[k + 1] = Combine(node(k), proof[k + 1])
          BY <2>3, <4>1, <4>2 DEF Chain
        <4>4. proof[k + 1] \in Int
          BY <4>1
        <4>5. Combine(node(k), proof[k + 1]) # Fresh
          BY <2>5, <4>1, <4>3
        <4>6. NodeIndex(index, k + 1) = NodeIndex(index, k) \div 2
          BY <2>1, NodeIndices
        <4>7. /\ Pushed(n, nodes, k + 1, NodeIndex(index, k) \div 2)
              /\ proof[k + 1] = sib(k)
              /\ Combine(node(k), proof[k + 1])
                   = At(n, nodes, k + 1, NodeIndex(index, k) \div 2)
          BY <4>2, <4>4, <4>5, Climb
        <4> QED
          BY <4>1, <4>3, <4>6, <4>7
      <3> HIDE DEF N
      <3>3. \A k \in Nat : k \in N
        BY <3>1, <3>2, SetInduction
      <3> QED
        BY <3>3 DEF N
    <2>7. len = h
      <3>1. Pushed(n, nodes, len, NodeIndex(index, len)) /\ c[len] = node(len)
        BY <2>4, <2>6
      <3>2. Pushed(n, nodes, h, 0) /\ GetRoot = At(n, nodes, h, 0)
        BY RootKnown, BuiltTree
      <3>3. n \in Nat /\ Committed(n, nodes, hashes)
        BY LeavesAssumption DEF TreeInv
      <3> HIDE DEF len, h, n
      <3> QED
        BY <2>4, <3>1, <3>2, <3>3, DigestsDiffer
    <2>8. \A k \in 1..h : proof[k] = sib(k - 1)
      <3> SUFFICES ASSUME NEW k \in 1..h PROVE proof[k] = sib(k - 1)
        OBVIOUS
      <3>1. k \in Nat /\ k <= len /\ k # 0
        BY <2>4, <2>7
      <3> QED
        BY <2>6, <3>1
    <2>9. \A k \in 1..h : proof[k] = g[k]
      BY <2>1, <2>8
    <2>10. Len(proof) = Len(g) /\ proof \in Seq(Int) /\ g \in Seq(Int)
      BY <2>1, <2>7
    <2> HIDE DEF h, sib
    <2> QED
      BY <2>1, <2>9, <2>10 DEF g
  <1> QED
    BY <1>1, TreeInvariant, PTL

\* And so among the sequences the model checker searches.
THEOREM OneProofSearched == Spec => []ProofsAreUnique
  <1>1. TreeInv /\ OneProofVerifies => ProofsAreUnique
    <2> SUFFICES ASSUME TreeInv, OneProofVerifies, Built,
                        NEW index \in 0..(Len(items) - 1),
                        NEW m \in 0..(Len(GetProof(0)) + 1),
                        NEW proof \in [1..m -> {nodes[k] : k \in DOMAIN nodes}],
                        Verify(proof, GetRoot,
                               Digest(LeafPreimage(items[index + 1])))
                 PROVE  proof = GetProof(index)
      BY DEF ProofsAreUnique
    <2>1. nodes \in Seq(Int) /\ \A k \in DOMAIN nodes : nodes[k] \in Int
      BY DEF TreeInv, Committed
    <2>2. Len(GetProof(0)) \in Nat
      <3>1. 0 \in 0..(Len(items) - 1) /\ Height \in Nat
        BY TreeSize
      <3> QED
        BY <3>1, ItemAndProof
    <2>3. m \in Nat /\ proof \in [1..m -> Int]
      BY <2>1, <2>2
    <2>4. proof \in Seq(Int)
      BY <2>3
    <2> QED
      BY <2>4 DEF OneProofVerifies
  <1> QED
    BY <1>1, TreeInvariant, OneProof, PTL

=============================================================================
