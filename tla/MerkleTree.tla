----------------------------- MODULE MerkleTree -----------------------------
(***************************************************************************)
(* The merkle tree that commits to the allocations (MerkleTree::new with   *)
(* sorted hashes), the proofs taken from it (find_path, get_proof) and the *)
(* verification the program runs on chain (jito_merkle_verify::verify).    *)
(*                                                                         *)
(* SHA-256 is an oracle without collisions whose outputs come in an order  *)
(* nobody chose: a digest seen for the first time is above or below every  *)
(* earlier one.  Two siblings are compared once, when the later of them    *)
(* exists, so these two choices produce every outcome of every comparison  *)
(* that the construction and the verification make.                        *)
(***************************************************************************)
EXTENDS Integers, SequencesExt

CONSTANTS
    MaxLeaves,     \* bound on the number of items
    MaxSearched    \* bound on the items of a tree whose proofs are searched

ASSUME LeavesAssumption == MaxLeaves \in Nat \ {0} /\ MaxSearched \in Nat

VARIABLES
    items,    \* the hashed claims handed to MerkleTree::new
    nodes,    \* the digests pushed so far, level by level
    hashes    \* the oracle: every preimage hashed so far, and its digest

vars == <<items, nodes, hashes>>

\* Bytes to be hashed are tuples, so that a claim and a pair of digests
\* differ in length as they do in the program.
LEAF_PREFIX == 0
INTERMEDIATE_PREFIX == 1
\* A slip for comparison: leaves and inner nodes share a prefix.
LeafPreimageAmbiguous(item) == <<INTERMEDIATE_PREFIX>> \o item
LeafPreimage(item) == <<LEAF_PREFIX>> \o item
IntermediatePreimage(l, r) == <<INTERMEDIATE_PREFIX, l, r>>

\* The digest of a preimage nobody has hashed: no digest of the tree.
Fresh == 4 * MaxLeaves
Digest(preimage) ==
    IF preimage \in DOMAIN hashes THEN hashes[preimage] ELSE Fresh

-----------------------------------------------------------------------------
(* The layout of the levels in the node vector. *)

\* A slip for comparison: the root's level has a parent.
NextLevelLenEndless(level_len) == (level_len + 1) \div 2

NextLevelLen(level_len) ==
    IF level_len = 1 THEN 0 ELSE (level_len + 1) \div 2

LevelLen(leaf_count, level) ==
    LET len[k \in Nat] ==
            IF k = 0 THEN leaf_count ELSE NextLevelLen(len[k - 1])
    IN  len[level]

LevelStart(leaf_count, level) ==
    LET start[k \in Nat] ==
            IF k = 0 THEN 0 ELSE start[k - 1] + LevelLen(leaf_count, k - 1)
    IN  start[level]

Levels == 0..MaxLeaves

\* The level that the next digest belongs to.
Filling(level) ==
    /\ LevelStart(Len(items), level) <= Len(nodes)
    /\ Len(nodes) < LevelStart(Len(items), level + 1)

Built == \A level \in Levels : ~Filling(level)

\* Node number i, from 0, of a level.
NodeAt(level, i) == nodes[LevelStart(Len(items), level) + i + 1]

\* The place of the neighbour: an unpaired last node is its own.
SiblingIndex(level, i) ==
    IF i % 2 = 1
    THEN i - 1
    ELSE IF i + 1 < LevelLen(Len(items), level) THEN i + 1 ELSE i

-----------------------------------------------------------------------------
(* MerkleTree::new, one digest at a time. *)

Push(preimage) ==
    LET known == {nodes[k] : k \in DOMAIN nodes}
    IN  \E digest \in IF preimage \in DOMAIN hashes
                      THEN {hashes[preimage]}
                      ELSE {Max({0} \cup known) + 1, Min({0} \cup known) - 1} :
            /\ nodes' = Append(nodes, digest)
            /\ hashes' = [p \in DOMAIN hashes \cup {preimage} |->
                             IF p = preimage THEN digest ELSE hashes[p]]
            /\ UNCHANGED items

\* A slip for comparison: a leaf that is not hashed.
PushLeafUnhashed ==
    /\ Filling(0)
    /\ nodes' = Append(nodes, Fresh)
    /\ UNCHANGED <<items, hashes>>

PushLeaf ==
    /\ Filling(0)
    /\ Push(LeafPreimage(items[Len(nodes) + 1]))

\* The two children are hashed in the order of their digests.
PushIntermediate(level) ==
    LET i == Len(nodes) - LevelStart(Len(items), level)
        lsib == NodeAt(level - 1, 2 * i)
        rsib == NodeAt(level - 1, SiblingIndex(level - 1, 2 * i))
    IN  /\ Filling(level)
        /\ Push(IF lsib <= rsib
                THEN IntermediatePreimage(lsib, rsib)
                ELSE IntermediatePreimage(rsib, lsib))

-----------------------------------------------------------------------------
(* Proofs. *)

GetRoot == Last(nodes)

\* The first level of one node only, which is the root's.
Height ==
    CHOOSE h \in Levels :
        /\ LevelLen(Len(items), h) = 1
        /\ \A k \in 0..(h - 1) : LevelLen(Len(items), k) # 1

\* Where the path from a leaf to the root passes a level.
NodeIndex(index, level) ==
    LET node_index[k \in Nat] ==
            IF k = 0 THEN index ELSE node_index[k - 1] \div 2
    IN  node_index[level]

\* One sibling for every level below the root.
GetProof(index) ==
    [k \in 1..Height |->
        NodeAt(k - 1, SiblingIndex(k - 1, NodeIndex(index, k - 1)))]

\* A slip for comparison: the pair is not sorted.
CombineUnsorted(computed_hash, proof_element) ==
    Digest(IntermediatePreimage(computed_hash, proof_element))

\* The digest of a pair, in the order of the two digests.
Combine(computed_hash, proof_element) ==
    IF computed_hash <= proof_element
    THEN Digest(IntermediatePreimage(computed_hash, proof_element))
    ELSE Digest(IntermediatePreimage(proof_element, computed_hash))

\* A slip for comparison: nothing is combined any more once the root is met.
VerifyEager(proof, root, leaf) ==
    LET computed_hash[k \in 0..Len(proof)] ==
            IF k = 0 THEN leaf
            ELSE IF computed_hash[k - 1] = root THEN root
            ELSE Combine(computed_hash[k - 1], proof[k])
    IN  computed_hash[Len(proof)] = root

\* The on-chain verification: the elements of the proof are combined with the
\* leaf, one after the other.
Verify(proof, root, leaf) ==
    LET computed_hash[k \in 0..Len(proof)] ==
            IF k = 0 THEN leaf ELSE Combine(computed_hash[k - 1], proof[k])
    IN  computed_hash[Len(proof)] = root

-----------------------------------------------------------------------------
\* The items are distinct: AirdropMerkleTree::new merges the rows of one
\* claimant before it hashes them.
Init ==
    /\ \E n \in 1..MaxLeaves : items = [k \in 1..n |-> <<k>>]
    /\ nodes = <<>>
    /\ hashes = <<>>

Next ==
    \/ PushLeaf
    \/ \E level \in Levels \ {0} : PushIntermediate(level)

Spec == Init /\ [][Next]_vars /\ WF_vars(Next)

-----------------------------------------------------------------------------
(* Properties. *)

\* The vector never outgrows the tree and holds digests of the oracle only.
TypeOK ==
    /\ Len(items) \in 1..MaxLeaves
    /\ Len(nodes) <= LevelStart(Len(items), MaxLeaves + 1)
    /\ \A k \in DOMAIN nodes : \E p \in DOMAIN hashes : hashes[p] = nodes[k]

\* Every claimant can claim: the proof generated for each item verifies on
\* chain against the root, whatever the number of leaves and however the
\* digests happen to be ordered.
EveryProofVerifies ==
    Built => \A index \in 0..(Len(items) - 1) :
                Verify(GetProof(index), GetRoot,
                       Digest(LeafPreimage(items[index + 1])))

\* What a claim may hash besides the items of the tree: another claim, or
\* the two digests below an inner node.
Candidates ==
    LET known == {nodes[k] : k \in DOMAIN nodes}
    IN  {<<k>> : k \in 1..(MaxLeaves + 1)} \cup (known \X known)

\* Nobody else can: no sequence of known digests, of any length up to one
\* more than a proof has, makes the verification accept a claim that is not
\* an item of the tree.
OnlyItemsVerify ==
    Built /\ Len(items) <= MaxSearched =>
        LET known == {nodes[k] : k \in DOMAIN nodes}
            lengths == 0..(Len(GetProof(0)) + 1)
        IN  \A claim \in Candidates \ ToSet(items) :
                \A proof \in UNION {[1..n -> known] : n \in lengths} :
                    ~Verify(proof, GetRoot, Digest(LeafPreimage(claim)))

\* An item has one proof only: the index of a claim cannot be represented in
\* two ways.
ProofsAreUnique ==
    Built /\ Len(items) <= MaxSearched =>
        LET known == {nodes[k] : k \in DOMAIN nodes}
            lengths == 0..(Len(GetProof(0)) + 1)
        IN  \A index \in 0..(Len(items) - 1) :
                \A proof \in UNION {[1..n -> known] : n \in lengths} :
                    Verify(proof, GetRoot,
                           Digest(LeafPreimage(items[index + 1])))
                      => proof = GetProof(index)

\* The construction ends at the root: the loop over the levels stops at the
\* first level of one node, whose digest is the last of the vector.
RootIsReached == <>(Built /\ Len(nodes) = LevelStart(Len(items), Height) + 1)

=============================================================================
