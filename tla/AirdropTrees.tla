---------------------------- MODULE AirdropTrees ----------------------------
(***************************************************************************)
(* From the allocation file to the proofs that users fetch: the            *)
(* create-merkle-tree command cuts the CSV into trees and writes them to a *)
(* folder, which may hold the trees of earlier runs; the API loads the     *)
(* folder at start-up, and generate-kv-proof turns the same folder into    *)
(* key-value files.  create-merkle-tree-blob may put a binary copy of each *)
(* tree beside it.  Each command is its loop, one action per iteration,    *)
(* and each can panic on the way.                                          *)
(*                                                                         *)
(* A merkle proof is named by the tree and the position it was made for:   *)
(* module MerkleTree checks that such a proof verifies.                    *)
(***************************************************************************)
EXTENDS Integers, Sequences, FiniteSets, SequencesExt

CONSTANTS
    Users,
    UiAmounts,    \* amounts in a CSV row, in UiScale-ths of a token
    Plans,        \* the runs of create-merkle-tree into one folder
    UiScale,
    Scale,        \* 10^decimals, the base units of one token
    MaxU64,       \* the largest u64
    MaxRows,      \* bound on the rows of a CSV
    FileSizes,    \* arguments for max_entries_per_file
    Radix         \* the base in which a file name spells its index

ASSUME AmountsAssumption ==
    /\ UiAmounts \subseteq Int
    /\ UiScale \in Nat \ {0}
    /\ Scale \in Nat \ {0}
    /\ MaxU64 \in Nat

Row == [pubkey : Users, amount : UiAmounts]

ASSUME SizesAssumption ==
    /\ MaxRows \in Nat
    /\ \A runs \in Plans :
          /\ runs \in Seq([csv : Seq(Row), max_nodes_per_tree : Nat])
          /\ runs # <<>>
          /\ \A run \in ToSet(runs) : Len(run.csv) <= MaxRows
    /\ FileSizes \subseteq Nat
    /\ Radix \in Nat \ {0, 1}

VARIABLES
    plan,       \* the runs of create-merkle-tree that are still to come
    create,     \* create-merkle-tree: is it running, done, or did it panic?
    csv,        \* the rows of the allocation file of the latest run
    maxNodes,   \* its argument max_nodes_per_tree
    rest,       \* the rows not yet put in a tree
    index,      \* how many trees this run has written
    disk,       \* the trees in the folder; tree_i.json is disk[i + 1]
    blobs,      \* and tree_i.bin is blobs[i + 1]
    api,        \* the API server: down, loading, serving or panicked
    unread,     \* the trees it has still to load
    state,      \* its RouterState
    kv,         \* generate-kv-proof: idle, running, done or panicked
    maxEntries, \* its argument max_entries_per_file
    toAdd,      \* the trees it has still to finish
    added,      \* how many nodes of the first of these it has handled
    proofs,     \* the entries not yet written
    files       \* the key-value files written

createVars == <<plan, create, csv, maxNodes, rest, index, disk, blobs>>
apiVars == <<api, unread, state>>
kvVars == <<kv, maxEntries, toAdd, added, proofs, files>>
vars == <<createVars, apiVars, kvVars>>

-----------------------------------------------------------------------------
(* Trees. *)

\* ui_amount_to_token_amount: the floor, and a cast that saturates.
TokenAmount(amount) ==
    LET units == (amount * Scale) \div UiScale
    IN  CASE units < 0 -> 0
          [] units > MaxU64 -> MaxU64
          [] OTHER -> units

FromCsv(row) == [claimant |-> row.pubkey, amount |-> TokenAmount(row.amount)]

Nodes(rows) == [i \in DOMAIN rows |-> FromCsv(rows[i])]

Total(nodes) == SumFunction([i \in DOMAIN nodes |-> nodes[i].amount])

Claimants(nodes) == {nodes[i].claimant : i \in DOMAIN nodes}

\* Slips for comparison: duplicates are kept; the last one replaces the others.
MergedTwice(nodes, node) == Append(nodes, node)

MergedReplacing(nodes, node) ==
    IF node.claimant \in Claimants(nodes)
    THEN [i \in DOMAIN nodes |->
            IF nodes[i].claimant = node.claimant THEN node ELSE nodes[i]]
    ELSE Append(nodes, node)

\* A node joins those before it: one of the same claimant gets its amount.
Merged(nodes, node) ==
    IF node.claimant \in Claimants(nodes)
    THEN [i \in DOMAIN nodes |->
            IF nodes[i].claimant = node.claimant
            THEN [nodes[i] EXCEPT !.amount = @ + node.amount]
            ELSE nodes[i]]
    ELSE Append(nodes, node)

\* Nodes of the same claimant are combined where the first one stood.
Combine(nodes) ==
    LET combined[n \in 0..Len(nodes)] ==
            IF n = 0 THEN <<>> ELSE Merged(combined[n - 1], nodes[n])
    IN  combined[Len(nodes)]

NewTree(rows, version) ==
    LET nodes == Combine(Nodes(rows))
    IN  [airdrop_version |-> version,
         max_num_nodes |-> Len(nodes),
         max_total_claim |-> Total(nodes),
         tree_nodes |-> [i \in DOMAIN nodes |->
                           [claimant |-> nodes[i].claimant,
                            amount |-> nodes[i].amount,
                            proof |-> <<version, i>>]]]

\* A slip for comparison: sums may overflow.
ValidUnbounded(tree) ==
    /\ tree.tree_nodes # <<>>
    /\ Cardinality(Claimants(tree.tree_nodes)) = Len(tree.tree_nodes)

\* AirdropMerkleTree::validate, and the sums that must fit before it is
\* reached.  A tree without nodes has no root.
Valid(tree) ==
    /\ tree.tree_nodes # <<>>
    /\ tree.max_total_claim <= MaxU64
    /\ Len(tree.tree_nodes) = tree.max_num_nodes
    /\ Cardinality(Claimants(tree.tree_nodes)) = Len(tree.tree_nodes)
    /\ Total(tree.tree_nodes) = tree.max_total_claim

\* The index of a file as its name spells it.
Digits[n \in Nat] ==
    IF n < Radix THEN <<n>> ELSE Append(Digits[n \div Radix], n % Radix)

\* Paths are sorted as strings: tree_10.json comes before tree_2.json, and
\* after tree_1.json because '.' sorts before the digits.
PathBefore(i, j) ==
    LET a == Digits[i]
        b == Digits[j]
    IN  \E k \in 0..Len(a) :
            /\ k < Len(b)
            /\ SubSeq(a, 1, k) = SubSeq(b, 1, k)
            /\ k = Len(a) \/ a[k + 1] < b[k + 1]

\* The numbers from 1 to n in the order that a relation gives them.
Order(n, before) ==
    [k \in 1..n |-> CHOOSE i \in 1..n :
        Cardinality({j \in 1..n : <<j, i>> \in before}) = k - 1]

\* The sorted paths of a folder of n trees: the k-th is that of tree i - 1.
Paths ==
    [n \in 0..MaxRows |->
        Order(n, {e \in (1..n) \X (1..n) : PathBefore(e[1] - 1, e[2] - 1)})]

Copies == IF blobs = <<>> THEN 1 ELSE 2

\* The trees in the order in which the API reads them: each path is followed
\* by that of its JSON file, because .bin sorts before .json.
TreesRead ==
    [k \in 1..(Copies * Len(disk)) |->
        LET i == Paths[Len(disk)][((k - 1) \div Copies) + 1]
        IN  IF Copies = 2 /\ k % 2 = 1 THEN blobs[i] ELSE disk[i]]

-----------------------------------------------------------------------------
(* create-merkle-tree and create-merkle-tree-blob *)

\* The files after tree_i.json was written, over an old one or as a new one.
WriteFile(trees, i, tree) ==
    IF i < Len(trees) THEN [trees EXCEPT ![i + 1] = tree]
                      ELSE Append(trees, tree)

\* The rows of the next tree: what is left for the last one.
ChunkSize == IF maxNodes < Len(rest) THEN maxNodes ELSE Len(rest)
Chunk == SubSeq(rest, 1, ChunkSize)

\* A slip for comparison: the trees of an earlier run are not replaced.
CreateTreeAppending ==
    LET tree == NewTree(Chunk, index)
    IN  /\ create = "running"
        /\ rest # <<>>
        /\ Valid(tree)
        /\ disk' = Append(disk, tree)
        /\ index' = index + 1
        /\ rest' = SubSeq(rest, ChunkSize + 1, Len(rest))
        /\ UNCHANGED <<plan, create, csv, maxNodes, blobs, apiVars, kvVars>>

\* One iteration of process_create_merkle_tree: File::create replaces the
\* file of that name.  An error of AirdropMerkleTree::new ends the process;
\* the trees before it stay.
CreateTree ==
    LET tree == NewTree(Chunk, index)
    IN  /\ create = "running"
        /\ rest # <<>>
        /\ \/ /\ Valid(tree)
              /\ disk' = WriteFile(disk, index, tree)
              /\ index' = index + 1
              /\ rest' = SubSeq(rest, ChunkSize + 1, Len(rest))
              /\ create' = "running"
           \/ /\ ~Valid(tree)
              /\ create' = "panicked"
              /\ UNCHANGED <<index, disk, rest>>
        /\ UNCHANGED <<plan, csv, maxNodes, blobs, apiVars, kvVars>>

FinishCreate ==
    /\ create = "running"
    /\ rest = <<>>
    /\ create' = "done"
    /\ UNCHANGED <<plan, csv, maxNodes, rest, index, disk, blobs, apiVars,
                   kvVars>>

\* The command is run again into the same folder, which is not emptied.
CreateAgain ==
    /\ create \in {"done", "panicked"}
    /\ plan # <<>>
    /\ plan' = Tail(plan)
    /\ create' = "running"
    /\ csv' = Head(plan).csv
    /\ maxNodes' = Head(plan).max_nodes_per_tree
    /\ rest' = csv'
    /\ index' = 0
    /\ UNCHANGED <<disk, blobs, apiVars, kvVars>>

\* create-merkle-tree-blob with the folder itself for its output.  The copies
\* are written in one action: nothing reads the folder meanwhile.
CreateBlobs ==
    /\ create = "done"
    /\ plan = <<>>
    /\ api = "down"
    /\ kv = "idle"
    /\ blobs = <<>>
    /\ blobs' = disk
    /\ UNCHANGED <<plan, create, csv, maxNodes, rest, index, disk, apiVars,
                   kvVars>>

-----------------------------------------------------------------------------
(* The API. *)

\* A map without entries, and one after entries were inserted in it.
Empty == [key \in {} |-> key]

With(map, entries) ==
    [key \in DOMAIN map \cup DOMAIN entries |->
        IF key \in DOMAIN entries THEN entries[key] ELSE map[key]]

\* What is kept of a node: its tree, its amount and its proof.
Entry(tree, i) ==
    [merkle_tree |-> tree.airdrop_version,
     amount |-> tree.tree_nodes[i].amount,
     proof |-> tree.tree_nodes[i].proof]

NoState ==
    [max_num_nodes |-> 0, max_total_claim |-> 0, trees |-> <<>>,
     tree |-> Empty]

StartApi ==
    /\ create = "done"
    /\ plan = <<>>
    /\ api = "down"
    /\ api' = "loading"
    /\ unread' = TreesRead
    /\ UNCHANGED <<createVars, state, kvVars>>

\* The user map after a tree's nodes are inserted one by one: an entry that an
\* earlier node or tree made for the same claimant is replaced.
Inserted(map, tree) ==
    With(map, [user \in Claimants(tree.tree_nodes) |->
                 LET at == {i \in DOMAIN tree.tree_nodes :
                              tree.tree_nodes[i].claimant = user}
                 IN  Entry(tree, CHOOSE i \in at : \A j \in at : j <= i)])

\* One iteration of main's loop; the sums are checked_add.
LoadTree ==
    LET tree == Head(unread)
        total == state.max_total_claim + tree.max_total_claim
    IN  /\ api = "loading"
        /\ unread # <<>>
        /\ \/ /\ total <= MaxU64
              /\ unread' = Tail(unread)
              /\ state' =
                   [max_num_nodes |-> state.max_num_nodes + tree.max_num_nodes,
                    max_total_claim |-> total,
                    trees |-> Append(state.trees, tree.airdrop_version),
                    tree |-> Inserted(state.tree, tree)]
              /\ UNCHANGED api
           \/ /\ total > MaxU64
              /\ api' = "panicked"
              /\ UNCHANGED <<unread, state>>
        /\ UNCHANGED <<createVars, kvVars>>

\* The list of versions, sorted.
SortVersions(list) ==
    LET n == Len(list)
        order == Order(n, {e \in (1..n) \X (1..n) :
                             \/ list[e[1]] < list[e[2]]
                             \/ list[e[1]] = list[e[2]] /\ e[1] < e[2]})
    IN  [k \in 1..n |-> list[order[k]]]

\* A slip for comparison: the server is bound before all files are read.
ServeEarly ==
    /\ api = "loading"
    /\ api' = "serving"
    /\ state' = [state EXCEPT !.trees = SortVersions(@)]
    /\ UNCHANGED <<createVars, unread, kvVars>>

Serve ==
    /\ api = "loading"
    /\ unread = <<>>
    /\ api' = "serving"
    /\ state' = [state EXCEPT !.trees = SortVersions(@)]
    /\ UNCHANGED <<createVars, unread, kvVars>>

\* GET /distributor/user/:user_pubkey answers for these users, and so.
GetUserInfo(user) == state.tree[user]

-----------------------------------------------------------------------------
(* generate-kv-proof *)

\* Every file is read as JSON: a binary one, if there is any, comes first and
\* is a panic.
StartKv(max_entries_per_file) ==
    /\ create = "done"
    /\ plan = <<>>
    /\ kv = "idle"
    /\ kv' = IF blobs = <<>> THEN "running" ELSE "panicked"
    /\ maxEntries' = max_entries_per_file
    /\ toAdd' = TreesRead
    /\ UNCHANGED <<createVars, apiVars, added, proofs, files>>

\* The entries with that of the next node.
WithNext ==
    LET tree == Head(toAdd)
        node == tree.tree_nodes[added + 1]
    IN  With(proofs, [user \in {node.claimant} |-> Entry(tree, added + 1)])

\* The two nested loops go on to the next node, or to the first of the next
\* tree.
Advance ==
    \/ /\ added + 1 < Len(Head(toAdd).tree_nodes)
       /\ added' = added + 1
       /\ UNCHANGED toAdd
    \/ /\ added + 1 >= Len(Head(toAdd).tree_nodes)
       /\ added' = 0
       /\ toAdd' = Tail(toAdd)

\* A slip for comparison: the file is written without the entry that fills it.
AddProofDropping ==
    /\ kv = "running"
    /\ toAdd # <<>>
    /\ Advance
    /\ \/ /\ Cardinality(DOMAIN WithNext) >= maxEntries
          /\ files' = Append(files, proofs)
          /\ proofs' = Empty
       \/ /\ Cardinality(DOMAIN WithNext) < maxEntries
          /\ proofs' = WithNext
          /\ UNCHANGED files
    /\ UNCHANGED <<createVars, apiVars, kv, maxEntries>>

\* One node: it is added to the present file, which is written when full.
AddProof ==
    /\ kv = "running"
    /\ toAdd # <<>>
    /\ Advance
    /\ \/ /\ Cardinality(DOMAIN WithNext) >= maxEntries
          /\ files' = Append(files, WithNext)
          /\ proofs' = Empty
       \/ /\ Cardinality(DOMAIN WithNext) < maxEntries
          /\ proofs' = WithNext
          /\ UNCHANGED files
    /\ UNCHANGED <<createVars, apiVars, kv, maxEntries>>

\* A slip for comparison: the command ends only when nothing is left over.
FinishKvIfEmpty ==
    /\ kv = "running"
    /\ toAdd = <<>>
    /\ proofs = Empty
    /\ kv' = "done"
    /\ UNCHANGED <<createVars, apiVars, maxEntries, toAdd, added, proofs, files>>

FinishKv ==
    /\ kv = "running"
    /\ toAdd = <<>>
    /\ kv' = "done"
    /\ files' = IF proofs # Empty THEN Append(files, proofs) ELSE files
    /\ UNCHANGED <<createVars, apiVars, maxEntries, toAdd, added, proofs>>

\* The key-value store once the files are uploaded in their order: a later
\* file replaces the entries of an earlier one.
KvStore ==
    [user \in UNION {DOMAIN files[k] : k \in DOMAIN files} |->
        LET in == {k \in DOMAIN files : user \in DOMAIN files[k]}
        IN  files[CHOOSE k \in in : \A l \in in : l <= k][user]]

-----------------------------------------------------------------------------
Init ==
    /\ \E runs \in Plans :
          /\ plan = Tail(runs)
          /\ csv = Head(runs).csv
          /\ maxNodes = Head(runs).max_nodes_per_tree
    /\ create = "running"
    /\ rest = csv
    /\ index = 0
    /\ disk = <<>>
    /\ blobs = <<>>
    /\ api = "down"
    /\ unread = <<>>
    /\ state = NoState
    /\ kv = "idle"
    /\ maxEntries = 0
    /\ toAdd = <<>>
    /\ added = 0
    /\ proofs = Empty
    /\ files = <<>>

Next ==
    \/ CreateTree
    \/ FinishCreate
    \/ CreateAgain
    \/ CreateBlobs
    \/ StartApi
    \/ LoadTree
    \/ Serve
    \/ \E n \in FileSizes : StartKv(n)
    \/ AddProof
    \/ FinishKv

\* A command that has been started runs until it ends.
Fairness ==
    /\ WF_vars(CreateTree \/ FinishCreate)
    /\ WF_vars(LoadTree \/ Serve)
    /\ WF_vars(AddProof \/ FinishKv)

Spec == Init /\ [][Next]_vars /\ Fairness

-----------------------------------------------------------------------------
(* Properties. *)

ClaimInfo == [merkle_tree : 0..MaxRows, amount : 0..MaxU64,
              proof : (0..MaxRows) \X (1..MaxRows)]

\* Every command is at a point of its loop and its data have their types; no
\* written amount leaves the range of a u64.
TypeOK ==
    /\ create \in {"running", "done", "panicked"}
    /\ \A t \in ToSet(disk) :
          /\ t.airdrop_version \in 0..MaxRows
          /\ t.max_num_nodes \in 1..MaxRows
          /\ t.max_total_claim \in 0..MaxU64
    /\ api \in {"down", "loading", "serving", "panicked"}
    /\ state.max_total_claim \in 0..MaxU64
    /\ \A u \in DOMAIN state.tree : u \in Users /\ state.tree[u] \in ClaimInfo
    /\ kv \in {"idle", "running", "done", "panicked"}
    /\ \A u \in DOMAIN proofs : u \in Users /\ proofs[u] \in ClaimInfo

\* What a list of nodes promises a user, and what the CSV does.
AmountOf(user, nodes) ==
    SumFunction([i \in DOMAIN nodes |->
                    IF nodes[i].claimant = user THEN nodes[i].amount ELSE 0])
Allocation(user) == AmountOf(user, Nodes(csv))
Entitled == {csv[i].pubkey : i \in DOMAIN csv}

\* The trees of an earlier run that this one has not replaced, and who is in
\* them.
Leftovers == (index + 1)..Len(disk)
LeftOver == UNION {Claimants(disk[i].tree_nodes) : i \in Leftovers}

\* However the rows fall into trees, and whatever was in the folder, the trees
\* of a run together promise each user exactly the user's rows: no row is
\* dropped or put in two trees, and no old tree stands where a new one should.
NothingLost ==
    create = "done" =>
        \A user \in Users :
            Allocation(user)
              = SumFunction([i \in 1..index |-> AmountOf(user, disk[i].tree_nodes)])

\* create-merkle-tree gives up only for a tree size of zero or where the rows
\* of the tree it is about to write add up beyond a u64, however large those
\* that follow are: AirdropMerkleTree::validate rejects no other tree that
\* AirdropMerkleTree::new built.
OnlyOverflowAborts ==
    create = "panicked" =>
        \/ maxNodes = 0
        \/ Total(Nodes(Chunk)) > MaxU64

\* Once the API serves, everybody in the CSV gets an answer, and the answer
\* is a leaf of the tree it names with the proof made for that leaf.  So does
\* everybody in a tree that an earlier run left behind, and nobody else.
EverybodyServed ==
    api = "serving" =>
        /\ DOMAIN state.tree = Entitled \cup LeftOver
        /\ \A user \in DOMAIN state.tree :
              LET info == GetUserInfo(user)
                  nodes == disk[info.merkle_tree + 1].tree_nodes
              IN  \E i \in DOMAIN nodes :
                      /\ nodes[i] = [claimant |-> user,
                                     amount |-> info.amount,
                                     proof |-> info.proof]
                      /\ info.proof = <<info.merkle_tree, i>>

\* The totals of GET /distributor/distributors are those of the CSV, with the
\* trees left behind by an earlier run added, and twice that if the folder
\* holds each tree in both forms.  Its list is in the order of the versions,
\* although the files were read in the order of their names.
TotalsReported ==
    api = "serving" =>
        /\ state.max_total_claim
             = Copies * (Total(Nodes(csv))
                           + SumFunction([i \in Leftovers |->
                                            Total(disk[i].tree_nodes)]))
        /\ state.trees = [i \in 1..(Copies * Len(disk)) |-> (i - 1) \div Copies]

\* verify_kv_proof's assertions: for every user the key-value store and the
\* API give the same tree, amount and proof, wherever the files were cut.
KvAgreesWithApi ==
    api = "serving" /\ kv = "done" => KvStore = state.tree

\* Each command ends, a tree size of zero included.
CommandsEnd ==
    /\ (create = "running") ~> (create # "running")
    /\ (api = "loading") ~> (api \in {"serving", "panicked"})
    /\ (kv = "running") ~> (kv = "done")

\* check-api-returns-all-keys: for each row of the CSV, converted without a
\* limit, the API is asked for the user and the amounts are compared.
CheckAgainstApi ==
    \A row \in ToSet(csv) :
        /\ row.pubkey \in DOMAIN state.tree
        /\ GetUserInfo(row.pubkey).amount = (row.amount * Scale) \div UiScale

\* Where check-api-returns-all-keys reports that the data of the API fully
\* match the CSV, the API answers everybody with all that the CSV allocates.
CheckedMeansServed ==
    api = "serving" /\ CheckAgainstApi =>
        \A user \in Entitled : GetUserInfo(user).amount = Allocation(user)

=============================================================================
