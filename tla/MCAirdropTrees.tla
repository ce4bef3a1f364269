--------------------------- MODULE MCAirdropTrees ---------------------------
(***************************************************************************)
(* Every CSV of up to two rows, every one of three rows with amounts that  *)
(* fit, and every one of five rows of one amount: cut into trees of one    *)
(* row each, five are enough for the names, spelled in base two, to sort   *)
(* differently from the versions, as tree_10 sorts before tree_2.  The     *)
(* smaller CSVs are also put into a folder that an earlier run has used,   *)
(* for two trees, for one of two rows, or for one before it gave up.       *)
(***************************************************************************)
EXTENDS AirdropTrees

CONSTANTS TreeSizes   \* arguments for max_nodes_per_tree

MCRows(amounts) == [pubkey : Users, amount : amounts]

\* Amounts are in tenths of a token of two base units: 0.5 is one unit, 1.4
\* is rounded down to two and 6 is beyond the largest u64, which is 9.
MCAmounts == {5, 14, 60}

MCSmallCsvs ==
    UNION {[1..n -> MCRows({5, 60})] : n \in 0..1} \cup [1..2 -> MCRows({5, 14})]

MCCsvs ==
    UNION {[1..n -> Row] : n \in 0..2}
      \cup [1..3 -> MCRows({5, 14})]
      \cup [1..5 -> MCRows({14})]

MCRuns(csvs) == [csv : csvs, max_nodes_per_tree : TreeSizes]

\* The earlier runs: 6 tokens next to anything overflow a tree.
MCEarlier ==
    {[csv |-> [i \in 1..2 |-> [pubkey |-> u, amount |-> 5]],
      max_nodes_per_tree |-> size] : u \in Users, size \in {1, 2}}
      \cup
    {[csv |-> <<[pubkey |-> u, amount |-> 5], [pubkey |-> u, amount |-> 60],
                [pubkey |-> u, amount |-> 5]>>,
      max_nodes_per_tree |-> 2] : u \in Users}
      \cup
    {[csv |-> <<[pubkey |-> u, amount |-> 14]>> \o
              [i \in 1..2 |-> [pubkey |-> u, amount |-> 60]],
      max_nodes_per_tree |-> 1] : u \in Users}

MCPlans ==
    {<<run>> : run \in MCRuns(MCCsvs)}
      \cup {<<earlier, run>> : earlier \in MCEarlier, run \in MCRuns(MCSmallCsvs)}
=============================================================================
