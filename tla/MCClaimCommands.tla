-------------------------- MODULE MCClaimCommands --------------------------
(***************************************************************************)
(* A claimant at a terminal, against a distributor that may be closed      *)
(* and created again with another tree, one of them with a locked amount   *)
(* that no tree file has.                                                  *)
(***************************************************************************)
EXTENDS ClaimCommands, MCMerkleDistributor

MCClaimTrees == {{Node(alice, 1, 0)}, {Node(alice, 1, 2)}}
MCFiles == {{Node(alice, 1, 0)}, {Node(bob, 1, 0)}}

\* A claimant who keeps trying with the right file is paid in full, unless the
\* rest is clawed back first: no failing call, lost transaction or retry locks
\* anybody out.  The one exception is a claimant who has no token account and
\* whose commands open none, as claim-from-api does not.
WhoKeepsTryingIsPaid ==
    \A c \in Claimants :
        Backed /\ dist.root \in Files /\ HasLeaf(dist.root, c) ~>
            \/ dist.clawed_back
            \/ HasLeaf(dist.root, c) /\ paid[c] = AmountOf(dist.root, c)
            \/ [](c \notin opened)

=============================================================================
