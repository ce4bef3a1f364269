------------------------ MODULE MCMerkleDistributor ------------------------
(***************************************************************************)
(* Small instances of MerkleDistributor for TLC, with the properties that  *)
(* assume fairness.                                                        *)
(***************************************************************************)
EXTENDS MerkleDistributor

CONSTANTS alice, bob   \* the claimants of the trees below

Node(c, unlocked, locked) ==
    [claimant |-> c, unlocked |-> unlocked, locked |-> locked]

\* A locked amount that the vesting window does not divide, next to a claim
\* that is wholly locked.
MCTrees == {{Node(alice, 1, 2), Node(bob, 0, 2)}}

\* Two different trees for one claimant, for a distributor that is closed and
\* created again.
MCTwoTrees == {{Node(alice, 1, 2)}, {Node(alice, 0, 1)}}

\* Every combination of arguments.
AnyOffer(args) == TRUE

\* A closable distributor is a rehearsal with one choice of each argument.
MCOffers(args) ==
    args.closable =>
        /\ args.max_total_claim = 5
        /\ args.start_ts = 1
        /\ args.end_ts = 5
        /\ args.clawback_start_ts = 6
        /\ args.clawback_receiver \in Treasuries
        /\ args.enable_slot = 0

-----------------------------------------------------------------------------
(* Progress. *)

\* The clock runs, and a claimant who can claim eventually does; nobody else
\* is assumed to act.
Fairness ==
    /\ WF_vars(NextSecond)
    /\ WF_vars(NextSlot)
    /\ \A c \in Claimants :
         /\ WF_vars(\E leaf \in Leaf : leaf.claimant = c
                        /\ NewClaim(c, leaf.unlocked, leaf.locked))
         /\ WF_vars(ClaimLocked(c))

FairSpec == Spec /\ Fairness

\* A production distributor whose caps and vault cover its tree.
Backed ==
    /\ Production
    /\ dist.max_num_nodes >= Cardinality(dist.root)
    /\ dist.max_total_claim >= TreeTotal(dist.root)
    /\ funded >= dist.max_total_claim

\* A claimant of a backed distributor eventually has its whole allocation,
\* unless the rest is clawed back first: no order of claims, and none of the
\* admin's settings, leaves new_claim or claim_locked failing for ever.
EverybodyIsPaid ==
    \A c \in Claimants :
        Backed /\ c \in ClaimantsOf(dist.root) ~>
            \/ dist.clawed_back
            \/ \E leaf \in dist.root :
                  leaf.claimant = c /\ paid[c] = leaf.unlocked + leaf.locked

-----------------------------------------------------------------------------
(* What the documentation of close_claim_status says and the code does not  *)
(* do.                                                                     *)

\* close-claim-status.html: "Ensures both the distributor's and claim status'
\* closable flags are set to true."  So no claim status is closed while the
\* distributor at its address is there and not closable.
ClosedOnlyWhereClosable ==
    [][(exists /\ ~dist.closable) => claimed \subseteq claimed']_vars

=============================================================================
