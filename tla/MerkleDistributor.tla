------------------------- MODULE MerkleDistributor -------------------------
(***************************************************************************)
(* The on-chain merkle-distributor program: one distributor account (the   *)
(* PDA of one base, mint and version), the claim-status accounts of its    *)
(* claimants, the token accounts of its mint and the clock.                *)
(*                                                                         *)
(* A transaction is atomic: an instruction that fails leaves no trace, so  *)
(* every require!, account constraint and checked operation is a guard and *)
(* an instruction is one action.  The merkle root stands for the set of    *)
(* leaves it commits to: module MerkleTree checks that a proof verifies    *)
(* against a root exactly for the leaves of its tree.                      *)
(***************************************************************************)
EXTENDS Vesting, FiniteSets, Functions

CONSTANTS
    Claimants,        \* wallets; each also names its own token account
    Admins,           \* wallets that may administrate a distributor
    Treasuries,       \* the token accounts of funders and receivers
    Vault,            \* the distributor's associated token account
    Trees,            \* the leaf sets a root may commit to
    Totals,           \* arguments for max_total_claim
    NodeCounts,       \* arguments for max_num_nodes
    Timestamps,       \* arguments for the three timestamps
    EnableSlots,      \* arguments for enable_slot
    ClosableFlags,    \* arguments for closable
    Offered(_),       \* which of these arguments are given together
    Deposits,         \* amounts a funder may send to the vault
    Supply,           \* what each treasury holds at first
    SECONDS_PER_DAY,
    MaxI64,           \* the largest i64
    MaxTime,          \* bound on the clock's timestamp
    MaxSlot,          \* bound on the clock's slot
    MaxCreations      \* bound on how often the account is created

Leaf == [claimant : Claimants, unlocked : Amount, locked : Amount]
Accounts == Claimants \cup Treasuries \cup {Vault}
Signers == Claimants \cup Admins
Timestamp == 0..MaxI64

ASSUME AccountsAssumption ==
    /\ Vault \notin Claimants \cup Treasuries
    /\ Claimants \cap Treasuries = {}
    /\ Admins # {}

ASSUME ArgumentsAssumption ==
    /\ \A tree \in Trees : tree \subseteq Leaf /\ IsFiniteSet(tree)
    /\ Totals \subseteq Amount
    /\ NodeCounts \subseteq Amount
    /\ Timestamps \subseteq Timestamp
    /\ EnableSlots \subseteq Nat
    /\ ClosableFlags \subseteq BOOLEAN
    /\ Deposits \subseteq Nat

ASSUME BoundsAssumption ==
    /\ Supply \in Nat
    /\ SECONDS_PER_DAY \in Nat
    /\ MaxI64 \in Nat
    /\ MaxTime \in Nat
    /\ MaxSlot \in Nat
    /\ MaxCreations \in Nat

VARIABLES
    exists,      \* is the distributor account initialised?
    dist,        \* its MerkleDistributor data, all default while it is not
    claimed,     \* the claimants whose ClaimStatus account exists
    status,      \* the ClaimStatus data of each claimant
    balance,     \* the amount in each token account
    now,         \* Clock: unix_timestamp
    slot,        \* Clock: slot
    (* History, read by properties only. *)
    paid,        \* what each claimant got from the present distributor
    funded,      \* what the vault held at creation or received since
    creations,   \* how often the distributor account was created
    born         \* the creation during which each claim status was made

accountVars == <<exists, dist, claimed, status>>
clock == <<now, slot>>
history == <<paid, funded, creations, born>>
vars == <<accountVars, balance, clock, history>>

-----------------------------------------------------------------------------
(* The accounts' data. *)

Distributor ==
    [root : SUBSET Leaf,
     max_total_claim : Amount,
     max_num_nodes : Amount,
     total_amount_claimed : Amount,
     num_nodes_claimed : Amount,
     start_ts : Timestamp,
     end_ts : Timestamp,
     clawback_start_ts : Timestamp,
     clawback_receiver : Accounts,
     admin : Admins,
     clawed_back : BOOLEAN,
     enable_slot : Nat,
     closable : BOOLEAN]

ClaimStatus ==
    [locked_amount : Amount,
     locked_amount_withdrawn : Amount,
     unlocked_amount : Amount,
     closable : BOOLEAN,
     admin : Admins]

\* The arguments and the free accounts of the new_distributor instruction.
NewDistributorArgs ==
    {args \in [root : Trees,
               max_total_claim : Totals,
               max_num_nodes : NodeCounts,
               start_ts : Timestamps,
               end_ts : Timestamps,
               clawback_start_ts : Timestamps,
               clawback_receiver : Accounts,
               admin : Admins,
               enable_slot : EnableSlots,
               closable : ClosableFlags] : Offered(args)}

NoDistributor ==
    [root |-> {},
     max_total_claim |-> 0,
     max_num_nodes |-> 0,
     total_amount_claimed |-> 0,
     num_nodes_claimed |-> 0,
     start_ts |-> 0,
     end_ts |-> 0,
     clawback_start_ts |-> 0,
     clawback_receiver |-> Vault,
     admin |-> CHOOSE a \in Admins : TRUE,
     clawed_back |-> FALSE,
     enable_slot |-> 0,
     closable |-> FALSE]

NoClaimStatus ==
    [locked_amount |-> 0,
     locked_amount_withdrawn |-> 0,
     unlocked_amount |-> 0,
     closable |-> FALSE,
     admin |-> CHOOSE a \in Admins : TRUE]

\* A slip for comparison: the day is forgotten.
DayAfterSameDay(ts, end_ts) == ts >= end_ts

\* i64::checked_add of one day, compared as the instructions compare it: an
\* addition that overflows fails the instruction.
DayAfter(ts, end_ts) ==
    /\ end_ts + SECONDS_PER_DAY <= MaxI64
    /\ ts >= end_ts + SECONDS_PER_DAY

\* A transfer by the SPL token program: it fails for want of funds, and
\* moves nothing when both accounts are the same one.
Transfer(from, to, amount) ==
    /\ balance[from] >= amount
    /\ balance' = IF from = to
                  THEN balance
                  ELSE [balance EXCEPT ![from] = @ - amount,
                                       ![to] = @ + amount]

\* A slip for comparison: claims open one slot late.
ClaimingAfterSlot ==
    /\ exists
    /\ ~dist.clawed_back
    /\ dist.enable_slot < slot

Claiming ==
    /\ exists
    /\ ~dist.clawed_back
    /\ dist.enable_slot <= slot

-----------------------------------------------------------------------------
(* The instructions. *)

NewDistributor(args) ==
    /\ ~exists
    /\ creations < MaxCreations
    /\ args.start_ts < args.end_ts
    /\ args.start_ts > now
    /\ args.end_ts > now
    /\ args.clawback_start_ts > now
    /\ args.clawback_start_ts > args.end_ts
    /\ DayAfter(args.clawback_start_ts, args.end_ts)
    /\ exists' = TRUE
    /\ dist' = [root |-> args.root,
                max_total_claim |-> args.max_total_claim,
                max_num_nodes |-> args.max_num_nodes,
                total_amount_claimed |-> 0,
                num_nodes_claimed |-> 0,
                start_ts |-> args.start_ts,
                end_ts |-> args.end_ts,
                clawback_start_ts |-> args.clawback_start_ts,
                clawback_receiver |-> args.clawback_receiver,
                admin |-> args.admin,
                clawed_back |-> FALSE,
                enable_slot |-> args.enable_slot,
                closable |-> args.closable]
    /\ paid' = [c \in Claimants |-> 0]
    /\ funded' = balance[Vault]
    /\ creations' = creations + 1
    /\ UNCHANGED <<claimed, status, balance, clock, born>>

\* The claim status is an init account, so a second claim fails while it
\* exists; closable and admin are copied from the distributor.
NewClaim(c, amount_unlocked, amount_locked) ==
    /\ Claiming
    /\ c \notin claimed
    /\ dist.num_nodes_claimed + 1 <= dist.max_num_nodes
    /\ [claimant |-> c, unlocked |-> amount_unlocked, locked |-> amount_locked]
         \in dist.root
    /\ Transfer(Vault, c, amount_unlocked)
    /\ dist.total_amount_claimed + amount_unlocked <= dist.max_total_claim
    /\ claimed' = claimed \cup {c}
    /\ status' = [status EXCEPT ![c] =
                    [locked_amount |-> amount_locked,
                     locked_amount_withdrawn |-> 0,
                     unlocked_amount |-> amount_unlocked,
                     closable |-> dist.closable,
                     admin |-> dist.admin]]
    /\ dist' = [dist EXCEPT !.num_nodes_claimed = @ + 1,
                            !.total_amount_claimed = @ + amount_unlocked]
    /\ paid' = [paid EXCEPT ![c] = @ + amount_unlocked]
    /\ born' = [born EXCEPT ![c] = creations]
    /\ UNCHANGED <<exists, clock, funded, creations>>

\* A slip for comparison: nothing to withdraw is no error.
ClaimLockedOfNothing(c) ==
    LET amount == AmountWithdrawable(status[c].locked_amount,
                                     status[c].locked_amount_withdrawn,
                                     now, dist.start_ts, dist.end_ts)
    IN  /\ Claiming
        /\ c \in claimed
        /\ amount >= 0
        /\ Transfer(Vault, c, amount)
        /\ status[c].locked_amount_withdrawn + amount
             <= status[c].locked_amount
        /\ dist.total_amount_claimed + amount <= dist.max_total_claim
        /\ status' = [status EXCEPT ![c].locked_amount_withdrawn = @ + amount]
        /\ dist' = [dist EXCEPT !.total_amount_claimed = @ + amount]
        /\ paid' = [paid EXCEPT ![c] = @ + amount]
        /\ UNCHANGED <<exists, claimed, clock, funded, creations, born>>

\* A withdrawable amount below zero is the checked_sub that fails, and zero
\* is refused as InsufficientUnlockedTokens.
ClaimLocked(c) ==
    LET amount == AmountWithdrawable(status[c].locked_amount,
                                     status[c].locked_amount_withdrawn,
                                     now, dist.start_ts, dist.end_ts)
    IN  /\ Claiming
        /\ c \in claimed
        /\ amount > 0
        /\ Transfer(Vault, c, amount)
        /\ status[c].locked_amount_withdrawn + amount
             <= status[c].locked_amount
        /\ dist.total_amount_claimed + amount <= dist.max_total_claim
        /\ status' = [status EXCEPT ![c].locked_amount_withdrawn = @ + amount]
        /\ dist' = [dist EXCEPT !.total_amount_claimed = @ + amount]
        /\ paid' = [paid EXCEPT ![c] = @ + amount]
        /\ UNCHANGED <<exists, claimed, clock, funded, creations, born>>

\* A slip for comparison: the clawback is not marked as done.
ClawbackUnmarked(signer) ==
    /\ signer \in Signers
    /\ exists
    /\ ~dist.clawed_back
    /\ now >= dist.clawback_start_ts
    /\ Transfer(Vault, dist.clawback_receiver, balance[Vault])
    /\ UNCHANGED <<exists, dist, claimed, status, clock, history>>

\* Any wallet may sign.  The whole vault is swept, not only what is due.
Clawback(signer) ==
    /\ signer \in Signers
    /\ exists
    /\ ~dist.clawed_back
    /\ now >= dist.clawback_start_ts
    /\ Transfer(Vault, dist.clawback_receiver, balance[Vault])
    /\ dist' = [dist EXCEPT !.clawed_back = TRUE]
    /\ UNCHANGED <<exists, claimed, status, clock, history>>

\* Sweeps the vault to an account of the admin's choice and deletes the
\* distributor account.  The claim-status accounts stay.
CloseDistributor(admin, destination) ==
    /\ exists
    /\ admin = dist.admin
    /\ dist.closable
    /\ Transfer(Vault, destination, balance[Vault])
    /\ exists' = FALSE
    /\ dist' = NoDistributor
    /\ UNCHANGED <<claimed, status, clock, history>>

\* A slip for comparison: the closable flag is not looked at.
CloseClaimStatusUnflagged(admin, c) ==
    /\ c \in claimed
    /\ admin = status[c].admin
    /\ claimed' = claimed \ {c}
    /\ status' = [status EXCEPT ![c] = NoClaimStatus]
    /\ UNCHANGED <<exists, dist, balance, clock, history>>

\* Only the claim status itself is consulted: its own closable flag and its
\* own copy of the admin.
CloseClaimStatus(admin, c) ==
    /\ c \in claimed
    /\ admin = status[c].admin
    /\ status[c].closable
    /\ claimed' = claimed \ {c}
    /\ status' = [status EXCEPT ![c] = NoClaimStatus]
    /\ UNCHANGED <<exists, dist, balance, clock, history>>

SetEnableSlot(admin, enable_slot) ==
    /\ exists
    /\ admin = dist.admin
    /\ dist' = [dist EXCEPT !.enable_slot = enable_slot]
    /\ UNCHANGED <<exists, claimed, status, balance, clock, history>>

\* Slips for comparison: the new start is not compared with the end of
\* vesting; it is stored with an unchecked day added; it moves the end of
\* vesting along.
SetClawbackStartTsAnytime(admin, clawback_start_ts) ==
    /\ exists
    /\ admin = dist.admin
    /\ clawback_start_ts > now
    /\ dist' = [dist EXCEPT !.clawback_start_ts = clawback_start_ts]
    /\ UNCHANGED <<exists, claimed, status, balance, clock, history>>

SetClawbackStartTsUnchecked(admin, clawback_start_ts) ==
    /\ exists
    /\ admin = dist.admin
    /\ clawback_start_ts > now
    /\ dist' = [dist EXCEPT !.clawback_start_ts =
                              clawback_start_ts + SECONDS_PER_DAY]
    /\ UNCHANGED <<exists, claimed, status, balance, clock, history>>

SetClawbackStartTsMovingEnd(admin, clawback_start_ts) ==
    /\ exists
    /\ admin = dist.admin
    /\ clawback_start_ts > now
    /\ DayAfter(clawback_start_ts, dist.end_ts)
    /\ dist' = [dist EXCEPT !.clawback_start_ts = clawback_start_ts,
                            !.end_ts = clawback_start_ts - SECONDS_PER_DAY]
    /\ UNCHANGED <<exists, claimed, status, balance, clock, history>>

SetClawbackStartTs(admin, clawback_start_ts) ==
    /\ exists
    /\ admin = dist.admin
    /\ clawback_start_ts > now
    /\ DayAfter(clawback_start_ts, dist.end_ts)
    /\ dist' = [dist EXCEPT !.clawback_start_ts = clawback_start_ts]
    /\ UNCHANGED <<exists, claimed, status, balance, clock, history>>

SetClawbackReceiver(admin, new_clawback_account) ==
    /\ exists
    /\ admin = dist.admin
    /\ new_clawback_account # dist.clawback_receiver
    /\ dist' = [dist EXCEPT !.clawback_receiver = new_clawback_account]
    /\ UNCHANGED <<exists, claimed, status, balance, clock, history>>

SetAdmin(admin, new_admin) ==
    /\ exists
    /\ admin = dist.admin
    /\ new_admin # admin
    /\ dist' = [dist EXCEPT !.admin = new_admin]
    /\ UNCHANGED <<exists, claimed, status, balance, clock, history>>

-----------------------------------------------------------------------------
(* The environment: the token program's own transfers and the clock. *)

Deposit(from, amount) ==
    /\ Transfer(from, Vault, amount)
    /\ funded' = funded + amount
    /\ UNCHANGED <<accountVars, clock, paid, creations, born>>

\* The cluster's timestamp never runs backwards; it need not advance with
\* every slot.
NextSecond ==
    /\ now < MaxTime
    /\ now' = now + 1
    /\ UNCHANGED <<accountVars, balance, slot, history>>

NextSlot ==
    /\ slot < MaxSlot
    /\ slot' = slot + 1
    /\ UNCHANGED <<accountVars, balance, now, history>>

-----------------------------------------------------------------------------
Init ==
    /\ exists = FALSE
    /\ dist = NoDistributor
    /\ claimed = {}
    /\ status = [c \in Claimants |-> NoClaimStatus]
    /\ balance = [a \in Accounts |-> IF a \in Treasuries THEN Supply ELSE 0]
    /\ now = 0
    /\ slot = 0
    /\ paid = [c \in Claimants |-> 0]
    /\ funded = 0
    /\ creations = 0
    /\ born = [c \in Claimants |-> 0]

Next ==
    \/ \E args \in NewDistributorArgs : NewDistributor(args)
    \/ \E leaf \in Leaf : NewClaim(leaf.claimant, leaf.unlocked, leaf.locked)
    \/ \E c \in Claimants : ClaimLocked(c)
    \/ \E signer \in Signers : Clawback(signer)
    \/ \E admin \in Admins, to \in Accounts : CloseDistributor(admin, to)
    \/ \E admin \in Admins, c \in Claimants : CloseClaimStatus(admin, c)
    \/ \E admin \in Admins, s \in EnableSlots : SetEnableSlot(admin, s)
    \/ \E admin \in Admins, ts \in Timestamps : SetClawbackStartTs(admin, ts)
    \/ \E admin \in Admins, to \in Accounts : SetClawbackReceiver(admin, to)
    \/ \E admin, new_admin \in Admins : SetAdmin(admin, new_admin)
    \/ \E from \in Treasuries, amount \in Deposits : Deposit(from, amount)
    \/ NextSecond
    \/ NextSlot

Spec == Init /\ [][Next]_vars

-----------------------------------------------------------------------------
(* Properties. *)

\* Every account holds data of its type: in particular every u64 and i64
\* field stays in range through all the instructions.
TypeOK ==
    /\ exists \in BOOLEAN
    /\ dist \in Distributor
    /\ claimed \subseteq Claimants
    /\ status \in [Claimants -> ClaimStatus]
    /\ balance \in [Accounts -> Nat]
    /\ now \in Nat
    /\ slot \in Nat
    /\ paid \in [Claimants -> Nat]
    /\ funded \in Nat
    /\ creations \in Nat
    /\ born \in [Claimants -> Nat]

\* The distributor of a production airdrop: never closable, never recreated.
Production == exists /\ creations = 1 /\ ~dist.closable

\* What a claimant has received never exceeds the unlocked amount of its leaf
\* plus the vested part of the locked one, whatever the order of new_claim,
\* claim_locked and the admin's instructions.
PaidIsVested ==
    Production =>
        \A c \in Claimants :
            \/ paid[c] = 0
            \/ \E leaf \in dist.root :
                  /\ leaf.claimant = c
                  /\ paid[c] <= leaf.unlocked
                                 + UnlockedAmount(leaf.locked, now,
                                                  dist.start_ts, dist.end_ts)

\* A claim made under the present distributor has never withdrawn more than
\* has vested, so amount_withdrawable's checked_sub cannot fail for it.
WithdrawnNeverAhead ==
    exists =>
        \A c \in claimed :
            born[c] = creations =>
                status[c].locked_amount_withdrawn
                  <= UnlockedAmount(status[c].locked_amount, now,
                                    dist.start_ts, dist.end_ts)

\* Nobody loses unvested tokens to a clawback: when it has happened, vesting
\* ended at least one day before, however the admin moved clawback_start_ts.
ClawbackAfterVesting ==
    exists /\ dist.clawed_back => now >= dist.end_ts + SECONDS_PER_DAY

\* A vault that was funded with max_total_claim covers every claim that the
\* cap still admits, until the clawback: a claim never fails for want of
\* tokens.
SolventOnceFunded ==
    exists /\ ~dist.clawed_back /\ funded >= dist.max_total_claim =>
        balance[Vault] >= dist.max_total_claim - dist.total_amount_claimed

\* The claimants of a tree, and the total that AirdropMerkleTree computes for it.
ClaimantsOf(tree) == {leaf.claimant : leaf \in tree}
TreeTotal(tree) == SumFunction([leaf \in tree |-> leaf.unlocked + leaf.locked])

\* What the leaves of the tree still entitle their claimants to.
StillDue == SumFunction([leaf \in dist.root |->
                leaf.unlocked + leaf.locked - paid[leaf.claimant]])

\* The counters never lock out a claimant: a distributor created with its
\* tree's totals has, at any time before the clawback, a node and tokens under
\* the caps for every claim that is still to come, and the vault holds them
\* once max_total_claim was deposited.
NobodyLockedOut ==
    (/\ Production
     /\ ~dist.clawed_back
     /\ dist.max_num_nodes >= Cardinality(dist.root)
     /\ dist.max_total_claim >= TreeTotal(dist.root)) =>
        LET pending == ClaimantsOf(dist.root) \ claimed
        IN  /\ dist.num_nodes_claimed + Cardinality(pending)
                 <= dist.max_num_nodes
            /\ dist.total_amount_claimed + StillDue <= dist.max_total_claim
            /\ funded >= dist.max_total_claim => balance[Vault] >= StillDue

\* While the account exists, no instruction changes what was promised at
\* creation, undoes a clawback, or takes back a claim that was counted.
KeepsPromise ==
    exists /\ exists' =>
        /\ dist'.root = dist.root
        /\ dist'.max_total_claim = dist.max_total_claim
        /\ dist'.max_num_nodes = dist.max_num_nodes
        /\ dist'.start_ts = dist.start_ts
        /\ dist'.end_ts = dist.end_ts
        /\ dist'.closable = dist.closable
        /\ dist.clawed_back => dist'.clawed_back /\ paid' = paid
        /\ dist'.total_amount_claimed >= dist.total_amount_claimed
        /\ dist'.num_nodes_claimed >= dist.num_nodes_claimed

PromiseKept == [][KeepsPromise]_vars

-----------------------------------------------------------------------------
(* The inductive invariant behind the state properties. *)

\* What holds of a distributor while nothing has been closed: a claim status
\* records a leaf of the tree and accounts for what its claimant received.
ClaimsAccounted ==
    Production =>
        /\ \A c \in Claimants \ claimed : paid[c] = 0
        /\ \A c \in claimed :
              /\ born[c] = creations
              /\ ~status[c].closable
              /\ [claimant |-> c,
                  unlocked |-> status[c].unlocked_amount,
                  locked |-> status[c].locked_amount] \in dist.root
              /\ paid[c] = status[c].unlocked_amount
                             + status[c].locked_amount_withdrawn

\* The life cycle of the distributor account and of the claims made under it.
LifeCycle ==
    /\ exists => creations > 0
    /\ creations = 0 => claimed = {}
    /\ \A c \in claimed : born[c] <= creations
    /\ exists => dist.clawback_start_ts >= dist.end_ts + SECONDS_PER_DAY

\* Until the clawback, the vault holds what was put in and not yet claimed.
VaultBalanced ==
    exists /\ ~dist.clawed_back =>
        balance[Vault] + dist.total_amount_claimed = funded

\* The counters of a production distributor count the claim statuses and add
\* up what was paid to the claimants of its tree.
CountersExact ==
    Production =>
        /\ IsFiniteSet(dist.root)
        /\ dist.num_nodes_claimed = Cardinality(claimed)
        /\ dist.total_amount_claimed
             = SumFunctionOnSet(paid, ClaimantsOf(dist.root))

\* The inductive invariant: the properties above with the facts about claim
\* statuses, counters, the account's life cycle and the vault they need to
\* carry over from one instruction to the next.
IInv ==
    /\ TypeOK
    /\ LifeCycle
    /\ ClaimsAccounted
    /\ CountersExact
    /\ VaultBalanced
    /\ WithdrawnNeverAhead
    /\ ClawbackAfterVesting

-----------------------------------------------------------------------------
(* The distributor implements the abstract airdrop. *)

\* Nothing was created yet, or the one distributor that was is still there
\* and can never be closed.
Binding == creations = 0 \/ Production

Promise ==
    INSTANCE Airdrop
    WITH DAY <- SECONDS_PER_DAY,
         binding <- Binding,
         announced <- exists,
         leaves <- dist.root,
         start <- dist.start_ts,
         end <- dist.end_ts,
         reclaimed <- dist.clawed_back,
         time <- now

\* Unless a closable distributor is created, whatever new_distributor,
\* new_claim, claim_locked, clawback and the setters do is a step of the
\* abstract airdrop or changes nothing of it: the rounded payments follow the
\* exact vesting line, and no close instruction can void a binding promise.
ImplementsAirdrop == Promise!Spec

=============================================================================
