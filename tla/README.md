# Verification of the Merkle distributor

A token airdrop in this repository goes through five programs: a command line
cuts an allocation file into Merkle trees, an API (or a key-value store) serves
the proofs, the command line creates and funds one on-chain distributor per
tree, the on-chain program pays claimants along a vesting schedule, and a
separate pair of commands sends tokens directly. The modules here model the
control of these parts, check it with TLC on small instances, and prove what
matters most of the program and of the commands around it with TLAPS for every
value of the constants: every safety property that a passing run checks is also
a theorem.

## Inventory

### On-chain program (`src/programs/merkle-distributor`)

*State.* One `MerkleDistributor` account per base, mint and version: the root,
two caps (`max_total_claim`, `max_num_nodes`) and their running counters, the
vesting window `start_ts`/`end_ts`, `clawback_start_ts` and its receiver, the
admin, `enable_slot`, the flags `clawed_back` and `closable`. One `ClaimStatus`
account per claimant: locked amount, amount withdrawn, unlocked amount, and
copies of `closable` and `admin`. A token vault. The cluster's clock.

*Operations.* `new_distributor`, `new_claim`, `claim_locked`, `clawback`,
`close_distributor`, `close_claim_status`, `set_enable_slot`,
`set_clawback_start_ts`, `set_clawback_receiver`, `set_admin`.

*What is hard.* Any wallet may submit any instruction at any time; the order of
claims, setters, the clawback and the clock is nobody's choice. Claims are cut
into many withdrawals with rounding. Claim statuses outlive a closed
distributor and are found again by its successor at the same address.

*What makes it correct.* Nobody gets more than has vested; nobody is locked out
by a counter or an empty vault while the distributor is funded; unvested tokens
are not swept; what was announced at creation stays; everybody is paid in the
end.

### Merkle tree and verification (`src/merkle-tree/src/merkle_tree.rs`, `src/verify`)

A vector of digests filled level by level, proofs taken from it, and the fold
that the program runs on chain. Odd levels and the order of digests are the
traps. Correct: exactly the claims of the tree have proofs that verify.

### From the CSV to the proofs (`src/merkle-tree`, `create-merkle-tree`, `src/api`, `generate-kv-proof`)

`create-merkle-tree` slices the rows into files in a folder. The API reads the
folder at start-up into a map from user to proof; `generate-kv-proof` turns the
same folder into JSON files for a key-value store; `create-merkle-tree-blob`
adds binary copies. Every command is a loop that can panic half way; the files
are read in the order of their *names*, and the folder is never emptied, so a
run finds what earlier ones left. Correct: no row is lost, everybody is served,
both ways of serving agree.

### Deployment commands (`new-distributor`, `fund-all`, `verify`, `send_transaction`)

Loops over the folder with a transaction per tree, and a retry loop around
them. They keep no state of their own: everything is read from the chain, at
commitments that lag behind. Calls fail, transactions are lost or land late,
the operator interrupts and starts over. Correct: distributors have the given
parameters, vaults are funded once, `verify` can be believed, nothing hangs.

### Mass send (`mass-send`, `resend`)

Batches of direct transfers with a JSON file that records the signature per
address. The file is the only memory; it is written after each transaction.
Correct: nobody is paid twice, and the record is true.

### Administration commands (`clawback`, `set-*`, `close-*`)

Loops over distributors or claim statuses that read at finalized, compare, and
send in one of three ways: with `send_transaction` of this repository
(`set-admin`, `clawback`), with the client's `send_and_confirm_transaction`
(`set-clawback-start-ts`, `set-enable-slot`, `set-enable-slot-by-time`, the last
batch of `close-claim-status`), or with the client's `send_transaction`, which
only submits (`set-clawback-receiver`, `close-distributor`, full batches of
`close-claim-status`). Their only state is the loop; the setters and `clawback`
repeat it for ever on errors. Correct: what ended well is done, the loop ends
where the program can be satisfied, no claim status is passed over, and the
slot estimated for a point in time meets it.

### Claim commands (`claim`, `claim-from-api`, the SDK's `claim`)

One claimant's command at a terminal: look at accounts, sign, send, wait;
`claim` does so up to twice. Answers are lost, transactions land after the
command has ended, other clients claim meanwhile, the admin closes and creates
the distributor. Correct: success means payment, retries neither pay twice nor
lock anybody out.

### The rest

Views and generated clients: see *Not modelled* below.

### How the parts interact

```
 CSV --create-merkle-tree--> folder of trees --+--> API ----------+--> claimant
                                               +--> kv files -----+       |
                                               |                          | new_claim,
                                               +--> new-distributor,      | claim_locked
                                                    fund-all, verify      |
                                                        |                 |
                                                        v                 v
                                              on-chain program (distributor, claim
                                              statuses, vault, token program, clock)
 CSV --mass-send/resend--> token program           ^
                                                   +-- admin commands: set-*, close-*, clawback
```

`MerkleTree` justifies the abstraction the others use: in `MerkleDistributor` a
root *is* its set of leaves, in `AirdropTrees` a proof is the pair of tree and
position it was made for. `ClaimCommands` extends `MerkleDistributor`: its
transactions carry out the program's own actions. `Deployment` and
`AdminCommands` hold the few fields of a distributor their commands read and
set, and what the program asks for before it sets them.

## Modules

| Module | Models | State and actions |
|---|---|---|
| `Vesting` | `ClaimStatus::unlocked_amount`, `amount_withdrawable` | pure operators, u64 arithmetic bounded by `MaxU64` |
| `MerkleDistributor` | the program | one action per instruction, plus `Deposit`, `NextSecond`, `NextSlot` for the token program and the clock |
| `Airdrop` | what the program promises | exact vesting line, payments, one reclaim, and which promise binds; no accounts, caps or rounding |
| `MerkleDistributorProofs` | | theorems |
| `MCMerkleDistributor` | | instances, sums over claimants, fairness |
| `ArithmeticLemmas` | | products and quotients, induction over numbers and finite sets, recursion, sums over finite sets and lists |
| `MerkleTree`, `MerkleTreeProofs` | `MerkleTree::new`, `find_path`, `get_proof`, `verify` | one action per digest pushed; SHA-256 is an oracle |
| `AirdropTrees`, `MCAirdropTrees`, `AirdropTreesProofs` | `create-merkle-tree`, `create-merkle-tree-blob`, API, `generate-kv-proof`, the SDK's check of the API | one action per loop iteration; runs of `create-merkle-tree` follow each other in one folder |
| `Deployment`, `MCDeployment`, `DeploymentProofs` | `new-distributor`, `fund-all`, `verify`, `send_transaction` | a program counter for the command, the chain at processed and at finalized, transactions in flight; claims drain the vaults |
| `SlotEstimate` | `get_average_slot_time`, the slot of `set-enable-slot-by-time` and `slot-by-time` | pure operators, u64 arithmetic bounded by `MaxU64` |
| `AdminCommands`, `MCAdminCommands`, `AdminCommandsProofs` | the administration commands | as in `Deployment`, with one action per command for a turn of its loop (`SetAdminOf`, ..., `TakeClaimStatus`), one per step of each way of sending, and one per way of going on after it (`Again`, `Unwrapped`, `Printed`, `BatchDone`) |
| `ClaimCommands`, `MCClaimCommands`, `ClaimCommandsProofs` | the claim commands | per terminal a command and its transaction, beside the variables and actions of `MerkleDistributor` |
| `MassSend`, `MassSendProofs` | `mass-send`, `resend` | the record file, the running command's copy, batches, transactions |

An instruction of the program is atomic, so each `require!`, account constraint
and `checked_*` is a guard of one action; an instruction that fails leaves no
trace. Where a variable exists for properties only (`paid`, `funded`,
`creations`, `born`, `retried`, `hasty`, `disturbed`), or a field of a command
does (`estimate`, `accepted`, `before`), its declaration says so or the property
that reads it does.

Definitions introduced by "A slip for comparison" are what a plausible mistake
in the code would look like; no action uses them. Put in the place of the
definition that follows, each makes a property of the run fail, which shows
that the property depends on the code. PROJECT.json pairs every checked
property with such a slip.

## Runs

Passing runs:

| Run | Shows | Bounds and why |
|---|---|---|
| `production` | type correctness; payments within vesting (`PaidIsVested`, `WithdrawnNeverAhead`); `ClawbackAfterVesting`; `SolventOnceFunded`; `NobodyLockedOut`; the inductive invariant `IInv`; `PromiseKept`; `ImplementsAirdrop`; `EverybodyIsPaid` | two claimants, one of them wholly locked; windows of one, three and four seconds, so that two locked tokens do and do not divide; a cap at and below the tree's total; two nodes admitted; `MaxI64` equal to the last timestamp, so that adding a day can overflow; closable distributors too, with one cap, window and start (`MCOffers`, by the constant `Offered`): what they add is the two close instructions, not other arithmetic |
| `claims` | `DoneMeansPaid`, `FreshClaimPanics`; the inductive invariant `ClaimsIInv`, which contains that of the program, here with distributors that are closed and created again; `WhoKeepsTryingIsPaid` | a claimant at one terminal, beside other clients and orphaned transactions of earlier commands, which is what makes two attempts overlap; one fault, of any kind; two creations, closable or not, over two trees, one with a locked amount; a file that does and one that does not have the claimant |
| `tree` | `EveryProofVerifies`, `OnlyItemsVerify`, `ProofsAreUnique`, `RootIsReached` | up to six leaves for generated proofs (levels 6-3-2-1 and 5-3-2-1 have odd ones at the bottom and inside); up to four leaves where all sequences of digests are tried |
| `shards` | `NothingLost`, `OnlyOverflowAborts`, `EverybodyServed`, `TotalsReported`, `KvAgreesWithApi`, `CommandsEnd` | five rows and names in base two: the fifth file sorts before the fourth, as `tree_10` does before `tree_2`; `MaxU64` of nine so that sums overflow and a cast saturates; sizes zero, one and more; an earlier run that left more trees, fewer, or stopped half way; with and without binary copies |
| `deploy` | `VerifiedIsReady`, `PaidAgainOnlyAfterClaims`, `ParametersChecked`, `CommandsEnd` | a set of parameters is what `verify` compares (`terms`) and what only `new-distributor` does (`rest`). Three scenarios. Careful: two trees, one set of parameters, an operator who lets the chain settle between commands. Rushed: one tree, two sets of parameters, commands started at any time; the two differ in their terms, or only in the rest. Three commands, as create, fund and verify are; two attempts in place of ten: one more than none is what distinguishes a retry; one claim |
| `admin` | `AskedIsSet`, `ClosedUpToForeign`, `NothingDropped`, `SlotMeetsTime`, `CommandsEnd` | two commands, so that the second meets what the first left in flight; one fault; two distributors; six claim statuses in batches of two, a transaction that holds three, so that a batch that is kept outgrows it; a claim status of another admin in the first, the second, the last batch or nowhere; a list of commands per scenario, those that touch the same fields together |
| `mass_send` | `PaidOnceUndisturbed`, `RecordTellsTruth` | three rows with duplicates and an address that does not parse, batches of one and two, two commands, three transactions, all faults |

Every run ends with exhausted bounds or with nothing left to do (clock at its
bound, no command allowed), so deadlock is not checked. In `claims` the actions
of everybody else leave out `set_admin`, `set_clawback_receiver` and
`set_clawback_start_ts`, which set nothing a claim reads, and let a new
distributor's receiver be a treasury only; `production` has them all. `production`
creates one distributor, `claims` two.

Runs that end in a violation, each a disagreement with the text it quotes:

| Run | The code | The text |
|---|---|---|
| `both_flags_checked` | `close_claim_status` looks at the flag of the claim status only; one that outlives a closable distributor is closed under a successor that is not closable | "Ensures both the distributor's and claim status' closable flags are set to true." (close-claim-status.html:63) |
| `checked_means_served` | rows of one claimant in two trees: the API answers with one tree's amount, and the check row by row passes if the rows are equal | "API data returned fully matches CSV data and MERKLE_TREE data!" (sdk/src/cli.ts:226) |
| `done_means_funded` | `send_transaction` returns `Ok` on an expired blockhash | "Done fund all distributors" |
| `never_overfunded` | the second attempt of `fund-all` reads the first one's vaults at finalized, too early, and pays again | "already fund airdrop version" |
| `sent_is_skipped` | a crash between sending and recording pays the batch again | "this addresses has been sent, skip" |

Met while modelling and visible in the actions, without a run of their own:

* `clawback` compares its signer with nothing; clawback.html:82 says only the
  admin can execute it. It sweeps the whole vault; clawback.html:73 says
  `max_total_claim - total_amount_claimed`.
* `close_distributor` moves what is left in the vault; close-distributor.html:88
  says it fails then.
* `close_claim_status` asks for the signature of the admin whose copy the claim
  status holds; close-claim-status.html:64 and :81 say it is the claimant's.
* Claim statuses survive `close_distributor`. The distributor created next at
  the same address honours one that is there, with its old amounts, and pays in
  full for one that was closed in between, whatever was paid before. No document
  speaks of it; `Binding` in `MerkleDistributor` says when the promise holds
  nevertheless.
* `verify` compares the root, `clawback_start_ts`, its receiver, the admin,
  `enable_slot`, `closable` and the vault. It is not given the vesting window and
  does not compare the two caps, which docs/RELEASE_STEPS.md:61-62 lists among
  the values to check, with `verify` as the script to be used. `VerifiedIsReady`
  claims no more than that; `ParametersChecked` is about all parameters, because
  `new-distributor` does compare them.
* `set_admin` leaves the admin of existing claim statuses; set-admin.html:75
  promises full control.
* A setter that skips a distributor because of what it reads at finalized, and
  `clawback` and `set-admin` when a blockhash expires, end well although nothing
  was set; `set-clawback-receiver` waits for nothing. `AskedIsSet` holds with
  exactly these three set aside. The model carries them out, but no property
  says what comes of them.
* `close-claim-status` lists the claim statuses of all admins. The first one of
  another admin blocks its batch and, because a refused batch is kept, all
  later ones (`ClosedUpToForeign`); `set_admin` makes such claim statuses.
* `claim` never ends well for a claimant who had not claimed
  (`FreshClaimPanics`): its claim locks nothing, so its own `claim_locked` is
  refused after the payment.
* `claim-from-api` names the claimant's token account as the owner of the
  account to create. It works only where the token account is already there;
  otherwise the claim in the same transaction fails and nothing is created.
  `WhoKeepsTryingIsPaid` has this exception. With a `destination_owner` it
  transfers from the claimant's account to itself; commands.md:70 and
  command_list/claim_from_api.sh:4 promise to forward.
* `create-merkle-tree` does not empty its folder: trees of an earlier, longer
  run are loaded too (`LeftOver` in `EverybodyServed`). Binary copies in the same
  folder double the API's totals and make `generate-kv-proof` panic.
* A vault from which somebody has claimed looks unfunded to `fund-all`
  (`PaidAgainOnlyAfterClaims`).
* The SDK's `isClaimable` answers no in the slot in which the program already
  admits claims, and yes after a clawback.
* `total-claim` reads the distributors `0..=num_tree`, one more than there are.
* `resend` takes a transaction that is not yet finalized for a lost one and pays
  again; `PaidOnceUndisturbed` therefore requires that nothing is in flight.

### Fairness

*Program (`production`):* the clock runs, and a claimant who can claim does;
nobody else needs to act. `EnableSlots` stays within the slots reached: an admin
who postpones the start for ever can stop claims for ever.

*Files (`shards`) and deployment (`deploy`):* a started process goes on;
blockhashes expire and processed blocks become finalized because slots go by. No
transaction needs to land and no call needs to succeed.

*Administration (`admin`):* a started command goes on, the clock runs, what was
processed becomes finalized, and a transaction that is not lost lands. Losses
and failing calls are faults, of which there are finitely many; without that
bound `CommandsEnd` is false for loops that repeat on errors. The exception in
`CommandsEnd`, `Refused`, is what the program will not do: the loop then does
repeat for ever.

*Claims (`claims`):* the same for commands and transactions, the clock runs, and
the claimant keeps starting some command, with the tree file or API of the
present distributor - strong fairness, because a terminal is free only from
time to time. Nobody has to start the command that works: any of the three does
where the token account exists.

`MassSend` has no liveness property and no fairness; `tree` needs the loop to
go on.

## Proofs

`ArithmeticLemmas` holds what the others share: products and quotients, because
the solver needs division stated as the product it bounds; induction over
numbers and over the subsets of a finite set, stated for *sets* (`SetInduction`,
`SubsetInduction`), because no installed prover can instantiate the library's
rules for predicates; that a recursion over numbers has a solution, and one only
(`FiniteRecursion`, `RecursionUnique`, `NatRecursion`); and from these the laws of
`SumFunctionOnSet`, which the library defines and says nothing about.

`MerkleDistributorProofs`: for natural window and amount, the vested part is
between zero and the locked amount (`UnlockedBounded`, so the cast from u128 to
u64 drops nothing) and grows with time (`UnlockedMonotone`). Then
`Spec => []IInv`, hence `TypeCorrect`, `VestingRespected`, `ClawbackWaits`,
`NoOverpayment`, `Solvency`, and `PromisesKept`. `IInv` adds to the properties:

* `LifeCycle` - a clawback's start stays a day after the end of vesting
  (otherwise `ClawbackAfterVesting` is not inductive), and claim statuses are
  never from a creation yet to come (otherwise a new distributor could inherit
  one that `WithdrawnNeverAhead` speaks about);
* `ClaimsAccounted` - in a production distributor a claim status records a leaf
  of the root, is not closable, and accounts for what was paid, which ties
  `paid` to the schedule;
* `VaultBalanced` - vault plus claimed equals funded until the clawback, which
  gives solvency.

`EverybodyFits` (`NobodyLockedOut`) follows from `IInv` for trees of any size: what the
counters have used up is what the claimants have got, so sums over the leaves
compare what is left under the caps with what is still due.

The last part is the refinement, `Spec => Promise!Spec`, without any condition. The abstract
promise binds (`Binding`) until a closable distributor is created; only then
may anything follow (`Airdrop!Void`): a claim status can then be closed and made
again, and one that survives its distributor is honoured by the next. `BindingChanges` is the part about the close instructions: what binds and
was announced binds for ever, and what was void stays so. Beside `IInv` the
refinement needs `NothingBefore`: nothing is paid before the first creation.

`AirdropTreesProofs`: for any CSV, tree size, number of runs into one folder and
radix of the file names, `TypesKept`, `AbortsOnlyOnOverflow`, `NothingIsLost`,
`EverybodyIsServed`, `TotalsAreReported` and `KvAndApiAgree`. `IInv` has a part for
each thing the commands hold:

* `CreateInv` - the trees written so far promise every set of users what the
  rows cut off so far do (`Promised`, `Cut`). It is stated for sets of users,
  because one user's promise (`NothingLost`) and the total (`TotalsReported`) are
  the same sum over different sets. Each tree of the folder comes from some rows
  (`TreeOf`), those of earlier runs included;
* `ReadInv` - the folder is frozen once anything has read it, so that what the
  API and `generate-kv-proof` hold belongs to the same trees;
* `ApiInv`, `KvInv` - the map is what the nodes read so far make of it (`Stores`):
  the entry of the last node of each user, and of nobody else. `KvInv` says so of
  the files written and the file at hand taken together, in the order in which
  they are uploaded. Two maps that store the same nodes are equal (`StoresOne`),
  wherever the files are cut, which is `KvAgreesWithApi`.

Underneath lie `CombineKeeps` (merging keeps each user's sum and leaves each user
one node, by induction over the recursive function `Combine`), `NewTreeIs` (what
`new` builds, so that `validate` refuses nothing else than an overflow and an
empty tree), and the reading order: names in any radix are different and ordered
totally, so the sorted paths are a permutation (`PathsPermute`), every tree is
read once, and sorting the versions undoes it (`VersionsSorted`).

`MerkleTreeProofs`: for any number of leaves and any order of the digests,
`TreeTypes`, `ProofsVerify` (each item's proof verifies), `OnlyItems` (nothing
else does, with any proof whatever) and `OneProof` (each item has one proof). The
invariant `TreeInv` says which node each entry of the vector is, level by level,
and that the oracle has given different digests to different preimages. From it,
by induction over the levels, a proof taken from the vector leads to the root;
conversely, by induction over the length of a proof, what leads to the root
passes through the nodes of the tree from the root down, since a digest of the
tree has one preimage. `OnlyItemsSearched` and `OneProofSearched` are the part
that the run searches.

`DeploymentProofs`: `Spec => []DeployIInv`, hence `TypeCorrect`, `VerifyIsRight`
and `NewDistributorIsRight`, for any folder, any parameters, any number of
attempts and faults. `DeployIInv` adds to the properties:

* in `TypeOK`, that a command's transaction is the one for the head of its
  queue and that the queue is the rest of its trees, so that what is known of a
  transaction is known of a tree it was asked about;
* `FinalizedStays` - what a read at finalized showed has not been taken back,
  which is why `verify` can be believed, for the terms it compares, although it
  looks at the past;
* `Verifying` and `Creating` - the trees dealt with so far are approved. `Creating`
  says of a distributor either that it has the given parameters, or that no
  older transaction in flight could still create it with others. The second
  case needs the order in which blockhashes expire: when the command's own has
  expired, so have those of everything before it;
* `Created` - the same after the command has ended.

`PaidOnce` (`PaidAgainOnlyAfterClaims`) needs `PayInv` besides: while the operator
is patient and nothing was retried, a vault that nobody has claimed from has been
paid at most once (`Whole`), a payment in flight or at hand is for a vault not
paid yet and is the only one (`InFlightUnpaid`, `InFlightOnce`, `OwnUnpaid`), and
the trees still to come have none in flight (`Ahead`). It uses that the folder
holds no version twice, which is an assumption of `Deployment`: file names are
different and each names its version.

`AdminCommandsProofs`: the average slot time is within a factor of two of the
default (`AverageIsPlausible`); given that, the estimate errs by less than a slot
(`EstimateIsNear`) and is monotone in the time (`EstimateIsMonotone`); and a
running `set-enable-slot-by-time` always carries such an estimate
(`SlotsMeetTimes`). For all commands, `ShapeInv` (`AdminTypes`) says what the
command line holds at each point of its loops; with it every action is one of a
few moves of the loop (`Move`), and the later invariants are shown to survive
moves. On it rest

* `NoneDropped`: what the queue no longer holds was accepted or is in the batch
  (`DropInv`);
* `AskedIsDone`: the distributors that a setter has left behind have what was
  asked, and no transaction in flight asks for anything else (`AskInv`), which is
  what a settled chain at the start gives;
* `ClosedUpTo`: statuses never change hands (`StatusesStay`), every full batch
  before the first foreign claim status is accepted, and what is accepted and
  neither in flight nor expired is closed (`CloseInv`).

`ClaimCommandsProofs`: `ClaimsImplementProgram`, `ClaimsSpec => Spec` of
`MerkleDistributor`: every transaction the commands send is one instruction of
the program or none, so all theorems about the program hold beside the commands
(`ClaimsNoOverpayment`, `ClaimsSolvency`). `ClaimsInvariance`, for any number of
terminals, gives `SuccessIsPayment` and `FreshClaimsPanic`; `ClaimsIInv` adds to
the program's `IInv` that a transaction belongs to the command that signed it,
and that one that was carried out, and a result that was reported, stand for a
claim that is still there (`Delivered`, which no instruction undoes in a
production distributor).

`MassSendProofs`: `RecordIsTruthful` from `RecordIInv`, which says the same of the
running command's copy of the record: a crash makes the next run start from
the file, a write makes the file equal to the copy. `MassSendTypes` from
`ShapeInv`. `ListedIsPaidOnce` (`PaidOnceUndisturbed`) from `UndisturbedInv`, the
balance of every address: what transactions pay that are not dead (`Live`), plus
one if what is noted is dead and a resend would repeat it (`Owed`), plus what the
batches of a mass-send still pay (`Pending`), is at most what the CSV lists. A
mass-send takes only addresses that no transaction pays (`Noted`); a resend's
groups hold each address once, under the dead signature that is noted for it
(`Groups`). The rest is counting: the batches hold each unsent address as often
as the CSV (`BatchedCounts`), and leaving entries out keeps the others
(`KeptCounts`).

The assumptions are the ASSUMEs of the modules: arguments have their types,
bounds are natural numbers, the vault is no claimant's or treasury's account,
the tree files of `ClaimCommands` lock nothing, as those `create-merkle-tree`
writes, trees are finite, a folder names no version twice, a batch of closings
fits into one transaction (eleven do), and slots are u64.

Only model-checked: liveness (`CommandsEnd`, `RootIsReached`, `EverybodyIsPaid`,
`WhoKeepsTryingIsPaid`), which the prover does not do. What a recursive
definition computes is proved by induction over sets of numbers
(`SetInduction`), for the recursive functions of the models; none of them has a
RECURSIVE operator.

## Not modelled

* Rent, events and error codes; the account checks that Anchor derives from
  types alone.
* `view-distributors`, `view-claim-status`, `total-claim`: they print what they
  read. `slot-by-time` prints the estimate of `SlotEstimate`.
* Rate limits and timeouts of the API (library code with constants), and its
  translation of errors into HTTP replies.
* In the SDK, `isClaimable`, the statistics and other read-only commands; of
  `check-api-returns-all-keys` the optional comparison with the tree files. The
  generated clients encode and decode.
* Floating-point rounding of an amount beyond its floor; file formats; a
  rollback of processed blocks.
* Priority fees, and the lamports a command needs for fees and rent.
* In `ClaimCommands`, commitment confirmed is taken for the present state.
* In `Deployment`, an account at a distributor's address that does not
  deserialize, for which `check_distributor_onchain_matches` returns `Ok`; only
  the program makes accounts there. The setters, `close-distributor` and the
  clawback do not run beside the deployment commands, so `VerifiedIsReady` and
  `ParametersChecked` speak of deployment commands and claims only. In
  `AdminCommands`, `set_admin` does not run beside `close-claim-status`: claim
  statuses of another admin are given at the start.

## Plan

Done: the program with its proofs and refinement, the tree, the path from the
CSV to the proofs with used folders and binary copies, deployment beside claims,
administration commands, claim commands against the program, mass send; and
theorems for every safety property and every action property that a passing run
checks.

Next, in this order:

1. Two terminals at once in `claims`, which the present bounds on faults and
   creations have no room for; the theorems cover any number.
