----------------------------- MODULE Deployment -----------------------------
(***************************************************************************)
(* Deploying an airdrop from the command line: new-distributor creates one *)
(* distributor and vault per tree, fund-all fills the vaults, verify       *)
(* compares the chain with the trees.  The commands talk to the chain      *)
(* through RPC nodes: calls may fail, transactions may be lost or land     *)
(* late, and what is read at commitment finalized lags behind what has     *)
(* happened.                                                               *)
(*                                                                         *)
(* The command line runs one command at a time.  Its program counter       *)
(* follows one loop over the trees with send_transaction inside; the retry *)
(* loop around it counts attempts.                                         *)
(***************************************************************************)
EXTENDS Integers, Sequences, SequencesExt

CONSTANTS
    Versions,        \* the airdrop versions of the trees in the folder
    MaxTotalClaim,   \* each version's max_total_claim
    Terms,           \* what verify compares: root, clawback_start_ts,
                     \* closable, admin, enable_slot, clawback_receiver
    Rests,           \* what it does not: start_ts, end_ts, max_total_claim,
                     \* max_num_nodes
    NoParams,        \* stands for an account that does not exist
    Scenarios,       \* the folders and operators a behaviour starts from
    Treasury,        \* what the operator's token account holds at first
    Attempts,        \* how often a command tries: ten times in the code
    LossyRpc,        \* may an RPC call fail?
    MaxRuns,         \* bound on the commands the operator starts
    MaxClaims        \* bound on the claims, of one token each

\* The parameters of a distributor, all of which new-distributor is given and
\* checks.
Params == [terms : Terms, rest : Rests]

\* The versions in the order of the sorted paths, the parameters the operator
\* uses, and whether the operator lets the chain settle before a command.
Scenario == [folder : Seq(Versions), params : SUBSET Params,
             patient : BOOLEAN]

ASSUME FolderAssumption ==
    /\ Scenarios \subseteq Scenario
    /\ \A s \in Scenarios : IsInjective(s.folder)
    /\ MaxTotalClaim \in [Versions -> Nat]
    /\ NoParams \notin Params \cup Terms

ASSUME OperatorAssumption ==
    /\ Treasury \in Nat
    /\ Attempts \in Nat \ {0}
    /\ LossyRpc \in BOOLEAN
    /\ MaxRuns \in Nat
    /\ MaxClaims \in Nat

VARIABLES
    scenario,    \* the folder and the operator
    processed,   \* the chain: distributors, vaults and the operator's tokens
    finalized,   \* the chain as commitment finalized shows it
    cli,         \* the running command
    tx,          \* the transaction it is sending
    orphans,     \* older ones, sent and left, that may still land
    last,        \* how the latest command ended
    runs,        \* how many were started
    retried      \* history: did fund-all ever start a second attempt?

chain == <<processed, finalized>>
vars == <<scenario, chain, cli, tx, orphans, last, runs, retried>>

Chain == [dist : [Versions -> Params \cup {NoParams}],
          vault : [Versions -> Nat],
          claimed : [Versions -> Nat],
          wallet : Nat]

Transaction ==
    [kind : {"new_distributor"}, version : Versions, params : Params]
      \cup [kind : {"fund_all"}, version : Versions, params : {NoParams}]

NoTx == [status |-> "none"]

\* The status of tx: not yet sent, sent, executed (ok or failed), or its
\* blockhash expired.  A sent transaction whose command moved on is an orphan.
InFlight == IF tx.status = "sent" THEN Append(orphans, tx.body) ELSE orphans

Idle == [pc |-> "idle"]

-----------------------------------------------------------------------------
(* Transactions. *)

Succeeds(t, state) ==
    IF t.kind = "new_distributor"
    THEN state.dist[t.version] = NoParams
    ELSE /\ state.dist[t.version] # NoParams
         /\ state.wallet >= MaxTotalClaim[t.version]

Effect(t, state) ==
    IF t.kind = "new_distributor"
    THEN [state EXCEPT !.dist[t.version] = t.params]
    ELSE [state EXCEPT !.vault[t.version] = @ + MaxTotalClaim[t.version],
                       !.wallet = @ - MaxTotalClaim[t.version]]

Land ==
    /\ tx.status = "sent"
    /\ \/ /\ Succeeds(tx.body, processed)
          /\ processed' = Effect(tx.body, processed)
          /\ tx' = [tx EXCEPT !.status = "ok"]
       \/ /\ ~Succeeds(tx.body, processed)
          /\ tx' = [tx EXCEPT !.status = "failed"]
          /\ UNCHANGED processed
    /\ UNCHANGED <<scenario, finalized, cli, orphans, last, runs, retried>>

LandOrphan(i) ==
    /\ processed' = IF Succeeds(orphans[i], processed)
                    THEN Effect(orphans[i], processed)
                    ELSE processed
    /\ orphans' = [k \in 1..(Len(orphans) - 1) |->
                     IF k < i THEN orphans[k] ELSE orphans[k + 1]]
    /\ UNCHANGED <<scenario, finalized, cli, tx, last, runs, retried>>

\* Blockhashes expire in the order in which they were fetched.
Expire ==
    \/ /\ orphans # <<>>
       /\ orphans' = Tail(orphans)
       /\ UNCHANGED <<scenario, chain, cli, tx, last, runs, retried>>
    \/ /\ orphans = <<>>
       /\ tx.status \in {"signed", "sent", "failed"}
       /\ tx' = [tx EXCEPT !.status = "expired"]
       /\ UNCHANGED <<scenario, chain, cli, orphans, last, runs, retried>>

Finalize ==
    /\ finalized # processed
    /\ finalized' = processed
    /\ UNCHANGED <<scenario, processed, cli, tx, orphans, last, runs, retried>>

\* A claimant takes a token out of a vault: new_claim and claim_locked, as far
\* as the vault is concerned.  The distributor's cap, which may be another one
\* than its tree's, is the matter of module MerkleDistributor.
Claim(v) ==
    /\ processed.dist[v] # NoParams
    /\ processed.vault[v] > 0
    /\ FoldFunction(+, 0, processed.claimed) < MaxClaims
    /\ processed' = [processed EXCEPT !.vault[v] = @ - 1, !.claimed[v] = @ + 1]
    /\ UNCHANGED <<scenario, finalized, cli, tx, orphans, last, runs, retried>>

\* Commitment confirmed lies between the other two.
Confirmed == {processed, finalized}

-----------------------------------------------------------------------------
(* Moves of the command line. *)

NextVersion(is_error) ==
    cli' = [cli EXCEPT !.pc = "next", !.queue = Tail(@),
                       !.is_error = @ \/ is_error]

End(result) ==
    /\ cli' = Idle
    /\ last' = [command |-> cli.command, params |-> cli.params,
                skip_verify |-> cli.skip_verify, trees |-> cli.trees,
                result |-> result]
    /\ UNCHANGED retried

\* A panic, or the operator's interrupt: the process ends where it is, and a
\* transaction it has sent may still land.
Panic == End("panicked") /\ tx' = NoTx /\ orphans' = InFlight

\* The Err of one attempt: the command starts over, up to its last attempt.
\* verify has no attempts: its unwrap and its assertions panic.
FailAttempt ==
    /\ orphans' = InFlight
    /\ tx' = NoTx
    /\ IF cli.command # "verify" /\ cli.attempt < Attempts
       THEN /\ cli' = [cli EXCEPT !.pc = "next", !.queue = cli.trees,
                                  !.is_error = FALSE, !.attempt = @ + 1]
            /\ retried' = (retried \/ cli.command = "fund_all")
            /\ UNCHANGED last
       ELSE End("panicked")

Sign(v) ==
    /\ cli' = [cli EXCEPT !.pc = "simulate"]
    /\ tx' = [status |-> "signed",
              body |-> [kind |-> cli.command, version |-> v,
                        params |-> cli.params]]
    /\ UNCHANGED <<orphans, last, retried>>

\* A slip for comparison: the transaction is not given up.
SentKeeping(ok) ==
    /\ IF cli.command = "new_distributor"
       THEN cli' = [cli EXCEPT !.pc = "check", !.is_error = @ \/ ~ok]
       ELSE NextVersion(~ok)
    /\ UNCHANGED <<tx, orphans, last, retried>>

\* send_transaction has returned.  new-distributor looks again at what is on
\* chain, whatever was returned.
Sent(ok) ==
    /\ orphans' = InFlight
    /\ tx' = NoTx
    /\ IF cli.command = "new_distributor"
       THEN cli' = [cli EXCEPT !.pc = "check", !.is_error = @ \/ ~ok]
       ELSE NextVersion(~ok)
    /\ UNCHANGED <<last, retried>>

Settled == processed = finalized /\ orphans = <<>>

\* new-distributor and verify may be told to handle one version only.
Selections == {scenario.folder} \cup {<<v>> : v \in ToSet(scenario.folder)}

Start(command, params, skip_verify, trees) ==
    /\ cli.pc = "idle"
    /\ runs < MaxRuns
    /\ scenario.patient => Settled
    /\ runs' = runs + 1
    /\ cli' = [pc |-> "next", command |-> command, params |-> params,
               skip_verify |-> skip_verify, trees |-> trees, queue |-> trees,
               is_error |-> FALSE, attempt |-> 1]
    /\ UNCHANGED <<scenario, chain, tx, orphans, last, retried>>

-----------------------------------------------------------------------------
(* The loops over the trees. *)

\* create_new_distributor up to the signed transaction.  Only the program makes
\* accounts at these addresses, so what is there is a distributor; the Ok of
\* check_distributor_onchain_matches for one that does not deserialize is left
\* out.
LookForDistributor(v, state) ==
    /\ cli.command = "new_distributor"
    /\ \/ /\ state.dist[v] = cli.params
          /\ NextVersion(FALSE)
          /\ UNCHANGED <<tx, orphans, last, retried>>
       \/ /\ state.dist[v] \notin {NoParams, cli.params}
          /\ Panic
       \/ /\ state.dist[v] = NoParams
          /\ Sign(v)

\* A slip for comparison: what is in the vault is not looked at.
LookAtVaultBlindly(v, state) ==
    /\ cli.command = "fund_all"
    /\ \/ /\ state.dist[v] = NoParams
          /\ FailAttempt
       \/ /\ state.dist[v] # NoParams
          /\ Sign(v)

\* fund_all up to the signed transaction.
LookAtVault(v, state) ==
    /\ cli.command = "fund_all"
    /\ \/ /\ state.dist[v] = NoParams
          /\ FailAttempt
       \/ /\ state.dist[v] # NoParams
          /\ state.vault[v] >= MaxTotalClaim[v]
          /\ NextVersion(FALSE)
          /\ UNCHANGED <<tx, orphans, last, retried>>
       \/ /\ state.dist[v] # NoParams
          /\ state.vault[v] < MaxTotalClaim[v]
          /\ Sign(v)

\* A distributor that is there, with these terms.
HasTerms(params, terms) == params # NoParams /\ params.terms = terms

\* A slip for comparison: the amount is never compared.
VerifyTreeWithoutAmount(v, state) ==
    /\ cli.command = "verify"
    /\ IF HasTerms(state.dist[v], cli.params)
       THEN NextVersion(FALSE) /\ UNCHANGED <<tx, orphans, last, retried>>
       ELSE Panic

\* With verify, skip_verify stands for its flag skip_verify_amount.  It is not
\* given a vesting window, and compares no caps.
VerifyTree(v, state) ==
    /\ cli.command = "verify"
    /\ IF /\ HasTerms(state.dist[v], cli.params)
          /\ cli.skip_verify \/ state.vault[v] = MaxTotalClaim[v]
       THEN NextVersion(FALSE) /\ UNCHANGED <<tx, orphans, last, retried>>
       ELSE Panic

\* Looking at the accounts of the next tree.  A failing read is an Err of the
\* attempt; a failing get_latest_blockhash is unwrapped.
Inspect ==
    /\ cli.pc = "next"
    /\ cli.queue # <<>>
    /\ \/ \E state \in Confirmed : LookForDistributor(Head(cli.queue), state)
       \/ LookAtVault(Head(cli.queue), finalized)
       \/ VerifyTree(Head(cli.queue), finalized)
       \/ LossyRpc /\ FailAttempt
       \/ LossyRpc /\ Panic
    /\ UNCHANGED <<scenario, chain, runs>>

\* new-distributor simulates at confirmed, fund-all at finalized; with
\* skip_verify the node's preflight takes the place of the simulation, and
\* nothing waits for the transaction or looks at the result.
Simulate ==
    /\ cli.pc = "simulate"
    /\ \E state \in (IF cli.command = "fund_all" THEN {finalized}
                                                 ELSE Confirmed) :
          \/ /\ Succeeds(tx.body, state)
             /\ ~cli.skip_verify
             /\ cli' = [cli EXCEPT !.pc = "loop"]
             /\ UNCHANGED <<tx, orphans, last, retried>>
          \/ /\ Succeeds(tx.body, state) /\ tx.status # "expired"
             /\ cli.skip_verify
             /\ NextVersion(FALSE)
             /\ orphans' = Append(orphans, tx.body)
             /\ tx' = NoTx
             /\ UNCHANGED <<last, retried>>
          \/ /\ LossyRpc \/ ~Succeeds(tx.body, state) \/ tx.status = "expired"
             /\ cli.skip_verify
             /\ NextVersion(TRUE)
             /\ tx' = NoTx
             /\ \/ UNCHANGED orphans
                \/ LossyRpc /\ orphans' = Append(orphans, tx.body)
             /\ UNCHANGED <<last, retried>>
          \/ /\ LossyRpc \/ ~Succeeds(tx.body, state)
             /\ ~cli.skip_verify
             /\ Sent(FALSE)
    /\ UNCHANGED <<scenario, chain, runs>>

\* A slip for comparison: an expired blockhash is not noticed.
SendLoopEndless ==
    /\ cli.pc = "loop"
    /\ \/ /\ tx' = [tx EXCEPT !.status = IF @ = "signed" THEN "sent" ELSE @]
          /\ cli' = [cli EXCEPT !.pc = "confirm"]
          /\ UNCHANGED <<orphans, last, retried>>
       \/ LossyRpc /\ Sent(FALSE)
    /\ UNCHANGED <<scenario, chain, runs>>

\* The loop of send_transaction.  An expired blockhash ends it with Ok.
SendLoop ==
    /\ cli.pc = "loop"
    /\ \/ /\ tx.status = "expired"
          /\ Sent(TRUE)
       \/ /\ tx.status # "expired"
          /\ tx' = [tx EXCEPT !.status = IF @ = "signed" THEN "sent" ELSE @]
          /\ cli' = [cli EXCEPT !.pc = "confirm"]
          /\ UNCHANGED <<orphans, last, retried>>
       \/ LossyRpc /\ Sent(FALSE)
    /\ UNCHANGED <<scenario, chain, runs>>

Confirm ==
    /\ cli.pc = "confirm"
    /\ \/ /\ tx.status = "ok"
          /\ Sent(TRUE)
       \/ /\ tx.status # "ok"
          /\ cli' = [cli EXCEPT !.pc = "loop"]
          /\ UNCHANGED <<tx, orphans, last, retried>>
       \/ LossyRpc /\ Sent(FALSE)
    /\ UNCHANGED <<scenario, chain, runs>>

\* A slip for comparison: whatever is there is taken for good.
CheckDistributorTrusting ==
    /\ cli.pc = "check"
    /\ \/ /\ NextVersion(FALSE)
          /\ UNCHANGED <<tx, orphans, last, retried>>
       \/ LossyRpc /\ FailAttempt
    /\ UNCHANGED <<scenario, chain, runs>>

\* The second look at the distributor, at commitment processed; an account that
\* does not deserialize is left out here too.
CheckDistributor ==
    /\ cli.pc = "check"
    /\ \/ /\ processed.dist[Head(cli.queue)] \in {NoParams, cli.params}
          /\ NextVersion(FALSE)
          /\ UNCHANGED <<tx, orphans, last, retried>>
       \/ /\ processed.dist[Head(cli.queue)] \notin {NoParams, cli.params}
          /\ Panic
       \/ LossyRpc /\ FailAttempt
    /\ UNCHANGED <<scenario, chain, runs>>

EndAttempt ==
    /\ cli.pc = "next"
    /\ cli.queue = <<>>
    /\ \/ /\ ~cli.is_error
          /\ End("done")
          /\ UNCHANGED <<tx, orphans>>
       \/ /\ cli.is_error
          /\ FailAttempt
    /\ UNCHANGED <<scenario, chain, runs>>

CliStep ==
    \/ Inspect
    \/ Simulate
    \/ SendLoop
    \/ Confirm
    \/ CheckDistributor
    \/ EndAttempt

Interrupt ==
    /\ cli.pc # "idle"
    /\ Panic
    /\ UNCHANGED <<scenario, chain, runs>>

-----------------------------------------------------------------------------
EmptyChain == [dist |-> [v \in Versions |-> NoParams],
               vault |-> [v \in Versions |-> 0],
               claimed |-> [v \in Versions |-> 0],
               wallet |-> Treasury]

Init ==
    /\ scenario \in Scenarios
    /\ processed = EmptyChain
    /\ finalized = EmptyChain
    /\ cli = Idle
    /\ tx = NoTx
    /\ orphans = <<>>
    /\ last = [result |-> "none"]
    /\ runs = 0
    /\ retried = FALSE

Next ==
    \/ \E params \in scenario.params, skip_verify \in BOOLEAN,
          trees \in Selections :
          \/ Start("new_distributor", params, skip_verify, trees)
          \/ Start("verify", params.terms, skip_verify, trees)
    \/ Start("fund_all", NoParams, FALSE, scenario.folder)
    \/ CliStep
    \/ Interrupt
    \/ Land
    \/ \E i \in DOMAIN orphans : LandOrphan(i)
    \/ \E v \in Versions : Claim(v)
    \/ Expire
    \/ Finalize

\* A started command goes on; slots go by, so blockhashes expire and what
\* was processed is finalized.  No transaction needs ever to land.
Fairness ==
    /\ WF_vars(CliStep)
    /\ WF_vars(Expire)
    /\ WF_vars(Finalize)

Spec == Init /\ [][Next]_vars /\ Fairness

-----------------------------------------------------------------------------
(* Properties. *)

\* What each command is given.
Arguments == [new_distributor |-> Params, verify |-> Terms,
              fund_all |-> {NoParams}]

Command ==
    [pc : {"next", "simulate", "loop", "confirm", "check"},
     command : DOMAIN Arguments,
     params : Params \cup Terms \cup {NoParams}, skip_verify : BOOLEAN,
     trees : Seq(Versions), queue : Seq(Versions), is_error : BOOLEAN,
     attempt : Nat]

OutcomeOf(command) ==
    [command : {command}, params : Arguments[command], skip_verify : BOOLEAN,
     trees : Seq(Versions), result : {"done", "panicked"}]

Outcome ==
    OutcomeOf("new_distributor") \cup OutcomeOf("fund_all") \cup OutcomeOf("verify")

\* How many of its trees a command has dealt with; the queue holds the rest.
Handled == Len(cli.trees) - Len(cli.queue)

\* The chain and the command line's records are well formed; a command holds
\* a transaction, its own for the next tree, exactly while it sends it.
TypeOK ==
    /\ scenario \in Scenarios
    /\ processed \in Chain
    /\ finalized \in Chain
    /\ cli \in {Idle} \cup Command
    /\ tx \in {NoTx} \cup [status : {"signed", "sent", "ok", "failed", "expired"},
                           body : Transaction]
    /\ orphans \in Seq(Transaction)
    /\ last \in {[result |-> "none"]} \cup Outcome
    /\ (tx.status = "none") <=> (cli.pc \in {"idle", "next", "check"})
    /\ cli.pc # "idle" =>
          /\ cli.params \in Arguments[cli.command]
          /\ cli.command = "verify" => cli.pc = "next"
          /\ cli.pc = "check" => cli.command = "new_distributor"
          /\ cli.pc # "next" => cli.queue # <<>>
          /\ tx.status # "none" =>
                tx.body = [kind |-> cli.command, version |-> Head(cli.queue),
                           params |-> cli.params]
          /\ Handled >= 0
          /\ \A j \in DOMAIN cli.queue : cli.queue[j] = cli.trees[Handled + j]

\* After new-distributor has ended well, and unless it was told to skip the
\* check, no distributor of its trees has other parameters than it was given,
\* until the next command: also when a transaction of an earlier run with
\* other parameters was left in flight.
ParametersChecked ==
    cli.pc = "idle" /\ last.result = "done"
      /\ last.command = "new_distributor" /\ ~last.skip_verify =>
        \A i \in DOMAIN last.trees :
            processed.dist[last.trees[i]] \in {NoParams, last.params}

\* A distributor as verify approves it, or one that has paid claims since.
Ready(v, terms, skip_verify) ==
    /\ HasTerms(processed.dist[v], terms)
    /\ \/ skip_verify
       \/ processed.vault[v] + processed.claimed[v] >= MaxTotalClaim[v]

\* What verify has approved is there: every distributor it was asked about has
\* the given terms and, unless it was told to skip the amount, a vault that
\* together with what was claimed from it covers the tree's max_total_claim,
\* and no late transaction takes that away.  Of the rest of the parameters,
\* the vesting window and the caps, verify says nothing.
VerifiedIsReady ==
    last.result = "done" /\ last.command = "verify" =>
        \A i \in DOMAIN last.trees :
            Ready(last.trees[i], last.params, last.skip_verify)

\* An operator who lets the chain settle between commands pays for a vault
\* twice only after tokens were claimed from it, whatever calls fail and
\* wherever a command is interrupted, as long as fund-all has not started a
\* second attempt by itself: fund-all compares the present balance with
\* max_total_claim, so a claim makes a vault look unfunded.
PaidAgainOnlyAfterClaims ==
    scenario.patient /\ ~retried =>
        \A v \in Versions :
            processed.vault[v] + processed.claimed[v] > MaxTotalClaim[v] =>
                processed.claimed[v] > 0

\* No command hangs: send_transaction's loop ends at the latest when the
\* blockhash expires, and the attempts are bounded.
CommandsEnd == (cli.pc # "idle") ~> (cli.pc = "idle")

-----------------------------------------------------------------------------
(* What the command line's messages and its verify command say. *)

\* "Done fund all distributors": the vaults are funded.
DoneMeansFunded ==
    last.result = "done" /\ last.command = "fund_all" =>
        \A v \in ToSet(last.trees) :
            processed.vault[v] + processed.claimed[v] >= MaxTotalClaim[v]

\* "already fund airdrop version": what fund-all has paid for, it does not pay
\* for again, and verify's assertion that a vault holds max_total_claim can
\* succeed.
NeverOverfunded ==
    \A v \in Versions : processed.vault[v] <= MaxTotalClaim[v]

-----------------------------------------------------------------------------
(* The inductive invariant behind VerifiedIsReady and ParametersChecked. *)

\* A distributor that has the given parameters, or that no transaction still
\* in flight can create with others.
Checked(v, params) ==
    \/ processed.dist[v] = params
    \/ /\ processed.dist[v] = NoParams
       /\ \A i \in DOMAIN orphans :
             orphans[i].kind = "new_distributor" /\ orphans[i].version = v =>
                 orphans[i].params = params

\* What is finalized stays: no distributor is created twice, and what was paid
\* into a vault is in it or was claimed from it.
FinalizedStays ==
    \A v \in Versions :
        /\ finalized.dist[v] # NoParams => processed.dist[v] = finalized.dist[v]
        /\ finalized.vault[v] + finalized.claimed[v]
              <= processed.vault[v] + processed.claimed[v]

\* verify has approved what it has dealt with.
Verifying ==
    cli.pc # "idle" /\ cli.command = "verify" =>
        \A i \in 1..Handled : Ready(cli.trees[i], cli.params, cli.skip_verify)

\* new-distributor has checked what it has dealt with, unless it will start
\* over.  A blockhash only expires after those of all transactions before it.
Creating ==
    cli.pc # "idle" /\ cli.command = "new_distributor" /\ ~cli.skip_verify
      /\ ~cli.is_error =>
        /\ \A i \in 1..Handled : Checked(cli.trees[i], cli.params)
        /\ tx.status = "expired" => orphans = <<>>
        /\ tx.status = "ok" => processed.dist[Head(cli.queue)] # NoParams
        /\ cli.pc = "check" =>
              orphans = <<>> \/ processed.dist[Head(cli.queue)] # NoParams

Created ==
    cli.pc = "idle" /\ last.result = "done"
      /\ last.command = "new_distributor" /\ ~last.skip_verify =>
        \A i \in DOMAIN last.trees : Checked(last.trees[i], last.params)

DeployIInv ==
    /\ TypeOK
    /\ FinalizedStays
    /\ Verifying
    /\ VerifiedIsReady
    /\ Creating
    /\ Created

=============================================================================
