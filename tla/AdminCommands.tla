--------------------------- MODULE AdminCommands ----------------------------
(***************************************************************************)
(* The administration commands: clawback, set-admin,                       *)
(* set-clawback-receiver, set-clawback-start-ts, set-enable-slot,          *)
(* set-enable-slot-by-time, close-distributor and close-claim-status.      *)
(*                                                                         *)
(* Each is a loop over distributors (or claim statuses).  What to do is    *)
(* read at commitment finalized, simulations and preflights look at        *)
(* confirmed.  They send in three ways: with send_transaction of this      *)
(* repository, with the client's send_and_confirm_transaction, or with its *)
(* send_transaction, which only submits.                                   *)
(***************************************************************************)
EXTENDS SlotEstimate, FiniteSets

CONSTANTS
    Versions,          \* airdrop versions
    Wallets,           \* keypairs, admins
    TokenAccounts,     \* token accounts of the mint that exist
    Receivers,         \* arguments of set-clawback-receiver
    Timestamps,        \* arguments of set-clawback-start-ts
    EnableSlots,       \* arguments of set-enable-slot
    EnableTimes,       \* arguments of set-enable-slot-by-time
    SampleLists,       \* what get_recent_performance_samples may answer
    EarliestClawback,  \* the end of vesting and one day
    ClaimStatuses,     \* how many claim statuses there are
    BatchSize,         \* 11 in close-claim-status
    TxLimit,           \* how many closings fit into a transaction
    Absent,            \* stands for a closed account
    Scenarios,         \* what a behaviour starts from
    SlotsPerSecond,    \* how many slots may go by in a second
    MaxFaults,         \* bound on failing calls and lost transactions
    MaxRuns            \* bound on the commands the operator starts

Setters == {"set_admin", "set_clawback_receiver", "set_clawback_start_ts",
            "set_enable_slot"}
Commands == Setters \cup {"clawback", "set_enable_slot_by_time",
                          "close_distributor", "close_claim_status"}

Distributor == [admin : Wallets, clawback_receiver : TokenAccounts,
                clawback_start_ts : Nat, enable_slot : Nat,
                clawed_back : BOOLEAN, closable : BOOLEAN]

\* The distributors there are, the admins of the closable claim statuses of
\* the whole program, the commands the operators have in mind, who they are,
\* and a bound on the clock.
Scenario == [dist : [Versions -> Distributor \cup {Absent}],
             statuses : [1..ClaimStatuses -> Wallets \cup {Absent}],
             folder : Seq(Versions),
             commands : SUBSET Commands,
             keypairs : SUBSET Wallets,
             until : Nat]

ASSUME AdminAssumption ==
    /\ Scenarios \subseteq Scenario
    /\ Timestamps \cup EnableSlots \cup EnableTimes \cup SlotsPerSecond
         \subseteq Nat
    /\ SampleLists \subseteq Seq(Sample)
    /\ EarliestClawback \in Nat
    /\ ClaimStatuses \in Nat
    /\ BatchSize \in Nat \ {0}
    /\ TxLimit \in Nat
    /\ BatchSize <= TxLimit
    /\ Absent \notin Distributor \cup Wallets
    /\ MaxFaults \in Nat
    /\ MaxRuns \in Nat

VARIABLES
    scenario,    \* the folder and the commands in mind
    processed,   \* the chain: distributors and claim statuses
    finalized,   \* the chain as commitment finalized shows it
    now,         \* Clock: unix_timestamp
    slot,        \* Clock: slot
    cli,         \* the running command
    tx,          \* the transaction it is sending
    orphans,     \* older ones, sent and left, that may still land
    last,        \* how the latest command ended, until the next one starts
    runs,        \* how many were started
    faults,      \* how many calls failed and transactions were lost
    hasty        \* history: did a command start before the chain settled?

chain == <<processed, finalized>>
clock == <<now, slot>>
vars == <<scenario, chain, clock, cli, tx, orphans, last, runs, faults, hasty>>

NoTx == [status |-> "none"]
Idle == [pc |-> "idle"]

Settled == processed = finalized /\ orphans = <<>> /\ tx = NoTx

-----------------------------------------------------------------------------
(* Transactions. *)

\* The account field that each setter sets.
FieldOf == [set_admin |-> "admin",
            set_clawback_receiver |-> "clawback_receiver",
            set_clawback_start_ts |-> "clawback_start_ts",
            set_enable_slot |-> "enable_slot"]

\* What each instruction of the program asks for; module MerkleDistributor
\* has them in full.  A transaction that closes claim statuses closes all of
\* them or none.
Succeeds(t, state) ==
    IF t.kind = "close_claim_status"
    THEN \A s \in ToSet(t.value) : state.statuses[s] = t.signer
    ELSE LET d == state.dist[t.version]
         IN  /\ d # Absent
             /\ t.kind = "clawback" \/ t.signer = d.admin
             /\ CASE t.kind = "set_admin" -> t.value # t.signer
                  [] t.kind = "set_clawback_receiver" ->
                        /\ t.value \in TokenAccounts
                        /\ t.value # d.clawback_receiver
                  [] t.kind = "set_clawback_start_ts" ->
                        t.value > now /\ t.value >= EarliestClawback
                  [] t.kind = "set_enable_slot" -> TRUE
                  [] t.kind = "clawback" ->
                        /\ ~d.clawed_back
                        /\ now >= d.clawback_start_ts
                        /\ t.value = d.clawback_receiver
                  [] t.kind = "close_distributor" -> d.closable

Effect(t, state) ==
    CASE t.kind \in Setters ->
            [state EXCEPT !.dist[t.version][FieldOf[t.kind]] = t.value]
      [] t.kind = "clawback" ->
            [state EXCEPT !.dist[t.version].clawed_back = TRUE]
      [] t.kind = "close_distributor" ->
            [state EXCEPT !.dist[t.version] = Absent]
      [] t.kind = "close_claim_status" ->
            [state EXCEPT !.statuses =
                [s \in DOMAIN @ |-> IF s \in ToSet(t.value) THEN Absent
                                                             ELSE @[s]]]

Land ==
    /\ tx.status = "sent"
    /\ IF Succeeds(tx.body, processed)
       THEN /\ processed' = Effect(tx.body, processed)
            /\ tx' = [tx EXCEPT !.status = "ok"]
       ELSE /\ tx' = [tx EXCEPT !.status = "failed"]
            /\ UNCHANGED processed
    /\ UNCHANGED <<scenario, finalized, clock, cli, orphans, last, runs, faults,
                   hasty>>

LandOrphan(i) ==
    /\ processed' = IF Succeeds(orphans[i], processed)
                    THEN Effect(orphans[i], processed)
                    ELSE processed
    /\ orphans' = RemoveAt(orphans, i)
    /\ UNCHANGED <<scenario, finalized, clock, cli, tx, last, runs, faults, hasty>>

Fault == faults < MaxFaults /\ faults' = faults + 1

\* Blockhashes expire in the order in which they were fetched.  That one
\* expires before its transaction was executed is a fault.
Expire ==
    /\ \/ /\ orphans # <<>>
          /\ Fault
          /\ orphans' = Tail(orphans)
          /\ UNCHANGED tx
       \/ /\ orphans = <<>>
          /\ \/ tx.status = "failed" /\ UNCHANGED faults
             \/ tx.status \in {"signed", "sent"} /\ Fault
          /\ tx' = [tx EXCEPT !.status = "expired"]
          /\ UNCHANGED orphans
    /\ UNCHANGED <<scenario, chain, clock, cli, last, runs, hasty>>

Finalize ==
    /\ finalized # processed
    /\ finalized' = processed
    /\ UNCHANGED <<scenario, processed, clock, cli, tx, orphans, last, runs,
                   faults, hasty>>

Tick ==
    /\ now < scenario.until
    /\ now' = now + 1
    /\ \E n \in SlotsPerSecond : slot' = slot + n /\ slot' <= MaxU64
    /\ UNCHANGED <<scenario, chain, cli, tx, orphans, last, runs, faults, hasty>>

\* Commitment confirmed lies between the other two.
Confirmed == {processed, finalized}

-----------------------------------------------------------------------------
(* Moves of the command line. *)

InFlight == IF tx.status = "sent" THEN Append(orphans, tx.body) ELSE orphans

End(result, ended) ==
    /\ cli' = Idle
    /\ last' = [command |-> ended.command, keypair |-> ended.keypair,
                value |-> ended.value, bs58 |-> ended.bs58,
                trees |-> ended.trees, before |-> ended.before,
                expired |-> ended.expired, accepted |-> ended.accepted,
                batch |-> ended.batch, result |-> result]

\* The process ends where it is; a transaction it has sent may still land.
Panic ==
    /\ End("panicked", cli)
    /\ orphans' = InFlight
    /\ tx' = NoTx

NextVersion ==
    /\ cli' = [cli EXCEPT !.pc = "next", !.queue = Tail(@)]
    /\ UNCHANGED <<tx, orphans, last>>

\* The three ways of sending start at pc simulate, submit and
\* send_and_confirm.
Sign(way, version, value) ==
    /\ tx' = [status |-> "signed",
              body |-> [kind |-> IF cli.command = "set_enable_slot_by_time"
                                 THEN "set_enable_slot" ELSE cli.command,
                        version |-> version, signer |-> cli.keypair,
                        value |-> value]]
    /\ cli' = [cli EXCEPT !.pc = way]
    /\ UNCHANGED <<orphans, last>>

-----------------------------------------------------------------------------
(* The loops. *)

\* A slip for comparison: an error ends the loop as well.
AgainGivingUp(ok, expired) ==
    /\ cli.command \in Setters \cup {"clawback"}
    /\ cli' = [cli EXCEPT !.pc = "next", !.queue = Tail(@),
                          !.expired = @ \/ expired]
    /\ UNCHANGED last

\* The loop around one distributor: it is left on Ok and repeated on Err.
Again(ok, expired) ==
    /\ cli.command \in Setters \cup {"clawback"}
    /\ cli' = [cli EXCEPT !.pc = "next",
                          !.queue = IF ok THEN Tail(@) ELSE @,
                          !.expired = @ \/ expired]
    /\ UNCHANGED last

\* The unwrap of set-enable-slot-by-time.
Unwrapped(ok) ==
    /\ cli.command = "set_enable_slot_by_time"
    /\ \/ /\ ok
          /\ cli' = [cli EXCEPT !.pc = "next", !.queue = Tail(@)]
          /\ UNCHANGED last
       \/ /\ ~ok
          /\ End("panicked", cli)

\* close-distributor prints an error and goes on.
Printed ==
    /\ cli.command = "close_distributor"
    /\ cli' = [cli EXCEPT !.pc = "next", !.queue = Tail(@)]
    /\ UNCHANGED last

\* A slip for comparison: a batch that failed is dropped.
BatchDoneDropping(ok) ==
    LET after == [cli EXCEPT !.pc = "next", !.batch = <<>>,
                    !.accepted = IF ok THEN @ \cup ToSet(cli.batch) ELSE @]
    IN  /\ cli.command = "close_claim_status"
        /\ IF cli.pc = "submit" THEN cli' = after /\ UNCHANGED last
                                ELSE End("done", after)

\* A full batch is emptied when it could be submitted and kept, to grow, when
\* it could not; the command ends after the batch that is left over.
BatchDone(ok) ==
    LET after == [cli EXCEPT !.pc = "next",
                    !.batch = IF ok THEN <<>> ELSE @,
                    !.accepted = IF ok THEN @ \cup ToSet(cli.batch) ELSE @]
    IN  /\ cli.command = "close_claim_status"
        /\ IF cli.pc = "submit" THEN cli' = after /\ UNCHANGED last
                                ELSE End("done", after)

\* A slip for comparison: the transaction is not given up.
ReturnedKeeping(ok, expired, delivered) ==
    /\ UNCHANGED <<tx, orphans>>
    /\ \/ Again(ok, expired)
       \/ Unwrapped(ok)
       \/ Printed
       \/ BatchDone(ok)

\* A way of sending has returned; the transaction may have been delivered.
Returned(ok, expired, delivered) ==
    /\ orphans' = IF delivered THEN Append(orphans, tx.body) ELSE orphans
    /\ tx' = NoTx
    /\ \/ Again(ok, expired)
       \/ Unwrapped(ok)
       \/ Printed
       \/ BatchDone(ok)

\* A slip for comparison: the distributor is not looked at again.
SetFieldBlindly(v, field, way) ==
    LET d == finalized.dist[v]
    IN  \/ d = Absent /\ Panic
        \/ d # Absent /\ cli.bs58 /\ NextVersion
        \/ /\ d # Absent /\ ~cli.bs58
           /\ IF cli.keypair = d.admin THEN Sign(way, v, cli.value) ELSE Panic

\* What the four setters share: a distributor that cannot be read is a panic,
\* one that has the value is skipped, with bs58 the message is only printed,
\* and signing for another admin panics.
SetField(v, field, way) ==
    LET d == finalized.dist[v]
    IN  \/ d = Absent /\ Panic
        \/ d # Absent /\ (d[field] = cli.value \/ cli.bs58) /\ NextVersion
        \/ /\ d # Absent /\ d[field] # cli.value /\ ~cli.bs58
           /\ IF cli.keypair = d.admin THEN Sign(way, v, cli.value) ELSE Panic

SetAdminOf(v) ==
    /\ cli.command = "set_admin"
    /\ SetField(v, "admin", "simulate")

SetClawbackReceiverOf(v) ==
    /\ cli.command = "set_clawback_receiver"
    /\ SetField(v, "clawback_receiver", "submit")

SetClawbackStartTsOf(v) ==
    /\ cli.command = "set_clawback_start_ts"
    /\ SetField(v, "clawback_start_ts", "send_and_confirm")

SetEnableSlotOf(v) ==
    /\ cli.command = "set_enable_slot"
    /\ SetField(v, "enable_slot", "send_and_confirm")

\* Nothing is read before the slot is set.
SetEnableSlotByTimeOf(v) ==
    /\ cli.command = "set_enable_slot_by_time"
    /\ Sign("send_and_confirm", v, cli.value)

ClawbackOf(v) ==
    LET d == finalized.dist[v]
    IN  /\ cli.command = "clawback"
        /\ \/ d = Absent /\ Panic
           \/ d # Absent /\ d.clawed_back /\ NextVersion
           \/ d # Absent /\ ~d.clawed_back
              /\ Sign("simulate", v, d.clawback_receiver)

CloseDistributorOf(v) ==
    /\ cli.command = "close_distributor"
    /\ IF finalized.dist[v] = Absent THEN NextVersion
                                     ELSE Sign("submit", v, Absent)

\* A slip for comparison: batches grow by one too many.
TakeClaimStatusLate(status) ==
    LET batch == Append(cli.batch, status)
    IN  /\ cli.command = "close_claim_status"
        /\ IF Len(batch) <= BatchSize
           THEN /\ cli' = [cli EXCEPT !.queue = Tail(@), !.batch = batch]
                /\ UNCHANGED <<tx, orphans, last>>
           ELSE /\ cli' = [cli EXCEPT !.pc = "submit", !.queue = Tail(@),
                                      !.batch = batch]
                /\ tx' = [status |-> "signed",
                          body |-> [kind |-> cli.command, version |-> Absent,
                                    signer |-> cli.keypair, value |-> batch]]
                /\ UNCHANGED <<orphans, last>>

\* The next claim status joins the batch.  No call is made until it is full.
TakeClaimStatus(status) ==
    LET batch == Append(cli.batch, status)
    IN  /\ cli.command = "close_claim_status"
        /\ IF Len(batch) < BatchSize
           THEN /\ cli' = [cli EXCEPT !.queue = Tail(@), !.batch = batch]
                /\ UNCHANGED <<tx, orphans, last>>
           ELSE /\ cli' = [cli EXCEPT !.pc = "submit", !.queue = Tail(@),
                                      !.batch = batch]
                /\ tx' = [status |-> "signed",
                          body |-> [kind |-> cli.command, version |-> Absent,
                                    signer |-> cli.keypair, value |-> batch]]
                /\ UNCHANGED <<orphans, last>>

\* One turn of a loop up to the signed transaction.  A call that fails here is
\* unwrapped, except that close-distributor skips what it cannot read.
Inspect ==
    /\ cli.pc = "next"
    /\ cli.queue # <<>>
    /\ \/ /\ \/ SetAdminOf(Head(cli.queue))
             \/ SetClawbackReceiverOf(Head(cli.queue))
             \/ SetClawbackStartTsOf(Head(cli.queue))
             \/ SetEnableSlotOf(Head(cli.queue))
             \/ SetEnableSlotByTimeOf(Head(cli.queue))
             \/ ClawbackOf(Head(cli.queue))
             \/ CloseDistributorOf(Head(cli.queue))
             \/ TakeClaimStatus(Head(cli.queue))
          /\ UNCHANGED faults
       \/ Fault /\ Panic
       \/ Fault /\ cli.command = "close_distributor" /\ NextVersion
    /\ UNCHANGED <<scenario, chain, clock, runs, hasty>>

\* The loop over the claim statuses has ended: what is left over is sent.
Finish ==
    /\ cli.pc = "next"
    /\ cli.queue = <<>>
    /\ IF cli.command = "close_claim_status" /\ cli.batch # <<>>
       THEN Sign("send_and_confirm", Absent, cli.batch)
       ELSE End("done", cli) /\ UNCHANGED <<tx, orphans>>
    /\ UNCHANGED <<scenario, chain, clock, runs, faults, hasty>>

-----------------------------------------------------------------------------
(* The three ways of sending. *)

\* The clients of the closing commands ask for commitment finalized.
Preflights == IF cli.command \in {"close_distributor", "close_claim_status"}
              THEN {finalized} ELSE Confirmed

\* A node accepts a transaction whose blockhash is valid, that fits into a
\* packet and that succeeds on the state it looks at.
Accepted(state) ==
    /\ tx.status # "expired"
    /\ tx.body.kind = "close_claim_status" => Len(tx.body.value) <= TxLimit
    /\ Succeeds(tx.body, state)

\* RpcClient::send_transaction: submitted and left.
Submit ==
    /\ cli.pc = "submit"
    /\ \/ /\ \E state \in Preflights :
                IF Accepted(state) THEN Returned(TRUE, FALSE, TRUE)
                                   ELSE Returned(FALSE, FALSE, FALSE)
          /\ UNCHANGED faults
       \/ /\ Fault
          /\ \/ Returned(FALSE, FALSE, FALSE)
             \/ /\ \E state \in Preflights : Accepted(state)
                /\ Returned(FALSE, FALSE, TRUE)
    /\ UNCHANGED <<scenario, chain, clock, runs, hasty>>

\* RpcClient::send_and_confirm_transaction_with_spinner.
SendAndConfirm ==
    /\ cli.pc = "send_and_confirm"
    /\ \/ /\ \E state \in Preflights :
                IF Accepted(state)
                THEN /\ tx' = [tx EXCEPT !.status = "sent"]
                     /\ cli' = [cli EXCEPT !.pc = "spin"]
                     /\ UNCHANGED <<orphans, last>>
                ELSE Returned(FALSE, FALSE, FALSE)
          /\ UNCHANGED faults
       \/ /\ Fault
          /\ \/ Returned(FALSE, FALSE, FALSE)
             \/ /\ \E state \in Preflights : Accepted(state)
                /\ Returned(FALSE, FALSE, TRUE)
    /\ UNCHANGED <<scenario, chain, clock, runs, hasty>>

Spin ==
    /\ cli.pc = "spin"
    /\ \/ /\ tx.status \in {"ok", "failed", "expired"}
          /\ Returned(tx.status = "ok", FALSE, FALSE)
          /\ UNCHANGED faults
       \/ Fault /\ Returned(FALSE, FALSE, tx.status = "sent")
    /\ UNCHANGED <<scenario, chain, clock, runs, hasty>>

\* The simulation of send_transaction.
Simulate ==
    /\ cli.pc = "simulate"
    /\ \/ /\ \E state \in Confirmed :
                IF Succeeds(tx.body, state)
                THEN /\ cli' = [cli EXCEPT !.pc = "loop"]
                     /\ UNCHANGED <<tx, orphans, last>>
                ELSE Returned(FALSE, FALSE, FALSE)
          /\ UNCHANGED faults
       \/ Fault /\ Returned(FALSE, FALSE, FALSE)
    /\ UNCHANGED <<scenario, chain, clock, runs, hasty>>

\* The loop of send_transaction: an expired blockhash ends it with Ok.
SendLoop ==
    /\ cli.pc = "loop"
    /\ \/ /\ tx.status = "expired"
          /\ Returned(TRUE, TRUE, FALSE)
          /\ UNCHANGED faults
       \/ /\ tx.status # "expired"
          /\ tx' = [tx EXCEPT !.status = IF @ = "signed" THEN "sent" ELSE @]
          /\ cli' = [cli EXCEPT !.pc = "confirm"]
          /\ UNCHANGED <<orphans, last, faults>>
       \/ Fault /\ Returned(FALSE, FALSE, tx.status = "sent")
    /\ UNCHANGED <<scenario, chain, clock, runs, hasty>>

Confirm ==
    /\ cli.pc = "confirm"
    /\ \/ /\ tx.status = "ok"
          /\ Returned(TRUE, FALSE, FALSE)
          /\ UNCHANGED faults
       \/ /\ tx.status # "ok"
          /\ cli' = [cli EXCEPT !.pc = "loop"]
          /\ UNCHANGED <<tx, orphans, last, faults>>
       \/ Fault /\ Returned(FALSE, FALSE, tx.status = "sent")
    /\ UNCHANGED <<scenario, chain, clock, runs, hasty>>

CliStep ==
    \/ Inspect
    \/ Finish
    \/ Submit
    \/ SendAndConfirm
    \/ Spin
    \/ Simulate
    \/ SendLoop
    \/ Confirm

-----------------------------------------------------------------------------
(* The operator. *)

Interrupt ==
    /\ cli.pc # "idle"
    /\ Panic
    /\ UNCHANGED <<scenario, chain, clock, runs, faults, hasty>>

Start(command, keypair, value, bs58, trees, estimate) ==
    /\ cli.pc = "idle"
    /\ command \in scenario.commands
    /\ runs < MaxRuns
    /\ runs' = runs + 1
    /\ hasty' = (hasty \/ ~Settled)
    /\ cli' = [pc |-> "next", command |-> command, keypair |-> keypair,
               value |-> value, bs58 |-> bs58, trees |-> trees,
               queue |-> trees, batch |-> <<>>, accepted |-> {},
               expired |-> FALSE, before |-> faults, estimate |-> estimate]
    /\ last' = [result |-> "none"]
    /\ UNCHANGED <<scenario, chain, clock, tx, orphans, faults>>

Trees == {scenario.folder} \cup {<<v>> : v \in ToSet(scenario.folder)}

StartSetter(keypair, bs58) ==
    \/ \E a \in Wallets :
          Start("set_admin", keypair, a, bs58, scenario.folder, Absent)
    \/ \E a \in Receivers :
          Start("set_clawback_receiver", keypair, a, bs58, scenario.folder, Absent)
    \/ \E ts \in Timestamps, trees \in Trees :
          Start("set_clawback_start_ts", keypair, ts, bs58, trees, Absent)
    \/ \E s \in EnableSlots, trees \in Trees :
          Start("set_enable_slot", keypair, s, bs58, trees, Absent)

\* The slot is estimated once, before the loop.
StartSetEnableSlotByTime(keypair) ==
    \E time \in EnableTimes, samples \in SampleLists, trees \in Trees :
        LET average == AverageSlotTime(samples)
        IN  /\ ~SamplesPanic(samples)
            /\ ~SlotPanics(time, now, slot, average)
            /\ Start("set_enable_slot_by_time", keypair,
                     SlotFor(time, now, slot, average), FALSE, trees,
                     [time |-> time, now |-> now, slot |-> slot,
                      average |-> average])

\* All closable claim statuses of the program are listed, whoever their admin.
StartCloseClaimStatus(keypair) ==
    Start("close_claim_status", keypair, Absent, FALSE,
          SetToSeq({s \in 1..ClaimStatuses : finalized.statuses[s] # Absent}),
          Absent)

Begin ==
    \E keypair \in scenario.keypairs :
        \/ \E bs58 \in BOOLEAN : StartSetter(keypair, bs58)
        \/ StartSetEnableSlotByTime(keypair)
        \/ Start("clawback", keypair, Absent, FALSE, scenario.folder, Absent)
        \/ \E trees \in Trees :
              Start("close_distributor", keypair, Absent, FALSE, trees, Absent)
        \/ StartCloseClaimStatus(keypair)

-----------------------------------------------------------------------------
Init ==
    /\ scenario \in Scenarios
    /\ processed = [dist |-> scenario.dist, statuses |-> scenario.statuses]
    /\ finalized = processed
    /\ now = 0
    /\ slot = 0
    /\ cli = Idle
    /\ tx = NoTx
    /\ orphans = <<>>
    /\ last = [result |-> "none"]
    /\ runs = 0
    /\ faults = 0
    /\ hasty = FALSE

Next ==
    \/ Begin
    \/ CliStep
    \/ Interrupt
    \/ Land
    \/ \E i \in DOMAIN orphans : LandOrphan(i)
    \/ Expire
    \/ Finalize
    \/ Tick

\* A started command goes on, the clock runs, and what was processed is
\* finalized.  A transaction that is not lost lands; that one is lost, or a
\* call fails, is a fault.
Fairness ==
    /\ WF_vars(CliStep)
    /\ WF_vars(Land)
    /\ WF_vars(\E i \in DOMAIN orphans : LandOrphan(i))
    /\ WF_vars(Expire)
    /\ WF_vars(Finalize)
    /\ WF_vars(Tick)

Spec == Init /\ [][Next]_vars /\ Fairness

-----------------------------------------------------------------------------
(* Properties. *)

\* The command line's records are well formed, and a command holds a
\* transaction exactly while it is sending one.
TypeOK ==
    /\ \A state \in {processed, finalized} :
          /\ state.dist \in [Versions -> Distributor \cup {Absent}]
          /\ state.statuses \in [1..ClaimStatuses -> Wallets \cup {Absent}]
    /\ cli.pc \in {"idle", "next", "submit", "send_and_confirm", "spin",
                   "simulate", "loop", "confirm"}
    /\ tx.status \in {"none", "signed", "sent", "ok", "failed", "expired"}
    /\ (tx.status = "none") <=> (cli.pc \in {"idle", "next"})
    /\ last.result \in {"none", "done", "panicked"}
    /\ slot \in 0..MaxU64
    /\ faults \in 0..MaxFaults

\* What a command was asked to do holds of a distributor.
AskedIs(d) ==
    CASE last.command = "clawback" -> d.clawed_back
      [] last.command = "set_enable_slot_by_time" -> d.enable_slot = last.value
      [] last.command \in Setters -> d[FieldOf[last.command]] = last.value

\* A setter or clawback that ended well has set what was asked in every one of
\* its distributors, and no transaction of its own that landed late has undone
\* it.  Exactly three things get in the way: a command started before the
\* chain had settled (it compares with what is finalized, and older
\* transactions may still land), send_transaction's Ok on an expired
\* blockhash, and set-clawback-receiver, which waits for nothing: its
\* transaction must not be in flight or lost.
AskedIsSet ==
    (/\ cli.pc = "idle"
     /\ last.result = "done"
     /\ last.command \in Commands \ {"close_distributor", "close_claim_status"}
     /\ ~last.bs58
     /\ ~hasty
     /\ ~last.expired
     /\ last.command = "set_clawback_receiver" =>
           orphans = <<>> /\ faults = last.before) =>
        \A v \in ToSet(last.trees) :
            processed.dist[v] # Absent /\ AskedIs(processed.dist[v])

\* How far into the list the full batches without a claim status of another
\* admin reach: to its end if there is no such claim status.
Unblocked(list, owner) ==
    LET foreign == {i \in DOMAIN list : scenario.statuses[list[i]] # owner}
        first == CHOOSE i \in foreign : \A j \in foreign : i <= j
    IN  IF foreign = {} THEN Len(list)
                        ELSE BatchSize * ((first - 1) \div BatchSize)

\* A close-claim-status without faults, once all it sent has landed, has
\* closed every claim status up to the batch with the first one of another
\* admin, as set_admin leaves them behind: that batch, and all that joins it,
\* fails as a whole.  Whatever an earlier run left half done does not matter.
ClosedUpToForeign ==
    (/\ cli.pc = "idle"
     /\ last.result = "done"
     /\ last.command = "close_claim_status"
     /\ ~hasty
     /\ orphans = <<>>
     /\ faults = last.before) =>
        \A i \in 1..Unblocked(last.trees, last.keypair) :
            processed.statuses[last.trees[i]] = Absent

\* No listed claim status is passed over: each was in a transaction that a
\* node accepted, or is in the last batch, whose transaction failed.
NothingDropped ==
    last.result = "done" /\ last.command = "close_claim_status" =>
        ToSet(last.trees) \subseteq last.accepted \cup ToSet(last.batch)

\* The slot that set-enable-slot-by-time sets misses the time it was given by
\* less than one average slot, on the right side: never too late for a time to
\* come, never too early for one that has passed.
SlotMeetsTime ==
    cli.pc # "idle" /\ cli.command = "set_enable_slot_by_time" =>
        LET e == cli.estimate
        IN  /\ e.average \in (DEFAULT_MS_PER_SLOT \div 2)..(2 * DEFAULT_MS_PER_SLOT)
            /\ NearestSlot(cli.value, e.time, e.now, e.slot, e.average)

\* What the program will not do for the distributor at hand, as things are.
Refused ==
    /\ cli.pc # "idle"
    /\ cli.queue # <<>>
    /\ \/ /\ cli.command = "set_clawback_start_ts"
          /\ cli.value <= now \/ cli.value < EarliestClawback
       \/ /\ cli.command = "set_clawback_receiver"
          /\ cli.value \notin TokenAccounts
       \/ /\ cli.command = "clawback"
          /\ processed.dist[Head(cli.queue)] # Absent
          /\ now < processed.dist[Head(cli.queue)].clawback_start_ts

\* A command ends, although its loop repeats for ever on errors, unless the
\* program refuses for good what it was asked for: a start of the clawback
\* that is past or too early, a receiver that does not exist, a clawback whose
\* time never comes.  In particular, what a distributor read at finalized
\* lacks of what has happened since does not trap it.
CommandsEnd == (cli.pc # "idle") ~> (cli.pc = "idle" \/ []Refused)

=============================================================================
