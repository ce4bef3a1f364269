--------------------------- MODULE ClaimCommands ---------------------------
(***************************************************************************)
(* The commands with which a claimant claims, run against the on-chain     *)
(* program of module MerkleDistributor: claim and claim-from-api of the    *)
(* command line, and claim of the SDK's command line.                      *)
(*                                                                         *)
(* Each looks at accounts, signs one transaction (claim: up to two), sends *)
(* it and waits.  Meanwhile other commands, other clients and the admin go *)
(* on.  Commitment confirmed, which all of them ask for, is taken for the  *)
(* present state.                                                          *)
(***************************************************************************)
EXTENDS MerkleDistributor, Sequences

CONSTANTS
    Terminals,   \* where commands run
    Files,       \* the trees of tree files and of the API, all unlocked
    MaxFaults    \* bound on failing calls, lost transactions, interrupts

ASSUME FilesAssumption ==
    /\ \A tree \in Files : \A leaf \in tree : leaf.locked = 0
    /\ MaxFaults \in Nat

Kinds == {"claim", "claim_from_api", "sdk_claim"}

VARIABLES
    opened,    \* the claimants whose token account exists
    strays,    \* those for whose token account, as an owner, one exists
    run,       \* the command at each terminal; fresh: it makes a new claim
    tx,        \* the transaction it has signed
    orphans,   \* transactions of commands that have ended
    last,      \* how the latest command of each terminal ended
    faults     \* how many calls, transactions and commands were lost

accounts == <<opened, strays>>
commands == <<run, tx, orphans, last, faults>>
allVars == <<vars, accounts, commands>>

Idle == [pc |-> "idle"]
NoTx == [status |-> "none"]
NoResult == [result |-> "none"]

HasLeaf(tree, c) == \E leaf \in tree : leaf.claimant = c
AmountOf(tree, c) == (CHOOSE leaf \in tree : leaf.claimant = c).unlocked

-----------------------------------------------------------------------------
(* Transactions. *)

\* All instructions of a transaction, or none: token accounts are created,
\* each only once, then the claim is made.  A proof is one of the file's tree.
\* The transfer at the end of claim-from-api has the claimant's own account
\* on both sides and moves nothing.
Execute(body) ==
    LET c == body.wallet
    IN  /\ body.creates = <<"own">> => c \notin opened
        /\ body.creates \in {<<>>, <<"own">>, <<"stray">>}
        /\ body.creates = <<"stray">> => c \notin strays
        /\ opened' = IF body.creates = <<"own">> THEN opened \cup {c} ELSE opened
        /\ strays' = IF body.creates = <<"stray">> THEN strays \cup {c} ELSE strays
        /\ c \in opened'
        /\ \/ body.kind = "claim_locked" /\ ClaimLocked(c)
           \/ /\ body.kind = "new_claim"
              /\ body.tree = dist.root
              /\ NewClaim(c, AmountOf(body.tree, c), 0)

\* Does the present state let a transaction through?
Accepted(body) == ENABLED Execute(body)

Land(t) ==
    LET body == tx[t].body
    IN  /\ tx[t].status = "sent"
        /\ \/ /\ Execute(body)
              /\ tx' = [tx EXCEPT ![t].status = "ok"]
           \/ /\ ~Accepted(body)
              /\ tx' = [tx EXCEPT ![t].status = "failed"]
              /\ UNCHANGED <<vars, accounts>>
        /\ UNCHANGED <<run, orphans, last, faults>>

LandOrphan(i) ==
    /\ \/ Execute(orphans[i])
       \/ ~Accepted(orphans[i]) /\ UNCHANGED <<vars, accounts>>
    /\ orphans' = SubSeq(orphans, 1, i - 1) \o SubSeq(orphans, i + 1, Len(orphans))
    /\ UNCHANGED <<run, tx, last, faults>>

Fault == faults < MaxFaults /\ faults' = faults + 1

\* A transaction is lost: its blockhash expires.
Lose(t) ==
    /\ tx[t].status = "sent"
    /\ Fault
    /\ tx' = [tx EXCEPT ![t].status = "expired"]
    /\ UNCHANGED <<vars, accounts, run, orphans, last>>

-----------------------------------------------------------------------------
(* The commands. *)

Start(t, command, c, tree, forward) ==
    /\ run[t].pc = "idle"
    /\ forward => command = "claim_from_api"
    /\ run' = [run EXCEPT ![t] =
                 [pc |-> IF command = "claim" THEN "claim_status"
                                              ELSE "token_account",
                  command |-> command, wallet |-> c, tree |-> tree,
                  forward |-> forward, fresh |-> FALSE]]
    /\ last' = [last EXCEPT ![t] = NoResult]
    /\ UNCHANGED <<vars, accounts, tx, orphans, faults>>

Outcome(t, result) ==
    IF result = "panicked"
    THEN [result |-> result]
    ELSE [result |-> result, command |-> run[t].command,
          wallet |-> run[t].wallet, tree |-> run[t].tree,
          fresh |-> run[t].fresh]

\* A panic of the command line and an exception of the SDK are the same here.
End(t, result) ==
    /\ run' = [run EXCEPT ![t] = Idle]
    /\ tx' = [tx EXCEPT ![t] = NoTx]
    /\ last' = [last EXCEPT ![t] = Outcome(t, result)]

Sign(t, kind, creates) ==
    /\ tx' = [tx EXCEPT ![t] =
                [status |-> "signed",
                 body |-> [kind |-> kind, wallet |-> run[t].wallet,
                           tree |-> run[t].tree, creates |-> creates]]]
    /\ run' = [run EXCEPT ![t].pc = "send", ![t].fresh = (kind = "new_claim") \/ @]
    /\ UNCHANGED <<orphans, last>>

\* A slip for comparison: the error for an account that is not there is not
\* told from other errors.
LookForClaimStatusStrictly(t) ==
    /\ run[t].pc = "claim_status"
    /\ \/ run[t].wallet \in claimed /\ Sign(t, "claim_locked", <<>>)
       \/ run[t].wallet \notin claimed /\ End(t, "panicked") /\ UNCHANGED orphans
    /\ UNCHANGED <<vars, accounts, faults>>

\* process_claim makes a new claim first where there is none.
LookForClaimStatus(t) ==
    /\ run[t].pc = "claim_status"
    /\ \/ run[t].wallet \in claimed /\ Sign(t, "claim_locked", <<>>)
       \/ /\ run[t].wallet \notin claimed
          /\ run' = [run EXCEPT ![t].pc = "token_account"]
          /\ UNCHANGED <<tx, orphans, last>>
    /\ UNCHANGED <<vars, accounts, faults>>

\* The instructions that create accounts, in front of the claim: claim-from-api
\* names the claimant's token account as the owner, and does so once more when
\* it is to forward the tokens, because the account of the destination is
\* derived from the claimant too.
Creations(t) ==
    CASE run[t].wallet \in opened -> <<>>
      [] run[t].wallet \notin opened /\ run[t].command # "claim_from_api" ->
            <<"own">>
      [] OTHER ->
            IF run[t].forward THEN <<"stray", "stray">> ELSE <<"stray">>

\* A claimant who is not in the file, or not known to the API, is a panic, and
\* so is a distributor that the SDK cannot read.
Known(t) ==
    /\ HasLeaf(run[t].tree, run[t].wallet)
    /\ run[t].command = "sdk_claim" => exists

\* claim-from-api takes a call that fails for an account that is not there.
LookForTokenAccount(t) ==
    /\ run[t].pc = "token_account"
    /\ \/ Known(t) /\ Sign(t, "new_claim", Creations(t)) /\ UNCHANGED faults
       \/ /\ Known(t)
          /\ run[t].command = "claim_from_api"
          /\ run[t].wallet \in opened
          /\ Fault
          /\ Sign(t, "new_claim", <<"stray">>)
       \/ /\ ~Known(t)
          /\ End(t, "panicked")
          /\ UNCHANGED <<orphans, faults>>
    /\ UNCHANGED <<vars, accounts>>

\* send_and_confirm_transaction_with_spinner simulates first; the SDK skips
\* that.
Send(t) ==
    /\ run[t].pc = "send"
    /\ \/ /\ run[t].command = "sdk_claim" \/ Accepted(tx[t].body)
          /\ tx' = [tx EXCEPT ![t].status = "sent"]
          /\ run' = [run EXCEPT ![t].pc = "spin"]
          /\ UNCHANGED last
       \/ /\ run[t].command # "sdk_claim"
          /\ ~Accepted(tx[t].body)
          /\ End(t, "panicked")
    /\ UNCHANGED <<vars, accounts, orphans, faults>>

\* A slip for comparison: an expired blockhash is taken for success, as
\* send_transaction takes it.
SpinTrusting(t) ==
    /\ run[t].pc = "spin"
    /\ \/ /\ tx[t].status \in {"ok", "expired"}
          /\ run[t].command = "claim" /\ tx[t].body.kind = "new_claim"
          /\ Sign(t, "claim_locked", <<>>)
       \/ /\ tx[t].status \in {"ok", "expired"}
          /\ run[t].command # "claim" \/ tx[t].body.kind # "new_claim"
          /\ End(t, "done")
          /\ UNCHANGED orphans
       \/ /\ tx[t].status = "failed"
          /\ End(t, "panicked")
          /\ UNCHANGED orphans
    /\ UNCHANGED <<vars, accounts, faults>>

\* After its new claim, claim goes on to claim what is locked.
Spin(t) ==
    /\ run[t].pc = "spin"
    /\ \/ /\ tx[t].status = "ok"
          /\ run[t].command = "claim" /\ tx[t].body.kind = "new_claim"
          /\ Sign(t, "claim_locked", <<>>)
       \/ /\ tx[t].status = "ok"
          /\ run[t].command # "claim" \/ tx[t].body.kind # "new_claim"
          /\ End(t, "done")
          /\ UNCHANGED orphans
       \/ /\ tx[t].status \in {"failed", "expired"}
          /\ End(t, "panicked")
          /\ UNCHANGED orphans
    /\ UNCHANGED <<vars, accounts, faults>>

\* A call fails or the process is interrupted.  What it has sent, or was just
\* sending, may still land.
Break(t) ==
    /\ run[t].pc # "idle"
    /\ Fault
    /\ End(t, "panicked")
    /\ \/ UNCHANGED orphans
       \/ tx[t].status \in {"signed", "sent"} /\ orphans' = Append(orphans, tx[t].body)
    /\ UNCHANGED <<vars, accounts>>

Step(t) ==
    \/ LookForClaimStatus(t)
    \/ LookForTokenAccount(t)
    \/ Send(t)
    \/ Spin(t)

-----------------------------------------------------------------------------
(* Everybody else. *)

\* Other clients claim for a claimant with a token account.  The instructions
\* that set the admin, the receiver or the start of the clawback are left out:
\* no claim reads what they set.
Others ==
    /\ \/ \E args \in NewDistributorArgs :
             args.clawback_receiver \in Treasuries /\ NewDistributor(args)
       \/ \E leaf \in Leaf :
             /\ leaf.claimant \in opened
             /\ NewClaim(leaf.claimant, leaf.unlocked, leaf.locked)
       \/ \E c \in Claimants : ClaimLocked(c)
       \/ \E signer \in Admins : Clawback(signer)
       \/ \E admin \in Admins, to \in Treasuries : CloseDistributor(admin, to)
       \/ \E admin \in Admins, c \in Claimants : CloseClaimStatus(admin, c)
       \/ \E admin \in Admins, s \in EnableSlots : SetEnableSlot(admin, s)
       \/ \E from \in Treasuries, amount \in Deposits : Deposit(from, amount)
       \/ NextSecond
       \/ NextSlot
    /\ UNCHANGED <<accounts, commands>>

ClaimsInit ==
    /\ Init
    /\ opened \in SUBSET Claimants
    /\ strays = {}
    /\ run = [t \in Terminals |-> Idle]
    /\ tx = [t \in Terminals |-> NoTx]
    /\ orphans = <<>>
    /\ last = [t \in Terminals |-> NoResult]
    /\ faults = 0

ClaimsNext ==
    \/ \E t \in Terminals :
          \/ \E command \in Kinds, c \in Claimants, tree \in Files,
                forward \in BOOLEAN : Start(t, command, c, tree, forward)
          \/ Step(t)
          \/ Break(t)
          \/ Land(t)
          \/ Lose(t)
    \/ \E i \in DOMAIN orphans : LandOrphan(i)
    \/ Others

ClaimsSpec == ClaimsInit /\ [][ClaimsNext]_allVars

\* A started command goes on and a transaction that is not lost lands; the
\* clock runs; and each claimant keeps starting some command, with the file
\* of the present tree.
ClaimsFairness ==
    /\ \A t \in Terminals : WF_allVars(Step(t)) /\ WF_allVars(Land(t))
    /\ WF_allVars(NextSecond /\ UNCHANGED <<accounts, commands>>)
    /\ WF_allVars(NextSlot /\ UNCHANGED <<accounts, commands>>)
    /\ \A c \in Claimants :
          SF_allVars(\E t \in Terminals, command \in Kinds, forward \in BOOLEAN :
                        dist.root \in Files
                          /\ Start(t, command, c, dist.root, forward))

FairClaims == ClaimsSpec /\ ClaimsFairness

-----------------------------------------------------------------------------
(* Properties. *)

Command ==
    [pc : {"claim_status", "token_account", "send", "spin"}, command : Kinds,
     wallet : Claimants, tree : Files, forward : BOOLEAN, fresh : BOOLEAN]

Body ==
    [kind : {"new_claim", "claim_locked"}, wallet : Claimants, tree : Files,
     creates : {<<>>, <<"own">>, <<"stray">>, <<"stray", "stray">>}]

Result ==
    [result : {"done"}, command : Kinds, wallet : Claimants, tree : Files,
     fresh : BOOLEAN]

\* The type invariant: commands and results are well formed, and a terminal
\* holds a transaction exactly while it is sending one.
CommandsOK ==
    /\ run \in [Terminals -> {Idle} \cup Command]
    /\ tx \in [Terminals ->
               {NoTx} \cup [status : {"signed", "sent", "ok", "failed", "expired"},
                           body : Body]]
    /\ last \in [Terminals -> {NoResult, [result |-> "panicked"]} \cup Result]
    /\ \A t \in Terminals :
          /\ (run[t].pc \in {"send", "spin"}) <=> (tx[t].status # "none")
          /\ run[t].pc = "claim_status" => run[t].command = "claim"
          /\ run[t].pc \in {"claim_status", "token_account"} => ~run[t].fresh

\* A command that ended well has not lied: in a production distributor the
\* claimant has been paid what the file allocates, or, if claim found a claim
\* status already there, part of what was locked.
DoneMeansPaid ==
    \A t \in Terminals :
        LET l == last[t]
        IN  Production /\ l.result = "done" =>
                /\ l.wallet \in claimed
                /\ IF l.command = "claim"
                   THEN status[l.wallet].locked_amount_withdrawn > 0
                   ELSE /\ l.tree = dist.root
                        /\ paid[l.wallet] = AmountOf(l.tree, l.wallet)

\* claim never ends well for a claimant who had not claimed: nothing is locked
\* in a claim it makes, so its second transaction is refused although the
\* first one paid.
FreshClaimPanics ==
    \A t \in Terminals :
        Production /\ last[t].result = "done" /\ last[t].command = "claim" =>
            ~last[t].fresh

-----------------------------------------------------------------------------
(* The inductive invariant behind the two. *)

\* What a claim of this kind leaves behind in a production distributor.
Delivered(kind, c, tree) ==
    /\ creations > 0
    /\ Production =>
          /\ c \in claimed
          /\ IF kind = "claim_locked"
             THEN status[c].locked_amount_withdrawn > 0
             ELSE tree = dist.root /\ paid[c] = AmountOf(tree, c)

\* A transaction belongs to the command that signed it; where it was carried
\* out, and where claim has gone on to a second one, it delivered.
Sending(t) ==
    tx[t].status # "none" =>
        /\ tx[t].body.wallet = run[t].wallet
        /\ tx[t].body.tree = run[t].tree
        /\ tx[t].body.kind = "claim_locked" => run[t].command = "claim"
        /\ run[t].command = "claim" /\ tx[t].body.kind = "new_claim" => run[t].fresh
        /\ tx[t].status = "ok" =>
              Delivered(tx[t].body.kind, run[t].wallet, run[t].tree)
        /\ run[t].fresh /\ tx[t].body.kind = "claim_locked" =>
              Delivered("new_claim", run[t].wallet, run[t].tree)

\* So did what a command reported.
Reported(t) ==
    last[t].result = "done" =>
        /\ Delivered(IF last[t].command = "claim" THEN "claim_locked"
                                                ELSE "new_claim",
                     last[t].wallet, last[t].tree)
        /\ last[t].command = "claim" /\ last[t].fresh =>
              Delivered("new_claim", last[t].wallet, last[t].tree)

\* The inductive invariant: the program's own, the form of the commands, and
\* what their transactions and reports stand for.
ClaimsIInv ==
    /\ IInv
    /\ CommandsOK
    /\ \A t \in Terminals : Sending(t) /\ Reported(t)

=============================================================================
