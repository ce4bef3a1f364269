------------------------ MODULE ClaimCommandsProofs -------------------------
(***************************************************************************)
(* The claim commands use the on-chain program as its specification says:  *)
(* what is proved of module MerkleDistributor holds under them too.        *)
(***************************************************************************)
EXTENDS ClaimCommands, MerkleDistributorProofs

\* A transaction that is carried out is one of the program's instructions, on
\* an account of a claimant.
LEMMA ExecuteIsInstruction ==
    ASSUME NEW body, TypeOK, Execute(body)
    PROVE  Next
  <1> DEFINE c == body.wallet
  <1>1. CASE body.kind = "claim_locked" /\ ClaimLocked(c)
    <2>1. c \in Claimants
      BY <1>1 DEF ClaimLocked, TypeOK
    <2> QED
      BY <1>1, <2>1 DEF Next
  <1>2. CASE NewClaim(c, AmountOf(body.tree, c), 0)
    <2> DEFINE leaf == [claimant |-> c,
                        unlocked |-> AmountOf(body.tree, c), locked |-> 0]
    <2>1. leaf \in dist.root
      BY <1>2 DEF NewClaim
    <2>2. dist.root \subseteq Leaf
      BY DEF TypeOK, Distributor
    <2>3. leaf \in Leaf
      BY <2>1, <2>2
    <2>4. NewClaim(leaf.claimant, leaf.unlocked, leaf.locked)
      BY <1>2
    <2> QED
      BY <2>3, <2>4 DEF Next
  <1> QED
    BY <1>1, <1>2 DEF Execute

\* Whatever happens at the terminals, to their transactions or elsewhere, is
\* an instruction, a tick of the clock, or nothing to the program.
LEMMA ClaimsNextImplements ==
    ASSUME TypeOK, [ClaimsNext]_allVars
    PROVE  [Next]_vars
  <1>1. CASE UNCHANGED allVars
    BY <1>1 DEF allVars
  <1>2. ASSUME NEW t \in Terminals,
               NEW command \in Kinds, NEW c \in Claimants,
               NEW tree \in Files, NEW forward \in BOOLEAN,
               Start(t, command, c, tree, forward)
        PROVE  UNCHANGED vars
    BY <1>2 DEF Start
  <1>3. ASSUME NEW t \in Terminals, Step(t)
        PROVE  UNCHANGED vars
    BY <1>3 DEF Step, LookForClaimStatus, LookForTokenAccount, Send, Spin
  <1>4. ASSUME NEW t \in Terminals, Break(t) \/ Lose(t)
        PROVE  UNCHANGED vars
    BY <1>4 DEF Break, Lose
  <1>5. ASSUME NEW t \in Terminals, Land(t)
        PROVE  [Next]_vars
    BY <1>5, ExecuteIsInstruction DEF Land
  <1>6. ASSUME NEW i \in DOMAIN orphans, LandOrphan(i)
        PROVE  [Next]_vars
    BY <1>6, ExecuteIsInstruction DEF LandOrphan
  <1>7. CASE Others
    <2>1. Admins \subseteq Signers /\ Treasuries \subseteq Accounts
      BY DEF Signers, Accounts
    <2> QED
      BY <1>7, <2>1 DEF Others, Next
  <1> QED
    BY <1>1, <1>2, <1>3, <1>4, <1>5, <1>6, <1>7 DEF ClaimsNext

\* The claim commands, and whoever acts beside them, implement the program's
\* specification: failing calls, lost transactions, retries and late landings
\* are nothing but instructions in some order.
THEOREM ClaimsImplementProgram == ClaimsSpec => Spec
  <1>1. ClaimsInit => Init /\ TypeOK
    BY InitTypeOK DEF ClaimsInit
  <1>2. TypeOK /\ [ClaimsNext]_allVars => TypeOK'
    BY ClaimsNextImplements, NextTypeOK
  <1>3. TypeOK /\ [ClaimsNext]_allVars => [Next]_vars
    BY ClaimsNextImplements
  <1> QED
    BY <1>1, <1>2, <1>3, PTL DEF ClaimsSpec, Spec

\* Under the claim commands nobody receives more than has vested.
THEOREM ClaimsNoOverpayment == ClaimsSpec => []PaidIsVested
  BY ClaimsImplementProgram, NoOverpayment, PTL

\* Under the claim commands a funded vault covers every claim still to come,
\* until the clawback.
THEOREM ClaimsSolvency == ClaimsSpec => []SolventOnceFunded
  BY ClaimsImplementProgram, Solvency, PTL

-----------------------------------------------------------------------------
(* What a claim delivers. *)

\* A claim from a file, in which nothing is locked, has nothing to withdraw.
LEMMA NothingLocked ==
    ASSUME IInv, Production, NEW c \in Claimants, NEW tree \in Files,
           Delivered("new_claim", c, tree)
    PROVE  /\ c \in claimed
           /\ status[c].locked_amount = 0
           /\ status[c].locked_amount_withdrawn = 0
  <1>1. /\ c \in claimed
        /\ tree = dist.root
    BY DEF Delivered
  <1>2. /\ born[c] = creations
        /\ [claimant |-> c,
            unlocked |-> status[c].unlocked_amount,
            locked |-> status[c].locked_amount] \in dist.root
    BY <1>1 DEF IInv, ClaimsAccounted
  <1>3. status[c].locked_amount = 0
    BY <1>1, <1>2, FilesAssumption
  <1>4. status[c].locked_amount_withdrawn
          <= UnlockedAmount(status[c].locked_amount, now,
                            dist.start_ts, dist.end_ts)
    BY <1>1, <1>2 DEF IInv, WithdrawnNeverAhead, Production
  <1>5. UnlockedAmount(status[c].locked_amount, now,
                       dist.start_ts, dist.end_ts) \in 0..0
    <2>1. /\ now \in Nat /\ dist.start_ts \in Nat /\ dist.end_ts \in Nat
          /\ status[c].locked_amount \in Amount
      BY BoundsAssumption
      DEF IInv, TypeOK, Distributor, Timestamp, ClaimStatus
    <2> QED
      BY <2>1, <1>3, UnlockedBounded
  <1>6. status[c].locked_amount_withdrawn \in Nat
    BY MaxU64Assumption DEF IInv, TypeOK, ClaimStatus, Amount
  <1> QED
    BY <1>1, <1>3, <1>4, <1>5, <1>6

\* Nothing takes back what was delivered: not another claim, not an
\* instruction of the admin, not the clock.
LEMMA DeliveredStays ==
    ASSUME IInv, [Next]_vars, NEW kind \in {"new_claim", "claim_locked"},
           NEW c \in Claimants, NEW tree \in Files, Delivered(kind, c, tree)
    PROVE  Delivered(kind, c, tree)'
  <1> USE DEF IInv, TypeOK
  <1> SUFFICES ASSUME Production' 
               PROVE  /\ c \in claimed'
                      /\ IF kind = "claim_locked"
                         THEN status'[c].locked_amount_withdrawn > 0
                         ELSE tree = dist'.root /\ paid'[c] = AmountOf(tree, c)
    <2>1. creations' > 0
      <3>1. creations' = creations \/ creations' = creations + 1
        BY NextCases, SetterFrame
        DEF NewDistributor, NewClaim, ClaimLocked, Clawback, CloseDistributor,
            CloseClaimStatus, AdministrativeOnly, Deposit, NextSecond, history
      <3> QED
        BY <3>1 DEF Delivered
    <2> QED
      BY <2>1 DEF Delivered
  <1>1. ASSUME NEW args \in NewDistributorArgs, NewDistributor(args)
        PROVE  FALSE
    BY <1>1 DEF NewDistributor, Delivered, Production
  <1>2. ASSUME NEW admin \in Admins, NEW to \in Accounts,
               CloseDistributor(admin, to)
        PROVE  FALSE
    BY <1>2 DEF CloseDistributor, Production
  <1> DEFINE Kept ==
        /\ c \in claimed'
        /\ status'[c] = status[c]
        /\ paid'[c] = paid[c]
        /\ dist'.root = dist.root
        /\ Production
  <1>3. CASE Kept
    BY <1>3 DEF Delivered
  <1>4. ASSUME NEW leaf \in Leaf,
               NewClaim(leaf.claimant, leaf.unlocked, leaf.locked)
        PROVE  Kept
    <2>1. Production /\ dist'.root = dist.root
      BY <1>4 DEF NewClaim, Claiming, Production, Distributor
    <2>2. c \in claimed /\ c # leaf.claimant
      BY <2>1, <1>4 DEF NewClaim, Delivered
    <2> QED
      BY <1>4, <2>1, <2>2 DEF NewClaim
  <1>5. ASSUME NEW d \in Claimants, ClaimLocked(d)
        PROVE  /\ c \in claimed'
               /\ IF kind = "claim_locked"
                  THEN status'[c].locked_amount_withdrawn > 0
                  ELSE tree = dist'.root /\ paid'[c] = AmountOf(tree, c)
    <2> DEFINE amount == AmountWithdrawable(status[d].locked_amount,
                                            status[d].locked_amount_withdrawn,
                                            now, dist.start_ts, dist.end_ts)
    <2>1. /\ exists
          /\ amount > 0
          /\ status[d].locked_amount_withdrawn + amount
               <= status[d].locked_amount
          /\ status' = [status EXCEPT
                          ![d].locked_amount_withdrawn = @ + amount]
          /\ dist' = [dist EXCEPT !.total_amount_claimed = @ + amount]
          /\ paid' = [paid EXCEPT ![d] = @ + amount]
          /\ claimed' = claimed
          /\ exists' = exists
          /\ creations' = creations
      BY <1>5 DEF ClaimLocked, Claiming
    <2>2. amount \in Nat
      BY <1>5, WithdrawalType, MaxU64Assumption
      DEF ClaimLocked, AmountWithdrawable, Amount
    <2> HIDE DEF amount
    <2>3. Production /\ dist'.root = dist.root
      BY <2>1 DEF Production, Distributor
    <2>4. CASE d # c
      <3>1. status'[c] = status[c] /\ paid'[c] = paid[c]
        BY <2>1, <2>4
      <3> QED
        BY <2>1, <2>3, <3>1 DEF Delivered
    <2>5. CASE d = c /\ kind = "claim_locked"
      <3>1. status'[c].locked_amount_withdrawn
              = status[c].locked_amount_withdrawn + amount
        BY <2>1, <2>5 DEF ClaimStatus
      <3>2. status[c].locked_amount_withdrawn > 0
        BY <2>3, <2>5 DEF Delivered
      <3>3. status[c].locked_amount_withdrawn \in Nat
        BY MaxU64Assumption DEF ClaimStatus, Amount
      <3>4. c \in claimed
        BY <2>3 DEF Delivered
      <3> QED
        BY <2>1, <2>2, <2>5, <3>1, <3>2, <3>3, <3>4
    <2>6. ~(d = c /\ kind = "new_claim")
      <3> SUFFICES ASSUME d = c, kind = "new_claim" PROVE FALSE
        OBVIOUS
      <3>1. /\ status[c].locked_amount = 0
            /\ status[c].locked_amount_withdrawn = 0
        BY <2>3, NothingLocked
      <3> QED
        BY <2>1, <2>2, <3>1
    <2> QED
      BY <2>4, <2>5, <2>6
  <1>6. ASSUME NEW signer \in Signers, Clawback(signer)
        PROVE  Kept
    BY <1>6 DEF Clawback, history, Delivered, Production, Distributor
  <1>7. ASSUME NEW admin \in Admins, NEW d \in Claimants,
               CloseClaimStatus(admin, d)
        PROVE  Kept
    <2>1. Production /\ dist' = dist /\ paid' = paid
      BY <1>7 DEF CloseClaimStatus, history, Production
    <2>2. c \in claimed /\ c # d
      BY <1>7, <2>1 DEF CloseClaimStatus, Delivered, ClaimsAccounted
    <2> QED
      BY <1>7, <2>1, <2>2 DEF CloseClaimStatus
  <1>8. CASE SetterStep
    BY <1>8, SetterFrame
    DEF AdministrativeOnly, SameTerms, history, Delivered, Production
  <1>9. ASSUME NEW from \in Treasuries, NEW amount \in Deposits,
               Deposit(from, amount)
        PROVE  Kept
    BY <1>9 DEF Deposit, accountVars, Delivered, Production
  <1>10. CASE NextSecond
    BY <1>10 DEF NextSecond, accountVars, history, Delivered, Production
  <1>11. CASE UNCHANGED <<accountVars, balance, now, history>>
    BY <1>11 DEF accountVars, history, Delivered, Production
  <1> HIDE DEF Kept
  <1> QED
    BY <1>1, <1>2, <1>3, <1>4, <1>5, <1>6, <1>7, <1>8, <1>9, <1>10, <1>11,
       NextCases

\* A transaction that is carried out delivers.
LEMMA ExecuteDelivers ==
    ASSUME IInv, NEW body \in Body, Execute(body)
    PROVE  Delivered(body.kind, body.wallet, body.tree)'
  <1> DEFINE c == body.wallet
  <1> USE DEF IInv, TypeOK
  <1>1. c \in Claimants
    BY DEF Body
  <1>2. CASE body.kind = "claim_locked" /\ ClaimLocked(c)
    <2> DEFINE amount == AmountWithdrawable(status[c].locked_amount,
                                            status[c].locked_amount_withdrawn,
                                            now, dist.start_ts, dist.end_ts)
    <2>1. /\ exists
          /\ c \in claimed
          /\ amount > 0
          /\ status' = [status EXCEPT
                          ![c].locked_amount_withdrawn = @ + amount]
          /\ claimed' = claimed
          /\ creations' = creations
      BY <1>2 DEF ClaimLocked, Claiming
    <2>2. amount \in Nat
      BY <1>2, WithdrawalType, MaxU64Assumption
      DEF ClaimLocked, AmountWithdrawable, Amount
    <2> HIDE DEF amount
    <2>3. status'[c].locked_amount_withdrawn
            = status[c].locked_amount_withdrawn + amount
      BY <1>1, <2>1 DEF ClaimStatus
    <2>4. status[c].locked_amount_withdrawn \in Nat
      BY <1>1, MaxU64Assumption DEF ClaimStatus, Amount
    <2>5. creations > 0
      BY <2>1 DEF LifeCycle
    <2> QED
      BY <1>2, <2>1, <2>2, <2>3, <2>4, <2>5 DEF Delivered
  <1>3. CASE /\ body.kind = "new_claim"
             /\ body.tree = dist.root
             /\ NewClaim(c, AmountOf(body.tree, c), 0)
    <2> DEFINE leaf == [claimant |-> c,
                        unlocked |-> AmountOf(body.tree, c), locked |-> 0]
    <2>1. leaf \in dist.root /\ dist.root \subseteq Leaf
      BY <1>3 DEF NewClaim, Distributor
    <2>2. leaf.unlocked \in Nat
      <3>1. leaf \in Leaf
        BY <2>1
      <3> QED
        BY <3>1, MaxU64Assumption DEF Leaf, Amount
    <2>3. /\ exists
          /\ c \notin claimed
          /\ claimed' = claimed \cup {c}
          /\ dist' = [dist EXCEPT !.num_nodes_claimed = @ + 1,
                            !.total_amount_claimed = @ + leaf.unlocked]
          /\ paid' = [paid EXCEPT ![c] = @ + leaf.unlocked]
          /\ creations' = creations
          /\ exists' = exists
      BY <1>3 DEF NewClaim, Claiming
    <2> DEFINE amount == AmountOf(body.tree, c)
    <2>4. leaf.unlocked = amount
      OBVIOUS
    <2>5. amount = AmountOf(body.tree, c)
      OBVIOUS
    <2> HIDE DEF leaf, amount
    <2>6. dist'.root = dist.root /\ dist'.closable = dist.closable
      BY <2>3 DEF Distributor
    <2>7. Production' => paid[c] = 0
      BY <1>1, <2>3, <2>6 DEF Production, ClaimsAccounted
    <2>8. Production' => paid'[c] = amount
      BY <1>1, <2>2, <2>3, <2>4, <2>7
    <2>9. creations > 0
      BY <2>3 DEF LifeCycle
    <2> QED
      BY <1>3, <2>3, <2>5, <2>6, <2>8, <2>9 DEF Delivered
  <1> QED
    BY <1>2, <1>3 DEF Execute

-----------------------------------------------------------------------------
(* The terminals. *)

\* What the moves of one terminal leave alone.
Elsewhere(t) ==
    \A u \in Terminals \ {t} :
        run'[u] = run[u] /\ tx'[u] = tx[u] /\ last'[u] = last[u]

\* Signing, ending and the rest keep the terminal's own record well formed.
LEMMA SignKeeps ==
    ASSUME CommandsOK, NEW t \in Terminals, run[t].pc # "idle",
           NEW kind \in {"new_claim", "claim_locked"},
           NEW creates \in {<<>>, <<"own">>, <<"stray">>, <<"stray", "stray">>},
           Sign(t, kind, creates)
    PROVE  /\ CommandsOK'
           /\ Elsewhere(t)
           /\ last' = last
           /\ run'[t].command = run[t].command
           /\ run'[t].wallet = run[t].wallet
           /\ run'[t].tree = run[t].tree
           /\ run'[t].fresh <=> (kind = "new_claim" \/ run[t].fresh)
           /\ tx'[t].status = "signed"
           /\ tx'[t].body.kind = kind
           /\ tx'[t].body.wallet = run[t].wallet
           /\ tx'[t].body.tree = run[t].tree
  <1> DEFINE body == [kind |-> kind, wallet |-> run[t].wallet,
                      tree |-> run[t].tree, creates |-> creates]
             r == [run[t] EXCEPT !.pc = "send",
                                 !.fresh = (kind = "new_claim") \/ @]
  <1>1. run[t] \in Command
    BY DEF CommandsOK, Idle
  <1>2. /\ r \in Command
        /\ r.pc = "send"
        /\ r.command = run[t].command
        /\ r.wallet = run[t].wallet
        /\ r.tree = run[t].tree
        /\ r.fresh <=> (kind = "new_claim" \/ run[t].fresh)
    BY <1>1 DEF Command
  <1>3. body \in Body
    BY <1>1 DEF Command, Body
  <1>4. /\ run' = [run EXCEPT ![t] = r]
        /\ tx' = [tx EXCEPT ![t] = [status |-> "signed", body |-> body]]
        /\ last' = last
    BY DEF Sign
  <1> HIDE DEF r
  <1>5. /\ run' \in [Terminals -> {Idle} \cup Command]
        /\ run'[t] = r
        /\ \A u \in Terminals \ {t} : run'[u] = run[u]
    BY <1>2, <1>4 DEF CommandsOK
  <1>6. /\ tx'[t] = [status |-> "signed", body |-> body]
        /\ \A u \in Terminals \ {t} : tx'[u] = tx[u]
    BY <1>4 DEF CommandsOK
  <1>7. tx' \in [Terminals ->
                  {NoTx} \cup [status : {"signed", "sent", "ok", "failed",
                                         "expired"},
                               body : Body]]
    BY <1>3, <1>4 DEF CommandsOK
  <1>8. CommandsOK'
    BY <1>2, <1>4, <1>5, <1>6, <1>7 DEF CommandsOK
  <1> QED
    BY <1>2, <1>4, <1>5, <1>6, <1>8 DEF Elsewhere

\* Ending leaves the outcome, and no transaction.
LEMMA EndKeeps ==
    ASSUME CommandsOK, NEW t \in Terminals, run[t].pc # "idle",
           NEW result \in {"done", "panicked"}, End(t, result)
    PROVE  /\ CommandsOK'
           /\ Elsewhere(t)
           /\ tx'[t].status = "none"
           /\ last'[t] = Outcome(t, result)
  <1>1. run[t] \in Command
    BY DEF CommandsOK, Idle
  <1>2. Outcome(t, result) \in {[result |-> "panicked"]} \cup Result
    BY <1>1 DEF Outcome, Command, Result
  <1>3. /\ run' = [run EXCEPT ![t] = Idle]
        /\ tx' = [tx EXCEPT ![t] = NoTx]
        /\ last' = [last EXCEPT ![t] = Outcome(t, result)]
    BY DEF End
  <1>4. /\ last'[t] = Outcome(t, result)
        /\ \A u \in Terminals \ {t} : last'[u] = last[u]
        /\ last' \in [Terminals -> {NoResult, [result |-> "panicked"]} \cup Result]
    BY <1>2, <1>3 DEF CommandsOK
  <1>5. /\ run'[t] = Idle /\ tx'[t] = NoTx
        /\ \A u \in Terminals \ {t} : run'[u] = run[u] /\ tx'[u] = tx[u]
        /\ run' \in [Terminals -> {Idle} \cup Command]
    BY <1>3 DEF CommandsOK
  <1>6. tx' \in [Terminals ->
                  {NoTx} \cup [status : {"signed", "sent", "ok", "failed",
                                         "expired"},
                               body : Body]]
    BY <1>3 DEF CommandsOK
  <1>7. CommandsOK'
    BY <1>4, <1>5, <1>6 DEF CommandsOK, Idle, NoTx
  <1> QED
    BY <1>4, <1>5, <1>7 DEF Elsewhere, NoTx

\* A panic reports nothing.
LEMMA PanicKeeps ==
    ASSUME CommandsOK, NEW t \in Terminals, run[t].pc # "idle",
           End(t, "panicked")
    PROVE  CommandsOK' /\ Elsewhere(t) /\ Sending(t)' /\ Reported(t)'
  <1>1. /\ CommandsOK'
        /\ Elsewhere(t)
        /\ tx'[t].status = "none"
        /\ last'[t] = Outcome(t, "panicked")
    BY EndKeeps
  <1>2. last'[t].result = "panicked"
    BY <1>1 DEF Outcome
  <1> QED
    BY <1>1, <1>2 DEF Sending, Reported

\* What a terminal has sent and reported keeps its meaning while the terminal
\* itself does not move.
LEMMA UnmovedStays ==
    ASSUME ClaimsIInv, [Next]_vars, NEW t \in Terminals
    PROVE  /\ run'[t] = run[t] /\ tx'[t] = tx[t] => Sending(t)'
           /\ last'[t] = last[t] => Reported(t)'
  <1>1. IInv /\ CommandsOK /\ Sending(t) /\ Reported(t)
    BY DEF ClaimsIInv
  <1>2. ASSUME run'[t] = run[t], tx'[t] = tx[t], tx[t].status # "none"
        PROVE  Sending(t)'
    <2>1. /\ run[t] \in Command
          /\ tx[t].body \in Body
      BY <1>1, <1>2 DEF CommandsOK, Idle, NoTx
    <2>2. /\ run[t].wallet \in Claimants
          /\ run[t].tree \in Files
          /\ tx[t].body.kind \in {"new_claim", "claim_locked"}
      BY <2>1 DEF Command, Body
    <2>3. tx[t].status = "ok" =>
            Delivered(tx[t].body.kind, run[t].wallet, run[t].tree)'
      BY <1>1, <1>2, <2>2, DeliveredStays DEF Sending, Delivered
    <2>4. run[t].fresh /\ tx[t].body.kind = "claim_locked" =>
            Delivered("new_claim", run[t].wallet, run[t].tree)'
      BY <1>1, <1>2, <2>2, DeliveredStays DEF Sending, Delivered
    <2> QED
      BY <1>1, <1>2, <2>3, <2>4 DEF Sending
  <1>3. ASSUME last'[t] = last[t], last[t].result = "done"
        PROVE  Reported(t)'
    <2>1. last[t] \in Result
      BY <1>1, <1>3 DEF CommandsOK, NoResult
    <2>2. last[t].wallet \in Claimants /\ last[t].tree \in Files
      BY <2>1 DEF Result
    <2> DEFINE kind == IF last[t].command = "claim" THEN "claim_locked"
                                                    ELSE "new_claim"
    <2>3. Delivered(kind, last[t].wallet, last[t].tree)'
      BY <1>1, <1>3, <2>2, DeliveredStays DEF Reported, Delivered
    <2>4. last[t].command = "claim" /\ last[t].fresh =>
            Delivered("new_claim", last[t].wallet, last[t].tree)'
      BY <1>1, <1>3, <2>2, DeliveredStays DEF Reported, Delivered
    <2> QED
      BY <1>3, <2>3, <2>4 DEF Reported
  <1> QED
    BY <1>2, <1>3 DEF Sending, Reported

\* A command that starts has signed nothing.
LEMMA StartKeeps ==
    ASSUME ClaimsIInv, NEW t \in Terminals,
           NEW command \in Kinds, NEW c \in Claimants,
           NEW tree \in Files, NEW forward \in BOOLEAN,
           Start(t, command, c, tree, forward)
    PROVE  CommandsOK' /\ Elsewhere(t) /\ Sending(t)' /\ Reported(t)'
  <1> DEFINE r == [pc |-> IF command = "claim" THEN "claim_status"
                                               ELSE "token_account",
                   command |-> command, wallet |-> c, tree |-> tree,
                   forward |-> forward, fresh |-> FALSE]
  <1>1. CommandsOK
    BY DEF ClaimsIInv
  <1>2. /\ run[t].pc = "idle"
        /\ run' = [run EXCEPT ![t] = r]
        /\ last' = [last EXCEPT ![t] = NoResult]
        /\ tx' = tx
    BY DEF Start
  <1>3. /\ r \in Command
        /\ r.pc \in {"claim_status", "token_account"}
        /\ r.pc = "claim_status" => r.command = "claim"
        /\ r.fresh = FALSE
    BY DEF Command
  <1> HIDE DEF r
  <1>4. /\ run'[t] = r
        /\ run' \in [Terminals -> {Idle} \cup Command]
        /\ \A u \in Terminals \ {t} : run'[u] = run[u]
    BY <1>1, <1>2, <1>3 DEF CommandsOK
  <1>5. /\ last'[t] = NoResult
        /\ last' \in [Terminals -> {NoResult, [result |-> "panicked"]} \cup Result]
        /\ \A u \in Terminals \ {t} : last'[u] = last[u]
    BY <1>1, <1>2 DEF CommandsOK
  <1>6. tx[t].status = "none"
    BY <1>1, <1>2 DEF CommandsOK
  <1>7. CommandsOK'
    BY <1>1, <1>2, <1>3, <1>4, <1>5, <1>6 DEF CommandsOK
  <1> QED
    BY <1>2, <1>4, <1>5, <1>6, <1>7 DEF Elsewhere, Sending, Reported, NoResult

\* A transaction that changes its status stays with its command.
LEMMA StatusKeeps ==
    ASSUME CommandsOK, NEW t \in Terminals, tx[t].status # "none",
           NEW status_ \in {"sent", "ok", "failed", "expired"},
           NEW pc \in {"send", "spin"}, run[t].pc \in {"send", "spin"},
           tx' = [tx EXCEPT ![t].status = status_],
           run' = [run EXCEPT ![t].pc = pc],
           last' = last
    PROVE  /\ CommandsOK'
           /\ Elsewhere(t)
           /\ tx'[t].status = status_
           /\ tx'[t].body = tx[t].body
           /\ run'[t].wallet = run[t].wallet
           /\ run'[t].tree = run[t].tree
           /\ run'[t].command = run[t].command
           /\ run'[t].fresh = run[t].fresh
  <1> DEFINE r == [run[t] EXCEPT !.pc = pc]
             x == [tx[t] EXCEPT !.status = status_]
             Signed == [status : {"signed", "sent", "ok", "failed", "expired"},
                        body : Body]
  <1>1. run[t] \in Command /\ tx[t] \in Signed
    BY DEF CommandsOK, Idle, NoTx
  <1>2. /\ r \in Command /\ r.pc = pc
        /\ r.wallet = run[t].wallet
        /\ r.tree = run[t].tree
        /\ r.command = run[t].command
        /\ r.fresh = run[t].fresh
    BY <1>1 DEF Command
  <1>3. x \in Signed /\ x.status = status_ /\ x.body = tx[t].body
    BY <1>1
  <1>4. run' = [run EXCEPT ![t] = r] /\ tx' = [tx EXCEPT ![t] = x]
    OBVIOUS
  <1> HIDE DEF r, x
  <1>5. /\ run'[t] = r
        /\ run' \in [Terminals -> {Idle} \cup Command]
        /\ \A u \in Terminals \ {t} : run'[u] = run[u]
    BY <1>2, <1>4 DEF CommandsOK
  <1>6. /\ tx'[t] = x
        /\ tx' \in [Terminals -> {NoTx} \cup Signed]
        /\ \A u \in Terminals \ {t} : tx'[u] = tx[u]
    <2>1. tx \in [Terminals -> {NoTx} \cup Signed]
      BY DEF CommandsOK
    <2> HIDE DEF Signed
    <2> QED
      BY <1>3, <1>4, <2>1
  <1>7. CommandsOK'
    BY <1>2, <1>3, <1>5, <1>6 DEF CommandsOK
  <1> QED
    BY <1>2, <1>3, <1>5, <1>6, <1>7 DEF Elsewhere

\* Looking at accounts ends in a signed transaction, in a panic, or in the
\* next look.
LEMMA LookKeeps ==
    ASSUME ClaimsIInv, NEW t \in Terminals, [Next]_vars,
           LookForClaimStatus(t) \/ LookForTokenAccount(t)
    PROVE  CommandsOK' /\ Elsewhere(t) /\ Sending(t)' /\ Reported(t)'
  <1>1. CommandsOK
    BY DEF ClaimsIInv
  <1>2. /\ run[t].pc \in {"claim_status", "token_account"}
        /\ run[t].pc = "claim_status" => LookForClaimStatus(t)
        /\ run[t].pc = "token_account" => LookForTokenAccount(t)
    BY DEF LookForClaimStatus, LookForTokenAccount
  <1>3. /\ run[t] \in Command
        /\ ~run[t].fresh
        /\ tx[t].status = "none"
    BY <1>1, <1>2 DEF CommandsOK, Idle
  <1>4. ASSUME End(t, "panicked")
        PROVE  CommandsOK' /\ Elsewhere(t) /\ Sending(t)' /\ Reported(t)'
    BY <1>1, <1>2, <1>4, PanicKeeps
  <1>5. ASSUME Sign(t, "claim_locked", <<>>), run[t].pc = "claim_status"
        PROVE  CommandsOK' /\ Elsewhere(t) /\ Sending(t)' /\ Reported(t)'
    <2>1. /\ CommandsOK'
          /\ Elsewhere(t)
          /\ last' = last
          /\ run'[t].command = run[t].command
          /\ run'[t].wallet = run[t].wallet
          /\ run'[t].tree = run[t].tree
          /\ ~run'[t].fresh
          /\ tx'[t].status = "signed"
          /\ tx'[t].body.kind = "claim_locked"
          /\ tx'[t].body.wallet = run[t].wallet
          /\ tx'[t].body.tree = run[t].tree
      BY <1>1, <1>2, <1>3, <1>5, SignKeeps
    <2>2. run[t].command = "claim"
      BY <1>1, <1>5 DEF CommandsOK
    <2> QED
      BY <2>1, <2>2, UnmovedStays DEF Sending
  <1>6. ASSUME NEW creates \in {<<>>, <<"own">>, <<"stray">>, <<"stray", "stray">>},
               Sign(t, "new_claim", creates)
        PROVE  CommandsOK' /\ Elsewhere(t) /\ Sending(t)' /\ Reported(t)'
    <2>1. /\ CommandsOK'
          /\ Elsewhere(t)
          /\ last' = last
          /\ run'[t].command = run[t].command
          /\ run'[t].wallet = run[t].wallet
          /\ run'[t].tree = run[t].tree
          /\ run'[t].fresh
          /\ tx'[t].status = "signed"
          /\ tx'[t].body.kind = "new_claim"
          /\ tx'[t].body.wallet = run[t].wallet
          /\ tx'[t].body.tree = run[t].tree
      BY <1>1, <1>2, <1>6, SignKeeps
    <2> QED
      BY <2>1, UnmovedStays DEF Sending
  <1>7. ASSUME run' = [run EXCEPT ![t].pc = "token_account"],
               UNCHANGED <<tx, last>>
        PROVE  CommandsOK' /\ Elsewhere(t) /\ Sending(t)' /\ Reported(t)'
    <2> DEFINE r == [run[t] EXCEPT !.pc = "token_account"]
    <2>1. r \in Command /\ r.pc = "token_account" /\ r.fresh = run[t].fresh
      BY <1>3 DEF Command
    <2>2. run' = [run EXCEPT ![t] = r]
      BY <1>7
    <2> HIDE DEF r
    <2>3. /\ run'[t] = r
          /\ run' \in [Terminals -> {Idle} \cup Command]
          /\ \A u \in Terminals \ {t} : run'[u] = run[u]
      BY <1>1, <2>1, <2>2 DEF CommandsOK
    <2>4. CommandsOK' /\ Elsewhere(t)
      BY <1>1, <1>3, <1>7, <2>1, <2>3 DEF CommandsOK, Elsewhere
    <2> QED
      BY <1>3, <1>7, <2>4, UnmovedStays DEF Sending
  <1>8. Creations(t) \in {<<>>, <<"own">>, <<"stray">>, <<"stray", "stray">>}
    BY DEF Creations
  <1>9. CASE run[t].pc = "claim_status"
    BY <1>2, <1>4, <1>5, <1>7, <1>9 DEF LookForClaimStatus
  <1>10. CASE run[t].pc = "token_account"
    BY <1>2, <1>4, <1>6, <1>8, <1>10 DEF LookForTokenAccount
  <1> QED
    BY <1>2, <1>9, <1>10

\* Sending, and a failing call.
LEMMA SendKeeps ==
    ASSUME ClaimsIInv, NEW t \in Terminals, [Next]_vars, Send(t) \/ Break(t)
    PROVE  CommandsOK' /\ Elsewhere(t) /\ Sending(t)' /\ Reported(t)'
  <1>1. CommandsOK
    BY DEF ClaimsIInv
  <1>2. run[t].pc # "idle"
    BY DEF Send, Break
  <1>3. CASE End(t, "panicked")
    BY <1>1, <1>2, <1>3, PanicKeeps
  <1>4. ASSUME run[t].pc = "send",
               tx' = [tx EXCEPT ![t].status = "sent"],
               run' = [run EXCEPT ![t].pc = "spin"],
               last' = last
        PROVE  CommandsOK' /\ Elsewhere(t) /\ Sending(t)' /\ Reported(t)'
    <2>1. tx[t].status # "none" /\ Sending(t)
      BY <1>1, <1>4 DEF CommandsOK, ClaimsIInv
    <2>2. /\ CommandsOK'
          /\ Elsewhere(t)
          /\ tx'[t].status = "sent"
          /\ tx'[t].body = tx[t].body
          /\ run'[t].wallet = run[t].wallet
          /\ run'[t].tree = run[t].tree
          /\ run'[t].command = run[t].command
          /\ run'[t].fresh = run[t].fresh
      BY <1>1, <1>4, <2>1, StatusKeeps
    <2>3. ASSUME run[t].fresh, tx[t].body.kind = "claim_locked"
          PROVE  Delivered("new_claim", run[t].wallet, run[t].tree)'
      <3>1. run[t].wallet \in Claimants /\ run[t].tree \in Files
        BY <1>1, <1>2 DEF CommandsOK, Idle, Command
      <3> QED
        BY <2>1, <2>2, <2>3, <3>1, DeliveredStays
        DEF Sending, ClaimsIInv, Delivered
    <2> QED
      BY <1>4, <2>1, <2>2, <2>3, UnmovedStays DEF Sending, Delivered
  <1> QED
    BY <1>2, <1>3, <1>4 DEF Send, Break

\* Waiting for the transaction: only one that was carried out ends the command
\* well, or takes claim to its second transaction.
LEMMA SpinKeeps ==
    ASSUME ClaimsIInv, NEW t \in Terminals, [Next]_vars, Spin(t)
    PROVE  CommandsOK' /\ Elsewhere(t) /\ Sending(t)' /\ Reported(t)'
  <1>1. CommandsOK /\ Sending(t)
    BY DEF ClaimsIInv
  <1>2. run[t].pc = "spin"
    BY DEF Spin
  <1>3. /\ tx[t].status # "none"
        /\ run[t] \in Command
        /\ tx[t].body \in Body
    BY <1>1, <1>2 DEF CommandsOK, Idle, NoTx
  <1>4. /\ run[t].wallet \in Claimants
        /\ run[t].tree \in Files
        /\ tx[t].body.kind \in {"new_claim", "claim_locked"}
    BY <1>3 DEF Command, Body
  <1>5. CASE End(t, "panicked")
    BY <1>1, <1>2, <1>5, PanicKeeps
  <1>6. ASSUME tx[t].status = "ok",
               run[t].command = "claim", tx[t].body.kind = "new_claim",
               Sign(t, "claim_locked", <<>>)
        PROVE  CommandsOK' /\ Elsewhere(t) /\ Sending(t)' /\ Reported(t)'
    <2>1. /\ CommandsOK'
          /\ Elsewhere(t)
          /\ last' = last
          /\ run'[t].command = run[t].command
          /\ run'[t].wallet = run[t].wallet
          /\ run'[t].tree = run[t].tree
          /\ tx'[t].status = "signed"
          /\ tx'[t].body.kind = "claim_locked"
          /\ tx'[t].body.wallet = run[t].wallet
          /\ tx'[t].body.tree = run[t].tree
      BY <1>1, <1>2, <1>6, SignKeeps
    <2>2. Delivered("new_claim", run[t].wallet, run[t].tree)'
      BY <1>1, <1>4, <1>6, <2>1, DeliveredStays
      DEF Sending, Delivered, ClaimsIInv
    <2> QED
      BY <1>6, <2>1, <2>2, UnmovedStays DEF Sending, Delivered
  <1>7. ASSUME tx[t].status = "ok",
               run[t].command # "claim" \/ tx[t].body.kind # "new_claim",
               End(t, "done")
        PROVE  CommandsOK' /\ Elsewhere(t) /\ Sending(t)' /\ Reported(t)'
    <2>1. /\ CommandsOK'
          /\ Elsewhere(t)
          /\ tx'[t].status = "none"
          /\ last'[t] = Outcome(t, "done")
      BY <1>1, <1>2, <1>7, EndKeeps
    <2>2. /\ last'[t].command = run[t].command
          /\ last'[t].wallet = run[t].wallet
          /\ last'[t].tree = run[t].tree
          /\ last'[t].fresh = run[t].fresh
      BY <2>1 DEF Outcome
    <2>3. PICK kind \in {"new_claim", "claim_locked"}, c \in Claimants,
               tree \in Files :
            /\ kind = tx[t].body.kind
            /\ c = run[t].wallet
            /\ tree = run[t].tree
      BY <1>4
    <2>4. kind = IF run[t].command = "claim" THEN "claim_locked" ELSE "new_claim"
      BY <1>1, <1>3, <1>4, <1>7, <2>3 DEF Sending
    <2>5. Delivered(kind, c, tree)'
      BY <1>1, <1>7, <2>3, DeliveredStays DEF Sending, ClaimsIInv
    <2>6. run[t].command = "claim" /\ run[t].fresh =>
            Delivered("new_claim", c, tree)'
      BY <1>1, <1>3, <2>3, <2>4, DeliveredStays DEF Sending, ClaimsIInv
    <2>7. Reported(t)'
      BY <2>2, <2>3, <2>4, <2>5, <2>6 DEF Reported, Delivered
    <2> QED
      BY <2>1, <2>7 DEF Sending
  <1> QED
    BY <1>5, <1>6, <1>7 DEF Spin

\* A transaction that lands delivers; one that fails or is lost promises
\* nothing.
LEMMA LandKeeps ==
    ASSUME ClaimsIInv, NEW t \in Terminals, [Next]_vars, Land(t) \/ Lose(t)
    PROVE  CommandsOK' /\ Elsewhere(t) /\ Sending(t)' /\ Reported(t)'
  <1>1. CommandsOK /\ Sending(t) /\ IInv
    BY DEF ClaimsIInv
  <1>2. /\ tx[t].status = "sent"
        /\ run' = run /\ last' = last
    BY DEF Land, Lose
  <1>3. /\ run[t].pc \in {"send", "spin"}
        /\ run[t] \in Command
        /\ tx[t].body \in Body
    BY <1>1, <1>2 DEF CommandsOK, Idle, NoTx
  <1>4. /\ run[t].wallet \in Claimants
        /\ run[t].tree \in Files
        /\ tx[t].body.kind \in {"new_claim", "claim_locked"}
        /\ tx[t].body.wallet = run[t].wallet
        /\ tx[t].body.tree = run[t].tree
    BY <1>1, <1>2, <1>3 DEF Command, Body, Sending
  <1>5. PICK status_ \in {"ok", "failed", "expired"} :
          /\ tx' = [tx EXCEPT ![t].status = status_]
          /\ status_ = "ok" => Execute(tx[t].body)
    BY DEF Land, Lose
  <1>6. run' = [run EXCEPT ![t].pc = run[t].pc]
    BY <1>1, <1>2, <1>3 DEF CommandsOK, Command
  <1>7. /\ CommandsOK'
        /\ Elsewhere(t)
        /\ tx'[t].status = status_
        /\ tx'[t].body = tx[t].body
    BY <1>1, <1>2, <1>3, <1>5, <1>6, StatusKeeps
  <1>8. status_ = "ok" =>
          Delivered(tx[t].body.kind, run[t].wallet, run[t].tree)'
    BY <1>1, <1>2, <1>3, <1>4, <1>5, <1>7, ExecuteDelivers DEF Delivered
  <1>9. run[t].fresh /\ tx[t].body.kind = "claim_locked" =>
          Delivered("new_claim", run[t].wallet, run[t].tree)'
    BY <1>1, <1>2, <1>4, DeliveredStays DEF Sending, Delivered
  <1>10. Sending(t)'
    BY <1>1, <1>2, <1>4, <1>7, <1>8, <1>9 DEF Sending, Delivered
  <1> QED
    BY <1>2, <1>7, <1>10, UnmovedStays

\* Every step keeps the invariant.
LEMMA NextClaimsIInv ==
    ASSUME ClaimsIInv, [ClaimsNext]_allVars
    PROVE  ClaimsIInv'
  <1>1. [Next]_vars
    BY ClaimsNextImplements DEF ClaimsIInv, IInv
  <1>2. IInv'
    BY <1>1, NextIInv DEF ClaimsIInv
  <1>3. ASSUME UNCHANGED <<run, tx, last>>
        PROVE  ClaimsIInv'
    <2>1. CommandsOK'
      BY <1>3 DEF ClaimsIInv, CommandsOK
    <2> QED
      BY <1>1, <1>2, <1>3, <2>1, UnmovedStays DEF ClaimsIInv
  <1>4. ASSUME NEW t \in Terminals,
               CommandsOK' /\ Elsewhere(t) /\ Sending(t)' /\ Reported(t)'
        PROVE  ClaimsIInv'
    <2>1. ASSUME NEW u \in Terminals, u # t
          PROVE  Sending(u)' /\ Reported(u)'
      BY <1>1, <1>4, <2>1, UnmovedStays DEF Elsewhere
    <2> QED
      BY <1>2, <1>4, <2>1 DEF ClaimsIInv
  <1>5. ASSUME NEW t \in Terminals,
               NEW command \in Kinds, NEW c \in Claimants,
               NEW tree \in Files, NEW forward \in BOOLEAN,
               Start(t, command, c, tree, forward)
        PROVE  ClaimsIInv'
    BY <1>4, <1>5, StartKeeps
  <1>6. ASSUME NEW t \in Terminals, Step(t) \/ Break(t) \/ Land(t) \/ Lose(t)
        PROVE  ClaimsIInv'
    BY <1>1, <1>4, <1>6, LookKeeps, SendKeeps, SpinKeeps, LandKeeps DEF Step
  <1>7. ASSUME (\E i \in DOMAIN orphans : LandOrphan(i)) \/ Others
        PROVE  ClaimsIInv'
    BY <1>3, <1>7 DEF LandOrphan, Others, commands
  <1>8. CASE UNCHANGED allVars
    BY <1>3, <1>8 DEF allVars, commands
  <1> QED
    BY <1>5, <1>6, <1>7, <1>8 DEF ClaimsNext

\* The invariant holds for any number of terminals, claimants, files and
\* faults.
THEOREM ClaimsInvariance == ClaimsSpec => []ClaimsIInv
  <1>1. ClaimsInit => ClaimsIInv
    <2> SUFFICES ASSUME ClaimsInit PROVE ClaimsIInv
      OBVIOUS
    <2>1. IInv
      BY InitIInv DEF ClaimsInit
    <2>2. /\ run = [t \in Terminals |-> Idle]
          /\ tx = [t \in Terminals |-> NoTx]
          /\ last = [t \in Terminals |-> NoResult]
      BY DEF ClaimsInit
    <2>3. CommandsOK
      BY <2>2 DEF CommandsOK, Idle, NoTx
    <2>4. ASSUME NEW t \in Terminals
          PROVE  Sending(t) /\ Reported(t)
      BY <2>2 DEF Sending, Reported, NoTx, NoResult
    <2> QED
      BY <2>1, <2>3, <2>4 DEF ClaimsIInv
  <1>2. ClaimsIInv /\ [ClaimsNext]_allVars => ClaimsIInv'
    BY NextClaimsIInv
  <1> QED
    BY <1>1, <1>2, PTL DEF ClaimsSpec

\* A command that reports success has not lied, whatever is lost, retried,
\* interrupted or done by others in between, until the end of the
\* distributor.
THEOREM SuccessIsPayment == ClaimsSpec => []DoneMeansPaid
  <1>1. ClaimsIInv => DoneMeansPaid
    BY DEF ClaimsIInv, Reported, Delivered, DoneMeansPaid
  <1> QED
    BY <1>1, ClaimsInvariance, PTL

\* claim panics after every new claim it makes: its second transaction finds
\* nothing locked.
THEOREM FreshClaimsPanic == ClaimsSpec => []FreshClaimPanics
  <1>1. ASSUME ClaimsIInv
        PROVE  FreshClaimPanics
    <2> SUFFICES ASSUME NEW t \in Terminals, Production,
                        last[t].result = "done", last[t].command = "claim",
                        last[t].fresh
                 PROVE  FALSE
      BY DEF FreshClaimPanics
    <2>1. last[t].wallet \in Claimants /\ last[t].tree \in Files
      BY <1>1 DEF ClaimsIInv, CommandsOK, NoResult, Result
    <2>2. /\ Delivered("claim_locked", last[t].wallet, last[t].tree)
          /\ Delivered("new_claim", last[t].wallet, last[t].tree)
      BY <1>1 DEF ClaimsIInv, Reported
    <2>3. status[last[t].wallet].locked_amount_withdrawn = 0
      BY <1>1, <2>1, <2>2, NothingLocked DEF ClaimsIInv
    <2> QED
      BY <2>2, <2>3 DEF Delivered
  <1> QED
    BY <1>1, ClaimsInvariance, PTL

=============================================================================
