-------------------------- MODULE DeploymentProofs --------------------------
(***************************************************************************)
(* What new-distributor, fund-all and verify promise, for every number of  *)
(* trees, claims, attempts and commands, and for every order in which the  *)
(* operator's transactions land, expire or are left behind.                *)
(***************************************************************************)
EXTENDS Deployment, SequenceTheorems, TLAPS

-----------------------------------------------------------------------------
(* Transactions. *)

\* What a step may do to the chain: a distributor stays once it is there, no
\* token leaves a vault unless it is claimed, and only the transactions in
\* "landing" create distributors.
Grows(landing) ==
    \A v \in Versions :
        /\ processed.dist[v] # NoParams => processed'.dist[v] = processed.dist[v]
        /\ processed.vault[v] + processed.claimed[v]
              <= processed'.vault[v] + processed'.claimed[v]
        /\ \/ processed'.dist[v] = processed.dist[v]
           \/ \E t \in landing : /\ t.kind = "new_distributor"
                                 /\ t.version = v
                                 /\ t.params = processed'.dist[v]

\* A transaction that succeeds adds to the chain, and one that creates a
\* distributor has created it.
LEMMA EffectGrows ==
    ASSUME processed \in Chain, NEW t \in Transaction,
           Succeeds(t, processed), processed' = Effect(t, processed)
    PROVE  /\ processed' \in Chain
           /\ Grows({t})
           /\ t.kind = "new_distributor" => processed'.dist[t.version] = t.params
  <1> USE FolderAssumption DEF Chain, Transaction
  <1>1. CASE t.kind = "new_distributor"
    <2> DEFINE dist == [processed.dist EXCEPT ![t.version] = t.params]
    <2>1. /\ t.version \in Versions
          /\ t.params \in Params
          /\ processed.dist[t.version] = NoParams
      BY <1>1 DEF Succeeds
    <2>2. processed' = [processed EXCEPT !.dist = dist]
      BY <1>1 DEF Effect
    <2>3. /\ dist \in [Versions -> Params \cup {NoParams}]
          /\ dist[t.version] = t.params
          /\ \A v \in Versions : v # t.version => dist[v] = processed.dist[v]
      BY <2>1
    <2> HIDE DEF dist
    <2>4. /\ processed' \in Chain
          /\ processed'.dist = dist
          /\ processed'.vault = processed.vault
          /\ processed'.claimed = processed.claimed
      BY <2>2, <2>3
    <2> QED
      BY <1>1, <2>1, <2>3, <2>4 DEF Grows
  <1>2. CASE t.kind = "fund_all"
    <2> DEFINE v == t.version
               vault == [processed.vault EXCEPT ![v] = @ + MaxTotalClaim[v]]
               wallet == processed.wallet - MaxTotalClaim[v]
    <2>1. /\ v \in Versions
          /\ MaxTotalClaim[v] \in Nat
          /\ processed.wallet \in Nat
          /\ processed.wallet >= MaxTotalClaim[v]
      BY <1>2 DEF Succeeds
    <2>2. processed' = [processed EXCEPT !.vault = vault, !.wallet = wallet]
      BY <1>2 DEF Effect
    <2>3. /\ vault \in [Versions -> Nat]
          /\ \A w \in Versions : vault[w] >= processed.vault[w]
      BY <2>1
    <2>4. wallet \in Nat
      BY <2>1
    <2> HIDE DEF vault, wallet
    <2>5. /\ processed' \in Chain
          /\ processed'.dist = processed.dist
          /\ processed'.vault = vault
          /\ processed'.claimed = processed.claimed
      BY <2>2, <2>3, <2>4
    <2>6. ASSUME NEW w \in Versions
          PROVE  processed.vault[w] + processed.claimed[w]
                   <= vault[w] + processed.claimed[w]
      BY <2>3
    <2> QED
      BY <1>2, <2>5, <2>6 DEF Grows
  <1> QED
    BY <1>1, <1>2

\* A claim moves a token from the vault to the claimed ones.
LEMMA ClaimGrows ==
    ASSUME processed \in Chain, NEW v \in Versions, Claim(v)
    PROVE  processed' \in Chain /\ Grows({})
  <1> USE DEF Chain
  <1> DEFINE vault == [processed.vault EXCEPT ![v] = @ - 1]
             claimed == [processed.claimed EXCEPT ![v] = @ + 1]
  <1>1. /\ processed' = [processed EXCEPT !.vault = vault, !.claimed = claimed]
        /\ processed.vault[v] > 0
    BY DEF Claim
  <1>2. /\ vault \in [Versions -> Nat]
        /\ claimed \in [Versions -> Nat]
        /\ \A w \in Versions :
              vault[w] + claimed[w] = processed.vault[w] + processed.claimed[w]
    BY <1>1
  <1> HIDE DEF vault, claimed
  <1>3. /\ processed' \in Chain
        /\ processed'.dist = processed.dist
        /\ processed'.vault = vault
        /\ processed'.claimed = claimed
    BY <1>1, <1>2
  <1> QED
    BY <1>2, <1>3 DEF Grows

\* So does a step that leaves the chain alone.
LEMMA StandingGrows ==
    ASSUME processed \in Chain, processed' = processed
    PROVE  Grows({})
  BY DEF Grows, Chain

\* What is ready stays ready, and what is finalized stays.
LEMMA ReadyStays ==
    ASSUME TypeOK, NEW landing, Grows(landing), processed' \in Chain
    PROVE  /\ \A v \in Versions, terms \in Terms, skip_verify \in BOOLEAN :
                Ready(v, terms, skip_verify) => Ready(v, terms, skip_verify)'
           /\ FinalizedStays /\ finalized' = finalized => FinalizedStays'
  <1> USE FolderAssumption DEF TypeOK, Chain, Grows
  <1>1. ASSUME NEW v \in Versions, NEW terms \in Terms,
               NEW skip_verify \in BOOLEAN, Ready(v, terms, skip_verify)
        PROVE  Ready(v, terms, skip_verify)'
    <2>1. HasTerms(processed'.dist[v], terms)
      BY <1>1 DEF Ready, HasTerms
    <2>2. /\ processed.vault[v] \in Nat /\ processed.claimed[v] \in Nat
          /\ processed'.vault[v] \in Nat /\ processed'.claimed[v] \in Nat
          /\ MaxTotalClaim[v] \in Nat
      OBVIOUS
    <2> QED
      BY <1>1, <2>1, <2>2 DEF Ready, HasTerms
  <1>2. ASSUME FinalizedStays, finalized' = finalized
        PROVE  FinalizedStays'
    BY <1>2 DEF FinalizedStays
  <1> QED
    BY <1>1, <1>2

\* What was checked stays checked while no transaction is added to those in
\* flight and what lands is one of them, or creates with the same parameters.
LEMMA CheckedStays ==
    ASSUME TypeOK, NEW landing, Grows(landing),
           NEW v \in Versions, NEW params \in Params, Checked(v, params),
           \A i \in DOMAIN orphans' : \E k \in DOMAIN orphans :
               orphans'[i] = orphans[k],
           \A t \in landing : \/ t.params = params
                              \/ \E k \in DOMAIN orphans : t = orphans[k]
    PROVE  Checked(v, params)'
  <1>1. CASE processed.dist[v] = params
    BY <1>1, FolderAssumption DEF Grows, Checked
  <1>2. CASE /\ processed.dist[v] = NoParams
             /\ processed'.dist[v] = NoParams
    BY <1>2 DEF Checked
  <1>3. CASE /\ processed.dist[v] = NoParams
             /\ processed'.dist[v] # NoParams
    <2>1. PICK t \in landing : /\ t.kind = "new_distributor"
                               /\ t.version = v
                               /\ t.params = processed'.dist[v]
      BY <1>3 DEF Grows
    <2>2. t.params = params
      BY <1>3, <2>1, FolderAssumption DEF Checked
    <2> QED
      BY <2>1, <2>2 DEF Checked
  <1> QED
    BY <1>1, <1>2, <1>3 DEF Checked

-----------------------------------------------------------------------------
(* Moves of the command line. *)

Statuses == {"signed", "sent", "ok", "failed", "expired"}

\* The parts of TypeOK that the command line's moves change.
CliOK ==
    /\ cli \in {Idle} \cup Command
    /\ tx \in {NoTx} \cup [status : Statuses, body : Transaction]
    /\ orphans \in Seq(Transaction)
    /\ last \in {[result |-> "none"]} \cup Outcome
    /\ (tx.status = "none") <=> (cli.pc \in {"idle", "next", "check"})
    /\ cli.pc # "idle" =>
          /\ cli.params \in Arguments[cli.command]
          /\ cli.command = "verify" => cli.pc = "next"
          /\ cli.pc = "check" => cli.command = "new_distributor"
          /\ cli.pc # "next" => cli.queue # <<>>
          /\ tx.status # "none" =>
                tx.body = [kind |-> cli.command, version |-> Head(cli.queue),
                           params |-> cli.params]
          /\ Handled >= 0
          /\ \A j \in DOMAIN cli.queue : cli.queue[j] = cli.trees[Handled + j]

\* TypeOK is made of them.
LEMMA TypeParts ==
    /\ TypeOK <=> /\ scenario \in Scenarios
                  /\ processed \in Chain
                  /\ finalized \in Chain
                  /\ CliOK
    /\ TypeOK' <=> /\ scenario' \in Scenarios
                   /\ processed' \in Chain
                   /\ finalized' \in Chain
                   /\ CliOK'
  BY DEF TypeOK, CliOK, Statuses

\* A running command's record.
LEMMA Running ==
    ASSUME CliOK, cli.pc # "idle"
    PROVE  /\ cli \in Command
           /\ cli.trees \in Seq(Versions) /\ cli.queue \in Seq(Versions)
           /\ Len(cli.trees) \in Nat /\ Len(cli.queue) \in Nat
           /\ DOMAIN cli.queue = 1..Len(cli.queue)
           /\ DOMAIN cli.trees = 1..Len(cli.trees)
           /\ Handled \in Nat
           /\ Handled + Len(cli.queue) = Len(cli.trees)
           /\ cli.command = "new_distributor" => cli.params \in Params
           /\ cli.command = "verify" => cli.params \in Terms
           /\ cli.command = "fund_all" => cli.params = NoParams
           /\ tx.status # "none" => /\ tx.body \in Transaction
                                    /\ tx.status \in Statuses
  <1>1. cli \in Command
    BY DEF CliOK, Idle
  <1>2. /\ cli.trees \in Seq(Versions) /\ cli.queue \in Seq(Versions)
        /\ cli.command \in DOMAIN Arguments
        /\ cli.params \in Arguments[cli.command]
    BY <1>1 DEF Command, CliOK
  <1>3. /\ Len(cli.trees) \in Nat /\ Len(cli.queue) \in Nat
        /\ DOMAIN cli.queue = 1..Len(cli.queue)
        /\ DOMAIN cli.trees = 1..Len(cli.trees)
    BY <1>2, LenProperties
  <1>4. Handled \in Nat /\ Handled + Len(cli.queue) = Len(cli.trees)
    BY <1>3 DEF CliOK, Handled
  <1>5. tx.status # "none" => tx.body \in Transaction /\ tx.status \in Statuses
    BY DEF CliOK, NoTx
  <1>6. /\ cli.command = "new_distributor" => cli.params \in Params
        /\ cli.command = "verify" => cli.params \in Terms
        /\ cli.command = "fund_all" => cli.params = NoParams
    BY <1>2 DEF Arguments
  <1> QED
    BY <1>1, <1>2, <1>3, <1>4, <1>5, <1>6

\* What InFlight leaves behind are transactions.
LEMMA InFlightIsTyped ==
    ASSUME CliOK
    PROVE  InFlight \in Seq(Transaction)
  <1>1. CASE tx.status = "sent"
    <2>1. tx.body \in Transaction
      BY <1>1 DEF CliOK, NoTx
    <2> QED
      BY <1>1, <2>1 DEF CliOK, InFlight
  <1> QED
    BY <1>1 DEF CliOK, InFlight

\* On to the next tree.
LEMMA NextVersionMoves ==
    ASSUME CliOK, cli.pc # "idle", cli.queue # <<>>, NEW is_error \in BOOLEAN,
           NextVersion(is_error), tx' = NoTx, orphans' \in Seq(Transaction),
           last' = last
    PROVE  /\ CliOK'
           /\ cli'.pc = "next"
           /\ cli'.command = cli.command
           /\ cli'.params = cli.params
           /\ cli'.skip_verify = cli.skip_verify
           /\ cli'.trees = cli.trees
           /\ cli'.is_error <=> (cli.is_error \/ is_error)
           /\ Handled' = Handled + 1
           /\ Handled' \in DOMAIN cli.trees
           /\ cli.trees[Handled'] = Head(cli.queue)
  <1> DEFINE queue == Tail(cli.queue)
             error == cli.is_error \/ is_error
  <1>1. /\ cli \in Command
        /\ cli.trees \in Seq(Versions) /\ cli.queue \in Seq(Versions)
        /\ Len(cli.trees) \in Nat /\ Len(cli.queue) \in Nat
        /\ DOMAIN cli.queue = 1..Len(cli.queue)
        /\ DOMAIN cli.trees = 1..Len(cli.trees)
        /\ Handled \in Nat
        /\ Handled + Len(cli.queue) = Len(cli.trees)
    BY Running
  <1>2. /\ queue \in Seq(Versions)
        /\ Len(cli.queue) > 0
        /\ Len(queue) = Len(cli.queue) - 1
        /\ \A i \in 1..Len(queue) : queue[i] = cli.queue[i + 1]
        /\ DOMAIN queue = 1..Len(queue)
    BY <1>1, HeadTailProperties, EmptySeq, LenProperties
  <1>3. cli' = [cli EXCEPT !.pc = "next", !.queue = queue, !.is_error = error]
    BY DEF NextVersion
  <1>4. error \in BOOLEAN
    OBVIOUS
  <1>5. error <=> (cli.is_error \/ is_error)
    OBVIOUS
  <1>6. Head(cli.queue) = cli.queue[1]
    BY <1>1, <1>2
  <1> HIDE DEF queue, error
  <1>7. /\ cli' \in Command
        /\ cli'.pc = "next"
        /\ cli'.command = cli.command
        /\ cli'.params = cli.params
        /\ cli'.skip_verify = cli.skip_verify
        /\ cli'.trees = cli.trees
        /\ cli'.queue = queue
        /\ cli'.is_error = error
    BY <1>1, <1>2, <1>3, <1>4 DEF Command
  <1>8. Handled' = Handled + 1
    <2>1. Handled' = Len(cli.trees) - Len(queue)
      BY <1>7 DEF Handled
    <2>2. Handled = Len(cli.trees) - Len(cli.queue)
      BY DEF Handled
    <2> QED
      BY <1>1, <1>2, <2>1, <2>2
  <1>9. \A j \in DOMAIN cli'.queue : cli'.queue[j] = cli'.trees[Handled' + j]
    <2> SUFFICES ASSUME NEW j \in 1..Len(queue)
                 PROVE  queue[j] = cli.trees[Handled + 1 + j]
      BY <1>1, <1>2, <1>7, <1>8
    <2>1. j + 1 \in DOMAIN cli.queue
      BY <1>1, <1>2
    <2>2. cli.queue[j + 1] = cli.trees[Handled + (j + 1)]
      BY <2>1, <1>1 DEF CliOK
    <2>3. Handled + (j + 1) = Handled + 1 + j
      BY <1>1
    <2> QED
      BY <1>2, <2>2, <2>3
  <1>10. /\ Handled' \in DOMAIN cli.trees
         /\ cli.trees[Handled'] = Head(cli.queue)
    <2>1. 1 \in DOMAIN cli.queue
      BY <1>1, <1>2
    <2>2. cli.queue[1] = cli.trees[Handled + 1]
      BY <2>1 DEF CliOK
    <2>3. Handled + 1 \in DOMAIN cli.trees
      BY <1>1, <1>2
    <2> QED
      BY <1>6, <1>8, <2>2, <2>3
  <1>11. CliOK'
    <2>1. tx'.status = "none"
      BY DEF NoTx
    <2>2. Handled' >= 0
      BY <1>1, <1>8
    <2> QED
      BY <1>1, <1>7, <1>9, <2>1, <2>2 DEF CliOK
  <1> QED
    BY <1>5, <1>7, <1>8, <1>10, <1>11

\* Staying with the tree at hand.
LEMMA StayMoves ==
    ASSUME CliOK, cli.pc # "idle",
           NEW pc \in {"simulate", "loop", "confirm", "check", "next"},
           NEW error \in BOOLEAN,
           cli' = [cli EXCEPT !.pc = pc, !.is_error = error]
    PROVE  /\ cli' \in Command
           /\ cli'.pc = pc
           /\ cli'.command = cli.command
           /\ cli'.params = cli.params
           /\ cli'.skip_verify = cli.skip_verify
           /\ cli'.trees = cli.trees
           /\ cli'.queue = cli.queue
           /\ cli'.is_error = error
           /\ Handled' = Handled
  <1>1. cli \in Command
    BY Running
  <1> QED
    BY <1>1 DEF Command, Handled

\* The record of the command line stays well formed when it stays with the
\* tree at hand.
LEMMA StayTyped ==
    ASSUME CliOK, cli.pc # "idle",
           cli' \in Command,
           cli'.command = cli.command, cli'.params = cli.params,
           cli'.trees = cli.trees, cli'.queue = cli.queue,
           tx' \in {NoTx} \cup [status : Statuses, body : Transaction],
           orphans' \in Seq(Transaction), last' = last,
           (tx'.status = "none") <=> (cli'.pc \in {"next", "check"}),
           cli.queue # <<>>,
           cli.command = "verify" => cli'.pc = "next",
           cli'.pc = "check" => cli.command = "new_distributor",
           tx'.status # "none" =>
                tx'.body = [kind |-> cli.command, version |-> Head(cli.queue),
                            params |-> cli.params]
    PROVE  CliOK'
  <1>1. cli'.pc # "idle"
    BY DEF Command
  <1>2. Handled' = Handled
    BY DEF Handled
  <1> QED
    BY <1>1, <1>2 DEF CliOK

\* A command ends.
LEMMA EndMoves ==
    ASSUME CliOK, cli.pc # "idle", NEW result \in {"done", "panicked"},
           End(result), tx' = NoTx, orphans' \in Seq(Transaction)
    PROVE  /\ CliOK'
           /\ cli'.pc = "idle"
           /\ last'.command = cli.command
           /\ last'.params = cli.params
           /\ last'.skip_verify = cli.skip_verify
           /\ last'.trees = cli.trees
           /\ last'.result = result
  <1>1. cli \in Command
    BY Running
  <1>2. /\ cli' = Idle
        /\ last' = [command |-> cli.command, params |-> cli.params,
                    skip_verify |-> cli.skip_verify, trees |-> cli.trees,
                    result |-> result]
    BY DEF End
  <1>3. last' \in Outcome
    <2>1. /\ cli.params \in Arguments[cli.command]
          /\ cli.command \in {"new_distributor", "fund_all", "verify"}
          /\ cli.skip_verify \in BOOLEAN /\ cli.trees \in Seq(Versions)
      BY <1>1 DEF CliOK, Command, Arguments
    <2>2. last' \in OutcomeOf(cli.command)
      BY <1>2, <2>1 DEF OutcomeOf
    <2> QED
      BY <2>1, <2>2 DEF Outcome
  <1> QED
    BY <1>2, <1>3 DEF CliOK, Idle, NoTx

\* An attempt ends in Err: the command starts over or panics.
LEMMA FailAttemptMoves ==
    ASSUME CliOK, cli.pc # "idle", FailAttempt
    PROVE  /\ CliOK'
           /\ \/ /\ cli'.pc = "next"
                 /\ cli'.command = cli.command
                 /\ Handled' = 0
                 /\ tx' = NoTx
                 /\ last' = last
              \/ /\ cli'.pc = "idle"
                 /\ last'.result = "panicked"
  <1>1. tx' = NoTx /\ orphans' \in Seq(Transaction)
    BY InFlightIsTyped DEF FailAttempt
  <1>2. CASE End("panicked")
    BY <1>1, <1>2, EndMoves
  <1>3. CASE /\ cli' = [cli EXCEPT !.pc = "next", !.queue = cli.trees,
                                   !.is_error = FALSE, !.attempt = @ + 1]
             /\ last' = last
    <2>1. /\ cli \in Command
          /\ cli.trees \in Seq(Versions)
          /\ DOMAIN cli.trees = 1..Len(cli.trees)
          /\ Len(cli.trees) \in Nat
      BY Running
    <2>2. /\ cli' \in Command
          /\ cli'.pc = "next"
          /\ cli'.command = cli.command
          /\ cli'.params = cli.params
          /\ cli'.trees = cli.trees
          /\ cli'.queue = cli.trees
      <3> DEFINE attempt == cli.attempt + 1
      <3>1. attempt \in Nat
        BY <2>1 DEF Command
      <3>2. cli' = [cli EXCEPT !.pc = "next", !.queue = cli.trees,
                               !.is_error = FALSE, !.attempt = attempt]
        BY <1>3
      <3> HIDE DEF attempt
      <3> QED
        BY <2>1, <3>1, <3>2 DEF Command
    <2>3. Handled' = 0
      BY <2>1, <2>2 DEF Handled
    <2>4. \A j \in DOMAIN cli'.queue : cli'.queue[j] = cli'.trees[Handled' + j]
      BY <2>1, <2>2, <2>3
    <2>5. CliOK'
      BY <1>1, <1>3, <2>2, <2>3, <2>4 DEF CliOK, NoTx
    <2> QED
      BY <1>1, <1>3, <2>2, <2>3, <2>5
  <1> QED
    BY <1>2, <1>3 DEF FailAttempt

-----------------------------------------------------------------------------
(* What the moves keep of the invariant. *)

\* What a step of the command line leaves alone.
ChainStands == UNCHANGED <<scenario, chain>>

\* On to the next tree without an error, and with one.
MovesOn == NextVersion(FALSE)
MovesOnBadly == NextVersion(TRUE)

\* On to the next tree: it is ready, or checked.
LEMMA NextVersionKeeps ==
    ASSUME DeployIInv, ChainStands, cli.pc # "idle", cli.queue # <<>>,
           MovesOnBadly \/ MovesOn,
           tx' = NoTx, orphans' \in Seq(Transaction), last' = last,
           cli.command = "verify" =>
               Ready(Head(cli.queue), cli.params, cli.skip_verify),
           cli.command = "new_distributor" /\ ~cli.skip_verify
             /\ ~cli.is_error /\ MovesOn =>
               /\ orphans' = orphans
               /\ Checked(Head(cli.queue), cli.params)
    PROVE  DeployIInv'
  <1>1. CliOK
    BY TypeParts DEF DeployIInv
  <1>2. /\ CliOK'
        /\ cli'.pc = "next"
        /\ cli'.command = cli.command
        /\ cli'.params = cli.params
        /\ cli'.skip_verify = cli.skip_verify
        /\ cli'.trees = cli.trees
        /\ ~cli'.is_error => ~cli.is_error /\ MovesOn
        /\ Handled' = Handled + 1
        /\ cli.trees[Handled'] = Head(cli.queue)
    <2>1. CASE MovesOnBadly
      BY <1>1, <2>1, NextVersionMoves DEF MovesOnBadly
    <2>2. CASE MovesOn
      BY <1>1, <2>2, NextVersionMoves DEF MovesOn
    <2> QED
      BY <2>1, <2>2
  <1>3. Handled \in Nat
    BY <1>1, Running
  <1>4. TypeOK'
    BY <1>2, TypeParts DEF DeployIInv, ChainStands, chain
  <1>5. FinalizedStays' /\ VerifiedIsReady'
    BY DEF DeployIInv, ChainStands, chain, FinalizedStays, VerifiedIsReady, Ready
  <1>6. \A i \in 1..Handled' : i \in 1..Handled \/ i = Handled'
    BY <1>2, <1>3
  <1>7. Verifying'
    <2> SUFFICES ASSUME cli.command = "verify", NEW i \in 1..Handled'
                 PROVE  Ready(cli.trees[i], cli.params, cli.skip_verify)
      BY <1>2 DEF Verifying, ChainStands, chain, Ready
    <2>1. CASE i = Handled'
      BY <1>2, <2>1
    <2>2. CASE i \in 1..Handled
      BY <2>2 DEF DeployIInv, Verifying
    <2> QED
      BY <1>6, <2>1, <2>2
  <1>8. Creating'
    <2> SUFFICES ASSUME cli.command = "new_distributor", ~cli.skip_verify,
                        ~cli.is_error, MovesOn
                 PROVE  \A i \in 1..Handled' : Checked(cli.trees[i], cli.params)'
      BY <1>2 DEF Creating, NoTx
    <2> SUFFICES ASSUME NEW i \in 1..Handled'
                 PROVE  Checked(cli.trees[i], cli.params)
      BY <1>2 DEF ChainStands, chain, Checked
    <2>1. CASE i = Handled'
      BY <1>2, <2>1
    <2>2. CASE i \in 1..Handled
      BY <2>2 DEF DeployIInv, Creating
    <2> QED
      BY <1>6, <2>1, <2>2
  <1>9. Created'
    BY <1>2 DEF Created
  <1> QED
    BY <1>4, <1>5, <1>7, <1>8, <1>9 DEF DeployIInv

\* Staying with the tree at hand: nothing has been approved since.
LEMMA StayKeeps ==
    ASSUME DeployIInv, ChainStands, cli.pc # "idle", cli.queue # <<>>,
           NEW pc \in {"simulate", "loop", "confirm", "check", "next"},
           NEW error \in BOOLEAN,
           cli' = [cli EXCEPT !.pc = pc, !.is_error = error],
           cli.is_error => error,
           cli.command = "verify" => pc = "next",
           pc = "check" => cli.command = "new_distributor",
           tx' \in {NoTx} \cup [status : Statuses, body : Transaction],
           orphans' \in Seq(Transaction), last' = last,
           (tx'.status = "none") <=> (pc \in {"next", "check"}),
           tx'.status # "none" =>
                tx'.body = [kind |-> cli.command, version |-> Head(cli.queue),
                            params |-> cli.params],
           /\ cli.command = "new_distributor" /\ ~cli.skip_verify /\ ~error =>
               /\ orphans' = orphans
               /\ tx'.status = "expired" => orphans = <<>>
               /\ tx'.status = "ok" => processed.dist[Head(cli.queue)] # NoParams
               /\ pc = "check" =>
                     orphans = <<>> \/ processed.dist[Head(cli.queue)] # NoParams
    PROVE  DeployIInv'
  <1>1. CliOK
    BY TypeParts DEF DeployIInv
  <1>2. /\ cli' \in Command
        /\ cli'.pc = pc
        /\ cli'.command = cli.command
        /\ cli'.params = cli.params
        /\ cli'.skip_verify = cli.skip_verify
        /\ cli'.trees = cli.trees
        /\ cli'.queue = cli.queue
        /\ cli'.is_error = error
        /\ Handled' = Handled
    BY <1>1, StayMoves
  <1>3. CliOK'
    BY <1>1, <1>2, StayTyped
  <1>4. TypeOK'
    BY <1>3, TypeParts DEF DeployIInv, ChainStands, chain
  <1>5. FinalizedStays' /\ VerifiedIsReady'
    BY DEF DeployIInv, ChainStands, chain, FinalizedStays, VerifiedIsReady, Ready
  <1>6. Verifying'
    BY <1>2 DEF DeployIInv, ChainStands, chain, Verifying, Ready
  <1>7. Creating'
    BY <1>2 DEF DeployIInv, ChainStands, chain, Creating, Checked
  <1>8. Created'
    BY <1>2 DEF Created
  <1> QED
    BY <1>4, <1>5, <1>6, <1>7, <1>8 DEF DeployIInv

\* An end: well only after all trees, and without an error.
LEMMA EndKeeps ==
    ASSUME DeployIInv, ChainStands, cli.pc # "idle",
           NEW result \in {"done", "panicked"},
           End(result), tx' = NoTx, orphans' \in Seq(Transaction),
           result = "done" => /\ cli.queue = <<>>
                              /\ ~cli.is_error
                              /\ orphans' = orphans
    PROVE  DeployIInv'
  <1>1. CliOK
    BY TypeParts DEF DeployIInv
  <1>2. /\ CliOK'
        /\ cli'.pc = "idle"
        /\ last'.command = cli.command
        /\ last'.params = cli.params
        /\ last'.skip_verify = cli.skip_verify
        /\ last'.trees = cli.trees
        /\ last'.result = result
    BY <1>1, EndMoves
  <1>3. TypeOK'
    BY <1>2, TypeParts DEF DeployIInv, ChainStands, chain
  <1>4. FinalizedStays'
    BY DEF DeployIInv, ChainStands, chain, FinalizedStays
  <1>5. result = "done" => DOMAIN cli.trees = 1..Handled
    <2>1. Len(<<>>) = 0
      OBVIOUS
    <2> QED
      BY <1>1, <2>1, Running
  <1>6. VerifiedIsReady'
    BY <1>2, <1>5
    DEF DeployIInv, ChainStands, chain, Verifying, VerifiedIsReady, Ready
  <1>7. Created'
    <2> SUFFICES ASSUME result = "done", cli.command = "new_distributor",
                        ~cli.skip_verify, NEW i \in DOMAIN cli.trees
                 PROVE  Checked(cli.trees[i], cli.params)
      BY <1>2 DEF Created, ChainStands, chain, Checked
    <2> QED
      BY <1>5 DEF DeployIInv, Creating
  <1>8. Verifying' /\ Creating'
    BY <1>2 DEF Verifying, Creating
  <1> QED
    BY <1>3, <1>4, <1>6, <1>7, <1>8 DEF DeployIInv

\* An attempt that fails: nothing of the next one has been dealt with.
LEMMA FailAttemptKeeps ==
    ASSUME DeployIInv, ChainStands, cli.pc # "idle", FailAttempt
    PROVE  DeployIInv'
  <1>1. CliOK
    BY TypeParts DEF DeployIInv
  <1>2. /\ CliOK'
        /\ \/ /\ cli'.pc = "next"
              /\ cli'.command = cli.command
              /\ Handled' = 0
              /\ tx' = NoTx
              /\ last' = last
           \/ /\ cli'.pc = "idle"
              /\ last'.result = "panicked"
    BY <1>1, FailAttemptMoves
  <1>3. TypeOK'
    BY <1>2, TypeParts DEF DeployIInv, ChainStands, chain
  <1>4. FinalizedStays' /\ VerifiedIsReady'
    BY <1>2
    DEF DeployIInv, ChainStands, chain, FinalizedStays, VerifiedIsReady, Ready
  <1>5. Verifying' /\ Creating' /\ Created'
    <2>1. CASE cli'.pc = "idle" /\ last'.result = "panicked"
      BY <2>1 DEF Verifying, Creating, Created
    <2>2. CASE cli'.pc = "next" /\ Handled' = 0 /\ tx' = NoTx
      BY <2>2 DEF Verifying, Creating, Created, NoTx
    <2> QED
      BY <1>2, <2>1, <2>2
  <1> QED
    BY <1>3, <1>4, <1>5 DEF DeployIInv

\* A panic leaves its transaction behind and reports nothing.
LEMMA PanicKeeps ==
    ASSUME DeployIInv, ChainStands, cli.pc # "idle", Panic
    PROVE  DeployIInv'
  <1>1. CliOK
    BY TypeParts DEF DeployIInv
  <1> QED
    BY <1>1, InFlightIsTyped, EndKeeps DEF Panic

\* Signing the transaction for the next tree.
LEMMA SignKeeps ==
    ASSUME DeployIInv, ChainStands, cli.pc = "next", cli.queue # <<>>,
           cli.command # "verify", Sign(Head(cli.queue))
    PROVE  DeployIInv'
  <1> DEFINE body == [kind |-> cli.command, version |-> Head(cli.queue),
                      params |-> cli.params]
  <1>1. CliOK
    BY TypeParts DEF DeployIInv
  <1>2. /\ cli \in Command
        /\ cli.queue \in Seq(Versions)
        /\ cli.command \in {"new_distributor", "fund_all"}
        /\ cli.command = "new_distributor" => cli.params \in Params
        /\ cli.command = "fund_all" => cli.params = NoParams
    BY <1>1, Running DEF Command, Arguments
  <1>3. Head(cli.queue) \in Versions
    BY <1>2, HeadTailProperties
  <1>4. body \in Transaction
    BY <1>2, <1>3 DEF Transaction
  <1>5. /\ cli' = [cli EXCEPT !.pc = "simulate", !.is_error = cli.is_error]
        /\ cli.is_error \in BOOLEAN
    BY <1>2 DEF Sign, Command
  <1>6. /\ tx' = [status |-> "signed", body |-> body]
        /\ orphans' = orphans /\ last' = last
    BY DEF Sign
  <1> HIDE DEF body
  <1>7. /\ tx' \in [status : Statuses, body : Transaction]
        /\ tx'.status = "signed"
        /\ tx'.body = body
    BY <1>4, <1>6 DEF Statuses
  <1>8. orphans' \in Seq(Transaction)
    BY <1>1, <1>6 DEF CliOK
  <1> QED
    BY <1>5, <1>6, <1>7, <1>8, StayKeeps DEF body

\* send_transaction has returned: well only where the transaction was carried
\* out, or where its blockhash has expired and with it all older ones.
LEMMA SentKeeps ==
    ASSUME DeployIInv, ChainStands, cli.pc # "idle", cli.queue # <<>>,
           cli.command # "verify", NEW ok \in BOOLEAN, Sent(ok),
           ok => tx.status \in {"ok", "expired"}
    PROVE  DeployIInv'
  <1>1. CliOK
    BY TypeParts DEF DeployIInv
  <1>2. /\ cli \in Command /\ cli.is_error \in BOOLEAN
    BY <1>1, Running DEF Command
  <1>3. /\ tx' = NoTx /\ last' = last
        /\ orphans' = InFlight
        /\ orphans' \in Seq(Transaction)
    BY <1>1, InFlightIsTyped DEF Sent
  <1>4. ok => orphans' = orphans
    BY <1>3 DEF InFlight
  <1>5. CASE cli.command = "new_distributor"
    <2> DEFINE error == cli.is_error \/ ~ok
    <2>1. cli' = [cli EXCEPT !.pc = "check", !.is_error = error]
      BY <1>5 DEF Sent
    <2>2. error \in BOOLEAN /\ (cli.is_error => error) /\ (~error => ok)
      OBVIOUS
    <2> HIDE DEF error
    <2>3. ~cli.skip_verify /\ ~error =>
            orphans = <<>> \/ processed.dist[Head(cli.queue)] # NoParams
      BY <1>5, <2>2 DEF DeployIInv, Creating, error
    <2>4. tx'.status = "none"
      BY <1>3 DEF NoTx
    <2> QED
      BY <1>3, <1>4, <1>5, <2>1, <2>2, <2>3, <2>4, StayKeeps
  <1>6. CASE cli.command = "fund_all"
    <2>1. MovesOnBadly \/ MovesOn
      BY <1>6 DEF Sent, NextVersion, MovesOn, MovesOnBadly
    <2> QED
      BY <1>3, <1>6, <2>1, NextVersionKeeps
  <1> QED
    BY <1>2, <1>5, <1>6 DEF Command, Arguments

-----------------------------------------------------------------------------
(* The steps. *)

\* Looking at the chain.
LEMMA InspectInvariant ==
    ASSUME DeployIInv, Inspect
    PROVE  DeployIInv'
  <1> DEFINE v == Head(cli.queue)
  <1>1. /\ CliOK /\ ChainStands
        /\ cli.pc = "next" /\ cli.queue # <<>>
    BY TypeParts DEF Inspect, DeployIInv, ChainStands
  <1>2. /\ cli.command = "new_distributor" => cli.params \in Params
        /\ cli.command = "verify" => cli.params \in Terms
        /\ cli.queue \in Seq(Versions)
        /\ orphans \in Seq(Transaction)
        /\ tx.status = "none" => tx = NoTx
    BY <1>1, Running DEF CliOK, NoTx, Statuses
  <1>3. v \in Versions /\ tx = NoTx
    BY <1>1, <1>2, HeadTailProperties DEF CliOK
  <1>4. CASE FailAttempt
    BY <1>1, <1>4, FailAttemptKeeps
  <1>5. CASE Panic
    BY <1>1, <1>5, PanicKeeps
  <1>6. CASE Sign(v) /\ cli.command # "verify"
    BY <1>1, <1>6, SignKeeps
  <1>7. ASSUME MovesOn, UNCHANGED <<tx, orphans, last>>,
               cli.command = "verify" => Ready(v, cli.params, cli.skip_verify),
               cli.command = "new_distributor" => Checked(v, cli.params)
        PROVE  DeployIInv'
    BY <1>1, <1>2, <1>3, <1>7, NextVersionKeeps
  <1>8. ASSUME NEW state \in Confirmed, LookForDistributor(v, state)
        PROVE  DeployIInv'
    <2>1. state.dist[v] = cli.params => Checked(v, cli.params)
      BY <1>2, <1>3, <1>8, FolderAssumption
      DEF Checked, Confirmed, DeployIInv, FinalizedStays, LookForDistributor
    <2> QED
      BY <1>5, <1>6, <1>7, <1>8, <2>1 DEF LookForDistributor, MovesOn
  <1>9. CASE LookAtVault(v, finalized)
    BY <1>4, <1>6, <1>7, <1>9 DEF LookAtVault, MovesOn
  <1>10. CASE VerifyTree(v, finalized)
    <2>1. ASSUME HasTerms(finalized.dist[v], cli.params),
                 cli.skip_verify \/ finalized.vault[v] = MaxTotalClaim[v],
                 cli.command = "verify"
          PROVE  Ready(v, cli.params, cli.skip_verify)
      <3>1. HasTerms(processed.dist[v], cli.params)
        BY <1>3, <2>1 DEF DeployIInv, FinalizedStays, HasTerms
      <3>2. /\ finalized.vault[v] \in Nat /\ finalized.claimed[v] \in Nat
            /\ processed.vault[v] \in Nat /\ processed.claimed[v] \in Nat
            /\ MaxTotalClaim[v] \in Nat
        BY <1>3, FolderAssumption DEF DeployIInv, TypeOK, Chain
      <3>3. finalized.vault[v] + finalized.claimed[v]
              <= processed.vault[v] + processed.claimed[v]
        BY <1>3 DEF DeployIInv, FinalizedStays
      <3> QED
        BY <2>1, <3>1, <3>2, <3>3 DEF Ready
    <2> QED
      BY <1>5, <1>7, <1>10, <2>1 DEF VerifyTree, MovesOn
  <1> QED
    BY <1>4, <1>5, <1>8, <1>9, <1>10 DEF Inspect

\* Simulating.
LEMMA SimulateInvariant ==
    ASSUME DeployIInv, Simulate
    PROVE  DeployIInv'
  <1>1. /\ CliOK /\ ChainStands /\ cli.pc = "simulate"
    BY TypeParts DEF Simulate, DeployIInv, ChainStands
  <1>2. /\ cli.command # "verify" /\ cli.queue # <<>>
        /\ tx.status # "none"
    BY <1>1 DEF CliOK
  <1>3. /\ cli \in Command /\ cli.is_error \in BOOLEAN
        /\ tx.status \in Statuses
        /\ tx \in [status : Statuses, body : Transaction]
        /\ tx.body \in Transaction
        /\ orphans \in Seq(Transaction)
        /\ tx.body = [kind |-> cli.command, version |-> Head(cli.queue),
                      params |-> cli.params]
    BY <1>1, <1>2, Running DEF Command, CliOK, NoTx
  <1>4. CASE Sent(FALSE)
    BY <1>1, <1>2, <1>4, SentKeeps
  <1>5. CASE cli' = [cli EXCEPT !.pc = "loop"] /\ UNCHANGED <<tx, orphans, last>>
    <2>1. cli' = [cli EXCEPT !.pc = "loop", !.is_error = cli.is_error]
      BY <1>3, <1>5 DEF Command
    <2> QED
      BY <1>1, <1>2, <1>3, <1>5, <2>1, StayKeeps DEF DeployIInv, Creating
  <1>6. ASSUME cli.skip_verify, MovesOnBadly \/ MovesOn,
               tx' = NoTx, last' = last,
               orphans' \in {orphans, Append(orphans, tx.body)}
        PROVE  DeployIInv'
    <2>1. Append(orphans, tx.body) \in Seq(Transaction)
      BY <1>3
    <2> QED
      BY <1>1, <1>2, <1>3, <1>6, <2>1, NextVersionKeeps
  <1> QED
    BY <1>4, <1>5, <1>6 DEF Simulate, MovesOn, MovesOnBadly

\* Sending, and waiting for the confirmation.
LEMMA SendingInvariant ==
    ASSUME DeployIInv, SendLoop \/ Confirm
    PROVE  DeployIInv'
  <1>1. /\ CliOK /\ ChainStands /\ cli.pc \in {"loop", "confirm"}
    BY TypeParts DEF SendLoop, Confirm, DeployIInv, ChainStands
  <1>2. /\ cli.command # "verify" /\ cli.queue # <<>>
        /\ tx.status # "none"
    BY <1>1 DEF CliOK
  <1>3. /\ cli \in Command /\ cli.is_error \in BOOLEAN
        /\ tx.status \in Statuses
        /\ tx \in [status : Statuses, body : Transaction]
        /\ tx.body \in Transaction
        /\ orphans \in Seq(Transaction)
        /\ tx.body = [kind |-> cli.command, version |-> Head(cli.queue),
                      params |-> cli.params]
    BY <1>1, <1>2, Running DEF Command, CliOK, NoTx
  <1>4. ASSUME NEW ok \in BOOLEAN, Sent(ok), ok => tx.status \in {"ok", "expired"}
        PROVE  DeployIInv'
    BY <1>1, <1>2, <1>4, SentKeeps
  <1>5. ASSUME NEW pc \in {"loop", "confirm"}, cli' = [cli EXCEPT !.pc = pc],
               NEW status \in Statuses, tx' = [tx EXCEPT !.status = status],
               status \in {tx.status, "sent"}, UNCHANGED <<orphans, last>>
        PROVE  DeployIInv'
    <2>1. cli' = [cli EXCEPT !.pc = pc, !.is_error = cli.is_error]
      BY <1>3, <1>5 DEF Command
    <2>2. /\ tx' \in [status : Statuses, body : Transaction]
          /\ tx'.status = status
          /\ tx'.body = tx.body
      BY <1>3, <1>5
    <2>3. status # "none"
      BY <1>5 DEF Statuses
    <2>4. cli.command = "new_distributor" /\ ~cli.skip_verify /\ ~cli.is_error =>
            /\ status = "expired" => orphans = <<>>
            /\ status = "ok" => processed.dist[Head(cli.queue)] # NoParams
      BY <1>1, <1>5 DEF DeployIInv, Creating
    <2> QED
      BY <1>1, <1>2, <1>3, <1>5, <2>1, <2>2, <2>3, <2>4, StayKeeps
  <1>6. CASE SendLoop
    <2> DEFINE status == IF tx.status = "signed" THEN "sent" ELSE tx.status
    <2>1. status \in Statuses /\ status \in {tx.status, "sent"}
      BY <1>3 DEF Statuses
    <2>2. [tx EXCEPT !.status = IF @ = "signed" THEN "sent" ELSE @]
            = [tx EXCEPT !.status = status]
      OBVIOUS
    <2> HIDE DEF status
    <2> QED
      BY <1>4, <1>5, <1>6, <2>1, <2>2 DEF SendLoop
  <1>7. CASE Confirm
    <2>1. tx = [tx EXCEPT !.status = tx.status]
      BY <1>3
    <2> QED
      BY <1>3, <1>4, <1>5, <1>7, <2>1 DEF Confirm
  <1> QED
    BY <1>6, <1>7

\* The second look, and the end of an attempt.
LEMMA CheckInvariant ==
    ASSUME DeployIInv, CheckDistributor \/ EndAttempt
    PROVE  DeployIInv'
  <1>1. /\ CliOK /\ ChainStands /\ cli.pc \in {"check", "next"}
    BY TypeParts DEF CheckDistributor, EndAttempt, DeployIInv, ChainStands
  <1>2. tx = NoTx /\ orphans \in Seq(Transaction)
    BY <1>1 DEF CliOK, NoTx, Statuses
  <1>3. CASE FailAttempt
    BY <1>1, <1>3, FailAttemptKeeps
  <1>4. CASE CheckDistributor
    <2>1. /\ cli.pc = "check"
          /\ cli.command = "new_distributor" /\ cli.queue # <<>>
      BY <1>1, <1>4 DEF CheckDistributor, CliOK
    <2>2. CASE Panic
      BY <1>1, <2>2, PanicKeeps
    <2>3. CASE /\ processed.dist[Head(cli.queue)] \in {NoParams, cli.params}
               /\ MovesOn
               /\ UNCHANGED <<tx, orphans, last>>
      <3>1. ~cli.skip_verify /\ ~cli.is_error => Checked(Head(cli.queue), cli.params)
        BY <2>1, <2>3 DEF DeployIInv, Creating, Checked
      <3> QED
        BY <1>1, <1>2, <2>1, <2>3, <3>1, NextVersionKeeps
    <2> QED
      BY <1>3, <1>4, <2>2, <2>3 DEF CheckDistributor, MovesOn
  <1>5. CASE EndAttempt
    <2>1. CASE ~cli.is_error /\ End("done") /\ UNCHANGED <<tx, orphans>>
      BY <1>1, <1>2, <1>5, <2>1, EndKeeps DEF EndAttempt
    <2> QED
      BY <1>3, <1>5, <2>1 DEF EndAttempt
  <1> QED
    BY <1>4, <1>5

\* A command starts: with nothing dealt with.
LEMMA StartInvariant ==
    ASSUME DeployIInv, NEW command \in {"new_distributor", "fund_all", "verify"},
           NEW params \in Arguments[command], NEW skip_verify \in BOOLEAN,
           NEW trees \in Seq(Versions),
           Start(command, params, skip_verify, trees)
    PROVE  DeployIInv'
  <1>1. /\ CliOK /\ ChainStands /\ cli.pc = "idle"
        /\ UNCHANGED <<tx, orphans, last>>
    BY TypeParts DEF Start, DeployIInv, ChainStands, chain
  <1>2. cli' = [pc |-> "next", command |-> command, params |-> params,
                skip_verify |-> skip_verify, trees |-> trees, queue |-> trees,
                is_error |-> FALSE, attempt |-> 1]
    BY DEF Start
  <1>3. /\ cli' \in Command
        /\ cli'.pc = "next"
        /\ cli'.command = command
        /\ cli'.params = params
        /\ cli'.trees = trees
        /\ cli'.queue = trees
    <2>1. /\ command \in DOMAIN Arguments
          /\ params \in Params \cup Terms \cup {NoParams}
      BY DEF Arguments
    <2> QED
      BY <1>2, <2>1 DEF Command
  <1>4. /\ Len(trees) \in Nat /\ DOMAIN trees = 1..Len(trees)
    BY LenProperties
  <1>5. Handled' = 0
    BY <1>3, <1>4 DEF Handled
  <1>6. \A j \in DOMAIN cli'.queue : cli'.queue[j] = cli'.trees[Handled' + j]
    BY <1>3, <1>4, <1>5
  <1>7. tx.status = "none"
    BY <1>1 DEF CliOK
  <1>8. CliOK'
    BY <1>1, <1>3, <1>5, <1>6, <1>7 DEF CliOK
  <1>9. TypeOK'
    BY <1>1, <1>8, TypeParts DEF DeployIInv, ChainStands, chain
  <1>10. FinalizedStays' /\ VerifiedIsReady'
    BY <1>1
    DEF DeployIInv, ChainStands, chain, FinalizedStays, VerifiedIsReady, Ready
  <1>11. Verifying' /\ Creating' /\ Created'
    BY <1>1, <1>3, <1>5, <1>7 DEF Verifying, Creating, Created
  <1> QED
    BY <1>9, <1>10, <1>11 DEF DeployIInv

\* The chain goes on while the command line stands: transactions land, claims
\* are made, blockhashes expire, what happened becomes final.
LEMMA ChainInvariant ==
    ASSUME DeployIInv, NEW landing, Grows(landing),
           scenario' = scenario, cli' = cli, last' = last,
           processed' \in Chain, finalized' \in Chain, FinalizedStays',
           orphans' \in Seq(Transaction),
           \A i \in DOMAIN orphans' : \E k \in DOMAIN orphans :
               orphans'[i] = orphans[k],
           orphans = <<>> => orphans' = <<>>,
           \A t \in landing : \/ tx.status = "sent" /\ t = tx.body
                              \/ \E k \in DOMAIN orphans : t = orphans[k],
           \/ tx' = tx
           \/ /\ tx.status # "none"
              /\ tx' \in [status : Statuses, body : Transaction]
              /\ tx'.body = tx.body
              /\ tx'.status = "expired" => orphans' = <<>>
              /\ tx'.status = "ok" /\ tx.body.kind = "new_distributor" =>
                    processed'.dist[tx.body.version] # NoParams
    PROVE  DeployIInv'
  <1>1. CliOK /\ TypeOK
    BY TypeParts DEF DeployIInv
  <1>2. Handled' = Handled
    BY DEF Handled
  <1>3. CliOK'
    <2>1. CASE tx' = tx
      BY <1>1, <1>2, <2>1 DEF CliOK
    <2>2. CASE /\ tx.status # "none"
               /\ tx' \in [status : Statuses, body : Transaction]
               /\ tx'.body = tx.body
      BY <1>1, <1>2, <2>2 DEF CliOK, Statuses
    <2> QED
      BY <2>1, <2>2
  <1>4. TypeOK'
    BY <1>3, TypeParts DEF DeployIInv
  <1>5. Verifying'
    <2> SUFFICES ASSUME cli.pc # "idle", cli.command = "verify",
                        NEW i \in 1..Handled
                 PROVE  Ready(cli.trees[i], cli.params, cli.skip_verify)'
      BY <1>2 DEF Verifying, Ready
    <2>1. /\ i \in DOMAIN cli.trees
          /\ cli.trees[i] \in Versions
          /\ cli.params \in Terms
          /\ cli.skip_verify \in BOOLEAN
      BY <1>1, Running, ElementOfSeq DEF Command
    <2>2. Ready(cli.trees[i], cli.params, cli.skip_verify)
      BY DEF DeployIInv, Verifying
    <2> QED
      BY <1>1, <2>1, <2>2, ReadyStays DEF Ready
  <1>6. VerifiedIsReady'
    <2> SUFFICES ASSUME last.result = "done", last.command = "verify",
                        NEW i \in DOMAIN last.trees
                 PROVE  Ready(last.trees[i], last.params, last.skip_verify)'
      BY DEF VerifiedIsReady, Ready
    <2>1. /\ last \in Outcome
          /\ Ready(last.trees[i], last.params, last.skip_verify)
      BY <1>1 DEF CliOK, DeployIInv, VerifiedIsReady
    <2>2. last \in OutcomeOf("verify")
      BY <2>1 DEF Outcome, OutcomeOf
    <2>3. /\ last.trees[i] \in Versions
          /\ last.params \in Terms
          /\ last.skip_verify \in BOOLEAN
      BY <2>2, ElementOfSeq, LenProperties DEF OutcomeOf, Arguments
    <2> QED
      BY <1>1, <2>1, <2>3, ReadyStays DEF Ready
  <1>7. Creating'
    <2> SUFFICES ASSUME cli.pc # "idle", cli.command = "new_distributor",
                        ~cli.skip_verify, ~cli.is_error
                 PROVE  /\ \A i \in 1..Handled : Checked(cli.trees[i], cli.params)'
                        /\ tx'.status = "expired" => orphans' = <<>>
                        /\ tx'.status = "ok" =>
                              processed'.dist[Head(cli.queue)] # NoParams
                        /\ cli.pc = "check" =>
                              \/ orphans' = <<>>
                              \/ processed'.dist[Head(cli.queue)] # NoParams
      BY <1>2 DEF Creating, Checked
    <2>1. /\ \A i \in 1..Handled : /\ i \in DOMAIN cli.trees
                                  /\ cli.trees[i] \in Versions
          /\ cli.params \in Params
          /\ cli.queue \in Seq(Versions)
      BY <1>1, Running, ElementOfSeq
    <2>2. tx.status # "none" => /\ tx.body.params = cli.params
                                /\ tx.body.kind = "new_distributor"
                                /\ tx.body.version = Head(cli.queue)
                                /\ cli.queue # <<>>
      BY <1>1 DEF CliOK
    <2>3. cli.pc = "check" => cli.queue # <<>>
      BY <1>1 DEF CliOK
    <2>4. cli.queue # <<>> /\ processed.dist[Head(cli.queue)] # NoParams =>
            processed'.dist[Head(cli.queue)] # NoParams
      BY <2>1, HeadTailProperties DEF Grows
    <2>5. ASSUME NEW i \in 1..Handled
          PROVE  Checked(cli.trees[i], cli.params)'
      <3>1. Checked(cli.trees[i], cli.params)
        BY DEF DeployIInv, Creating
      <3>2. \A t \in landing : \/ t.params = cli.params
                              \/ \E k \in DOMAIN orphans : t = orphans[k]
        BY <2>2
      <3>3. PICK v \in Versions, params \in Params :
               v = cli.trees[i] /\ params = cli.params
        BY <2>1
      <3>4. Checked(v, params)
        BY <3>1, <3>3
      <3>5. \A t \in landing : \/ t.params = params
                              \/ \E k \in DOMAIN orphans : t = orphans[k]
        BY <3>2, <3>3
      <3>6. Checked(v, params)'
        BY <1>1, <3>4, <3>5, CheckedStays
      <3>7. cli'.trees[i] = v /\ cli'.params = params
        BY <3>3
      <3> QED
        BY <3>6, <3>7 DEF Checked
    <2> QED
      BY <2>2, <2>3, <2>4, <2>5 DEF DeployIInv, Creating
  <1>8. Created'
    <2> SUFFICES ASSUME cli.pc = "idle", last.result = "done",
                        last.command = "new_distributor", ~last.skip_verify,
                        NEW i \in DOMAIN last.trees
                 PROVE  Checked(last.trees[i], last.params)'
      BY DEF Created, Checked
    <2>1. /\ last \in Outcome
          /\ tx.status = "none"
          /\ Checked(last.trees[i], last.params)
      BY <1>1 DEF CliOK, DeployIInv, Created
    <2>2. /\ last.trees[i] \in Versions
          /\ last.params \in Params
      <3>1. last \in OutcomeOf("new_distributor")
        BY <2>1 DEF Outcome, OutcomeOf
      <3> QED
        BY <2>1, <3>1, ElementOfSeq, LenProperties DEF OutcomeOf, Arguments
    <2>3. \A t \in landing : \E k \in DOMAIN orphans : t = orphans[k]
      BY <2>1
    <2>4. PICK v \in Versions, params \in Params :
             v = last.trees[i] /\ params = last.params
      BY <2>2
    <2>5. Checked(v, params)
      BY <2>1, <2>4
    <2>6. Checked(v, params)'
      BY <1>1, <2>3, <2>5, CheckedStays
    <2>7. last'.trees[i] = v /\ last'.params = params
      BY <2>4
    <2> QED
      BY <2>6, <2>7 DEF Checked
  <1> QED
    BY <1>4, <1>5, <1>6, <1>7, <1>8 DEF DeployIInv

\* What is in flight: the elements of the queue of orphans.
LEMMA Orphans ==
    ASSUME TypeOK
    PROVE  /\ orphans \in Seq(Transaction)
           /\ Len(orphans) \in Nat
           /\ DOMAIN orphans = 1..Len(orphans)
           /\ \A i \in DOMAIN orphans : orphans[i] \in Transaction
  BY LenProperties, ElementOfSeq DEF TypeOK

\* The transaction at hand lands.
LEMMA LandInvariant ==
    ASSUME DeployIInv, Land
    PROVE  DeployIInv'
  <1>1. /\ TypeOK /\ CliOK /\ tx.status = "sent"
        /\ processed \in Chain /\ finalized \in Chain
        /\ UNCHANGED <<scenario, finalized, cli, orphans, last>>
    BY TypeParts DEF Land, DeployIInv
  <1>2. /\ tx \in [status : Statuses, body : Transaction]
        /\ tx.body \in Transaction
    BY <1>1 DEF CliOK, NoTx
  <1>3. orphans \in Seq(Transaction)
    BY <1>1, Orphans
  <1>4. CASE /\ Succeeds(tx.body, processed)
             /\ processed' = Effect(tx.body, processed)
             /\ tx' = [tx EXCEPT !.status = "ok"]
    <2>1. /\ tx' \in [status : Statuses, body : Transaction]
          /\ tx'.status = "ok" /\ tx'.body = tx.body
      BY <1>2, <1>4 DEF Statuses
    <2>2. /\ processed' \in Chain
          /\ Grows({tx.body})
          /\ tx.body.kind = "new_distributor" =>
                /\ processed'.dist[tx.body.version] = tx.body.params
                /\ tx.body.params # NoParams
      BY <1>1, <1>2, <1>4, EffectGrows, FolderAssumption DEF Transaction
    <2>3. FinalizedStays'
      BY <1>1, <2>2, ReadyStays DEF DeployIInv
    <2> QED
      BY <1>1, <1>3, <2>1, <2>2, <2>3, ChainInvariant
  <1>5. CASE processed' = processed /\ tx' = [tx EXCEPT !.status = "failed"]
    <2>1. /\ tx' \in [status : Statuses, body : Transaction]
          /\ tx'.status = "failed" /\ tx'.body = tx.body
      BY <1>2, <1>5 DEF Statuses
    <2>2. Grows({})
      BY <1>1, <1>5, StandingGrows
    <2>3. FinalizedStays'
      BY <1>1, <1>5, <2>2, ReadyStays DEF DeployIInv
    <2> QED
      BY <1>1, <1>3, <1>5, <2>1, <2>2, <2>3, ChainInvariant
  <1> QED
    BY <1>4, <1>5 DEF Land

\* An orphan lands.
LEMMA LandOrphanInvariant ==
    ASSUME DeployIInv, NEW i \in DOMAIN orphans, LandOrphan(i)
    PROVE  DeployIInv'
  <1>1. /\ TypeOK
        /\ processed \in Chain /\ finalized \in Chain
        /\ UNCHANGED <<scenario, finalized, cli, tx, last>>
    BY TypeParts DEF LandOrphan, DeployIInv
  <1>2. /\ Len(orphans) \in Nat
        /\ DOMAIN orphans = 1..Len(orphans)
        /\ \A k \in DOMAIN orphans : orphans[k] \in Transaction
        /\ Len(orphans) - 1 \in Nat
    BY <1>1, Orphans
  <1>3. orphans' = [k \in 1..(Len(orphans) - 1) |->
                      IF k < i THEN orphans[k] ELSE orphans[k + 1]]
    BY DEF LandOrphan
  <1>4. /\ DOMAIN orphans' = 1..(Len(orphans) - 1)
        /\ \A k \in 1..(Len(orphans) - 1) :
              orphans'[k] \in {orphans[k], orphans[k + 1]}
        /\ \A k \in 1..(Len(orphans) - 1) :
              k \in DOMAIN orphans /\ k + 1 \in DOMAIN orphans
    BY <1>2, <1>3
  <1>5. \A k \in DOMAIN orphans' : \E j \in DOMAIN orphans : orphans'[k] = orphans[j]
    BY <1>4
  <1>6. orphans' \in Seq(Transaction)
    <2>1. orphans' \in [1..(Len(orphans) - 1) -> Transaction]
      BY <1>2, <1>3, <1>4
    <2> QED
      BY <1>2, <2>1
  <1>7. orphans # <<>>
    BY <1>2
  <1>8. CASE /\ Succeeds(orphans[i], processed)
             /\ processed' = Effect(orphans[i], processed)
    <2>1. /\ processed' \in Chain
          /\ Grows({orphans[i]})
      BY <1>1, <1>2, <1>8, EffectGrows
    <2>2. FinalizedStays'
      BY <1>1, <2>1, ReadyStays DEF DeployIInv
    <2> QED
      BY <1>1, <1>5, <1>6, <1>7, <2>1, <2>2, ChainInvariant
  <1>9. CASE processed' = processed
    <2>1. Grows({})
      BY <1>1, <1>9, StandingGrows
    <2>2. FinalizedStays'
      BY <1>1, <1>9, <2>1, ReadyStays DEF DeployIInv
    <2> QED
      BY <1>1, <1>5, <1>6, <1>7, <1>9, <2>1, <2>2, ChainInvariant
  <1> QED
    BY <1>8, <1>9 DEF LandOrphan

\* A blockhash expires: the oldest orphan's first, the transaction's at hand
\* only when there is no orphan left.
LEMMA ExpireInvariant ==
    ASSUME DeployIInv, Expire
    PROVE  DeployIInv'
  <1>1. /\ TypeOK /\ CliOK
        /\ processed \in Chain /\ finalized \in Chain
        /\ UNCHANGED <<scenario, processed, finalized, cli, last>>
    BY TypeParts DEF Expire, DeployIInv, chain
  <1>2. /\ orphans \in Seq(Transaction)
        /\ Len(orphans) \in Nat
        /\ DOMAIN orphans = 1..Len(orphans)
    BY <1>1, Orphans
  <1>3. Grows({}) /\ FinalizedStays'
    <2>1. Grows({})
      BY <1>1, StandingGrows
    <2> QED
      BY <1>1, <2>1, ReadyStays DEF DeployIInv
  <1>4. CASE orphans # <<>> /\ orphans' = Tail(orphans) /\ tx' = tx
    <2>1. /\ orphans' \in Seq(Transaction)
          /\ Len(orphans') = Len(orphans) - 1
          /\ \A k \in 1..Len(orphans') : orphans'[k] = orphans[k + 1]
          /\ DOMAIN orphans' = 1..Len(orphans')
      BY <1>2, <1>4, HeadTailProperties, LenProperties
    <2>2. \A k \in DOMAIN orphans' : k + 1 \in DOMAIN orphans
      BY <1>2, <2>1
    <2>3. \A k \in DOMAIN orphans' :
             \E j \in DOMAIN orphans : orphans'[k] = orphans[j]
      BY <2>1, <2>2
    <2> QED
      BY <1>1, <1>3, <1>4, <2>1, <2>3, ChainInvariant
  <1>5. CASE /\ orphans = <<>> /\ orphans' = orphans
             /\ tx.status \in {"signed", "sent", "failed"}
             /\ tx' = [tx EXCEPT !.status = "expired"]
    <2>1. tx \in [status : Statuses, body : Transaction]
      BY <1>1, <1>5 DEF CliOK, NoTx
    <2>2. /\ tx' \in [status : Statuses, body : Transaction]
          /\ tx'.status = "expired" /\ tx'.body = tx.body
          /\ tx.status # "none"
      BY <1>5, <2>1 DEF Statuses
    <2> QED
      BY <1>1, <1>2, <1>3, <1>5, <2>2, ChainInvariant
  <1> QED
    BY <1>4, <1>5 DEF Expire

\* What was processed becomes final; a token is claimed.
LEMMA OtherInvariant ==
    ASSUME DeployIInv, Finalize \/ \E v \in Versions : Claim(v)
    PROVE  DeployIInv'
  <1>1. /\ TypeOK
        /\ processed \in Chain /\ finalized \in Chain
        /\ orphans \in Seq(Transaction)
        /\ UNCHANGED <<scenario, cli, tx, orphans, last>>
    BY TypeParts, Orphans DEF Finalize, Claim, DeployIInv
  <1>2. CASE Finalize
    <2>1. processed' = processed /\ finalized' = processed
      BY <1>2 DEF Finalize
    <2>2. Grows({})
      BY <1>1, <2>1, StandingGrows
    <2>3. FinalizedStays'
      BY <1>1, <2>1 DEF FinalizedStays, Chain
    <2> QED
      BY <1>1, <2>1, <2>2, <2>3, ChainInvariant
  <1>3. ASSUME NEW v \in Versions, Claim(v)
        PROVE  DeployIInv'
    <2>1. /\ processed' \in Chain /\ Grows({})
          /\ finalized' = finalized
      BY <1>1, <1>3, ClaimGrows DEF Claim
    <2>2. FinalizedStays'
      BY <1>1, <2>1, ReadyStays DEF DeployIInv
    <2> QED
      BY <1>1, <2>1, <2>2, ChainInvariant
  <1> QED
    BY <1>2, <1>3

-----------------------------------------------------------------------------
(* The theorems. *)

\* The empty chain satisfies the invariant.
LEMMA InitInvariant ==
    ASSUME Init
    PROVE  DeployIInv
  <1> USE DEF Init
  <1>1. EmptyChain \in Chain
    BY FolderAssumption, OperatorAssumption DEF EmptyChain, Chain
  <1>2. /\ cli.pc = "idle" /\ tx.status = "none" /\ last.result = "none"
        /\ orphans \in Seq(Transaction)
    BY DEF Idle, NoTx
  <1>3. TypeOK
    BY <1>1, <1>2 DEF TypeOK
  <1>4. FinalizedStays
    BY <1>1 DEF FinalizedStays, Chain
  <1> QED
    BY <1>2, <1>3, <1>4
    DEF DeployIInv, Verifying, VerifiedIsReady, Creating, Created

\* Every step keeps the invariant.
LEMMA NextInvariant ==
    ASSUME DeployIInv, [Next]_vars
    PROVE  DeployIInv'
  <1>1. /\ CliOK /\ TypeOK
        /\ scenario \in Scenario
    BY TypeParts, FolderAssumption DEF DeployIInv
  <1>2. ASSUME NEW params \in scenario.params, NEW skip_verify \in BOOLEAN,
               NEW trees \in Selections,
               \/ Start("new_distributor", params, skip_verify, trees)
               \/ Start("verify", params.terms, skip_verify, trees)
        PROVE  DeployIInv'
    <2>1. /\ scenario.params \subseteq Params
          /\ scenario.folder \in Seq(Versions)
      BY <1>1 DEF Scenario
    <2>2. ASSUME NEW w \in ToSet(scenario.folder)
          PROVE  <<w>> \in Seq(Versions)
      <3>1. w \in Versions
        BY <2>1, ElementOfSeq, LenProperties DEF ToSet
      <3> QED
        BY <3>1
    <2>3. trees \in Seq(Versions)
      BY <2>1, <2>2 DEF Selections
    <2>4. params \in Params /\ params.terms \in Terms
      BY <2>1 DEF Params
    <2>5. CASE Start("new_distributor", params, skip_verify, trees)
      BY <2>3, <2>4, <2>5, StartInvariant DEF Arguments
    <2>6. CASE Start("verify", params.terms, skip_verify, trees)
      BY <2>3, <2>4, <2>6, StartInvariant DEF Arguments
    <2> QED
      BY <1>2, <2>5, <2>6
  <1>3. CASE Start("fund_all", NoParams, FALSE, scenario.folder)
    <2>1. scenario.folder \in Seq(Versions)
      BY <1>1 DEF Scenario
    <2> QED
      BY <1>3, <2>1, StartInvariant DEF Arguments
  <1>4. CASE CliStep
    BY <1>4, InspectInvariant, SimulateInvariant, SendingInvariant, CheckInvariant
    DEF CliStep
  <1>5. CASE Interrupt
    BY <1>5, PanicKeeps DEF Interrupt, ChainStands
  <1>6. CASE Land \/ (\E i \in DOMAIN orphans : LandOrphan(i)) \/ Expire
    BY <1>6, LandInvariant, LandOrphanInvariant, ExpireInvariant
  <1>7. CASE Finalize \/ \E v \in Versions : Claim(v)
    BY <1>7, OtherInvariant
  <1>8. CASE UNCHANGED vars
    <2>1. Grows({})
      BY <1>1, <1>8, StandingGrows DEF TypeOK, vars, chain
    <2> QED
      BY <1>1, <1>8, <2>1, ChainInvariant, ReadyStays, Orphans
      DEF DeployIInv, TypeOK, vars, chain
  <1> QED
    BY <1>2, <1>3, <1>4, <1>5, <1>6, <1>7, <1>8 DEF Next

\* The invariant holds throughout, and with it the command line's records and
\* the chain are well formed.
THEOREM DeployInvariance == Spec => []DeployIInv
  <1>1. Init => DeployIInv
    BY InitInvariant
  <1>2. DeployIInv /\ [Next]_vars => DeployIInv'
    BY NextInvariant
  <1> QED
    BY <1>1, <1>2, PTL DEF Spec

\* The command line never loses its place: every record is well formed, and it
\* holds a transaction, that of the tree at hand, exactly while it sends it.
THEOREM TypeCorrect == Spec => []TypeOK
  <1>1. DeployIInv => TypeOK
    BY DEF DeployIInv
  <1> QED
    BY <1>1, DeployInvariance, PTL

\* What verify has approved is there and stays there: the distributor with the
\* given terms and, but for what was claimed, the whole amount.
THEOREM VerifyIsRight == Spec => []VerifiedIsReady
  <1>1. DeployIInv => VerifiedIsReady
    BY DEF DeployIInv
  <1> QED
    BY <1>1, DeployInvariance, PTL

\* new-distributor's second look at the chain suffices: when it ends well, no
\* tree has a distributor with other parameters, nor gets one from a
\* transaction that an earlier command has left in flight.
THEOREM NewDistributorIsRight == Spec => []ParametersChecked
  <1>1. DeployIInv => ParametersChecked
    BY DEF DeployIInv, Created, Checked, ParametersChecked
  <1> QED
    BY <1>1, DeployInvariance, PTL

-----------------------------------------------------------------------------
(* fund-all pays for a vault again only after claims. *)

\* A claim is never undone.
ClaimedStays == \A v \in Versions : finalized.claimed[v] <= processed.claimed[v]

Funding(t, v) == t.kind = "fund_all" /\ t.version = v
NoneInFlight(v) == \A i \in DOMAIN orphans : ~Funding(orphans[i], v)
Unpaid(v) == processed.claimed[v] = 0 => processed.vault[v] = 0

\* Before the first claim a vault holds nothing or the whole amount.
Whole ==
    \A v \in Versions :
        processed.claimed[v] = 0 => processed.vault[v] \in {0, MaxTotalClaim[v]}

\* There is one payment for a vault in flight at most, and none for one that
\* was paid for.
InFlightUnpaid ==
    \A i \in DOMAIN orphans :
        orphans[i].kind = "fund_all" => Unpaid(orphans[i].version)
InFlightOnce ==
    \A i, j \in DOMAIN orphans :
        i # j /\ orphans[i].kind = "fund_all" =>
            ~Funding(orphans[j], orphans[i].version)
OwnUnpaid ==
    tx.status \in {"signed", "sent"} /\ tx.body.kind = "fund_all" =>
        Unpaid(tx.body.version) /\ NoneInFlight(tx.body.version)

\* For the vaults that fund-all has not come to, nothing was paid since it
\* started: what it reads at finalized is what is there.
Untouched(v) ==
    /\ NoneInFlight(v)
    /\ processed.vault[v] + processed.claimed[v]
         = finalized.vault[v] + finalized.claimed[v]
Ahead ==
    cli.pc # "idle" /\ cli.command = "fund_all" =>
        /\ ~cli.skip_verify
        /\ IsInjective(cli.trees)
        /\ \A j \in DOMAIN cli.queue :
              (j = 1 => tx.status = "none") => Untouched(cli.queue[j])

OncePaid ==
    /\ Whole
    /\ InFlightUnpaid
    /\ InFlightOnce
    /\ OwnUnpaid
    /\ Ahead

PayInv == scenario.patient /\ ~retried => OncePaid

\* What a transaction does to a vault and to what was claimed from it.
LEMMA EffectPays ==
    ASSUME processed \in Chain, NEW t \in Transaction,
           Succeeds(t, processed), processed' = Effect(t, processed),
           NEW v \in Versions
    PROVE  /\ processed'.claimed[v] = processed.claimed[v]
           /\ processed'.vault[v] = IF Funding(t, v)
                                    THEN processed.vault[v] + MaxTotalClaim[v]
                                    ELSE processed.vault[v]
  <1> USE FolderAssumption DEF Chain, Transaction
  <1>1. CASE t.kind = "new_distributor"
    <2> DEFINE dist == [processed.dist EXCEPT ![t.version] = t.params]
    <2>1. processed' = [processed EXCEPT !.dist = dist]
      BY <1>1 DEF Effect
    <2> HIDE DEF dist
    <2> QED
      BY <1>1, <2>1 DEF Funding
  <1>2. CASE t.kind = "fund_all"
    <2> DEFINE w == t.version
               vault == [processed.vault EXCEPT ![w] = @ + MaxTotalClaim[w]]
               wallet == processed.wallet - MaxTotalClaim[w]
    <2>1. processed' = [processed EXCEPT !.vault = vault, !.wallet = wallet]
      BY <1>2 DEF Effect
    <2>2. vault[v] = IF w = v THEN processed.vault[v] + MaxTotalClaim[v]
                              ELSE processed.vault[v]
      OBVIOUS
    <2> HIDE DEF vault, wallet
    <2>3. processed'.vault = vault /\ processed'.claimed = processed.claimed
      BY <2>1
    <2> QED
      BY <1>2, <2>2, <2>3 DEF Funding
  <1> QED
    BY <1>1, <1>2

LEMMA ClaimPays ==
    ASSUME processed \in Chain, NEW w \in Versions, Claim(w), NEW v \in Versions
    PROVE  /\ processed'.vault[v] + processed'.claimed[v]
                = processed.vault[v] + processed.claimed[v]
           /\ \/ processed'.claimed[v] = processed.claimed[v] + 1
              \/ /\ processed'.claimed[v] = processed.claimed[v]
                 /\ processed'.vault[v] = processed.vault[v]
  <1> USE DEF Chain
  <1> DEFINE vault == [processed.vault EXCEPT ![w] = @ - 1]
             claimed == [processed.claimed EXCEPT ![w] = @ + 1]
  <1>1. /\ processed' = [processed EXCEPT !.vault = vault, !.claimed = claimed]
        /\ processed.vault[w] > 0
    BY DEF Claim
  <1>2. /\ vault[v] + claimed[v] = processed.vault[v] + processed.claimed[v]
        /\ \/ claimed[v] = processed.claimed[v] + 1
           \/ claimed[v] = processed.claimed[v] /\ vault[v] = processed.vault[v]
    BY <1>1
  <1> HIDE DEF vault, claimed
  <1>3. processed'.vault = vault /\ processed'.claimed = claimed
    BY <1>1
  <1> QED
    BY <1>2, <1>3

\* Fewer transactions in flight.
LEMMA FewerInFlight ==
    ASSUME NEW g,
           \A k \in DOMAIN orphans' :
              g[k] \in DOMAIN orphans /\ orphans'[k] = orphans[g[k]],
           \A j, k \in DOMAIN orphans' : j # k => g[j] # g[k]
    PROVE  /\ \A v : NoneInFlight(v) => NoneInFlight(v)'
           /\ InFlightOnce => InFlightOnce'
  <1>1. ASSUME NEW v, NoneInFlight(v) PROVE NoneInFlight(v)'
    BY <1>1 DEF NoneInFlight, Funding
  <1>2. ASSUME InFlightOnce PROVE InFlightOnce'
    BY <1>2 DEF InFlightOnce, Funding
  <1> QED
    BY <1>1, <1>2

\* The queue of fund-all names no version twice.
LEMMA QueueApart ==
    ASSUME CliOK, cli.pc # "idle", IsInjective(cli.trees),
           NEW i \in DOMAIN cli.queue, NEW j \in DOMAIN cli.queue, i # j
    PROVE  cli.queue[i] # cli.queue[j]
  <1>1. /\ Len(cli.trees) \in Nat /\ Len(cli.queue) \in Nat
        /\ DOMAIN cli.queue = 1..Len(cli.queue)
        /\ DOMAIN cli.trees = 1..Len(cli.trees)
        /\ Handled \in Nat
        /\ Handled + Len(cli.queue) = Len(cli.trees)
    BY Running
  <1>2. /\ cli.queue[i] = cli.trees[Handled + i]
        /\ cli.queue[j] = cli.trees[Handled + j]
    BY DEF CliOK
  <1>3. /\ Handled + i \in DOMAIN cli.trees /\ Handled + j \in DOMAIN cli.trees
        /\ Handled + i # Handled + j
    BY <1>1
  <1> QED
    BY <1>2, <1>3 DEF IsInjective

\* fund-all's transaction is for the vault at hand.
LEMMA OwnIsHead ==
    ASSUME CliOK, tx.status # "none"
    PROVE  /\ cli.pc # "idle" /\ 1 \in DOMAIN cli.queue
           /\ tx.body.version = cli.queue[1] /\ tx.body.kind = cli.command
           /\ cli.queue[1] \in Versions
  <1>1. cli.pc # "idle" /\ cli.queue # <<>>
    BY DEF CliOK
  <1>2. /\ cli.queue \in Seq(Versions) /\ DOMAIN cli.queue = 1..Len(cli.queue)
        /\ Len(cli.queue) \in Nat
    BY <1>1, Running
  <1>3. /\ 1 \in DOMAIN cli.queue /\ Head(cli.queue) = cli.queue[1]
        /\ cli.queue[1] \in Versions
    <2>1. Len(cli.queue) # 0
      BY <1>1, <1>2, EmptySeq
    <2>2. 1 \in DOMAIN cli.queue
      BY <1>2, <2>1
    <2> QED
      BY <1>1, <1>2, <2>2, ElementOfSeq
  <1> QED
    BY <1>1, <1>3 DEF CliOK

\* What the chain may do to a vault while the command line stands: nothing but
\* claims, or a payment that was in flight and was the only one.
Calm(v) ==
    /\ processed'.vault[v] + processed'.claimed[v]
         = processed.vault[v] + processed.claimed[v]
    /\ processed'.claimed[v] = 0 => /\ processed.claimed[v] = 0
                                    /\ processed'.vault[v] = processed.vault[v]
PaysFor(v) ==
    /\ processed'.vault[v] = processed.vault[v] + MaxTotalClaim[v]
    /\ processed'.claimed[v] = processed.claimed[v]
    /\ Unpaid(v)
    /\ NoneInFlight(v)'
    /\ ~(tx'.status \in {"signed", "sent"} /\ Funding(tx.body, v))
    /\ cli.pc # "idle" /\ cli.command = "fund_all" =>
          \A j \in DOMAIN cli.queue :
             (j = 1 => tx.status = "none") => cli.queue[j] # v

LEMMA ChainPays ==
    ASSUME TypeOK, TypeOK', OncePaid, cli' = cli,
           \A v \in Versions : Calm(v) \/ PaysFor(v),
           finalized' = finalized \/ finalized' = processed',
           \/ tx' = tx
           \/ tx'.status \notin {"none", "signed", "sent"} /\ tx.status # "none",
           NEW g,
           \A k \in DOMAIN orphans' :
              g[k] \in DOMAIN orphans /\ orphans'[k] = orphans[g[k]],
           \A j, k \in DOMAIN orphans' : j # k => g[j] # g[k]
    PROVE  OncePaid'
  <1> USE DEF OncePaid
  <1>1. ASSUME NEW v \in Versions
        PROVE  /\ processed.vault[v] \in Nat /\ processed.claimed[v] \in Nat
               /\ processed'.vault[v] \in Nat /\ processed'.claimed[v] \in Nat
               /\ finalized.vault[v] \in Nat /\ finalized.claimed[v] \in Nat
               /\ MaxTotalClaim[v] \in Nat
    BY FolderAssumption DEF TypeOK, Chain
  <1>2. /\ \A v : NoneInFlight(v) => NoneInFlight(v)'
        /\ InFlightOnce'
    BY FewerInFlight
  <1>3. \A i \in DOMAIN orphans : orphans[i] \in Transaction
    BY LenProperties, ElementOfSeq DEF TypeOK
  <1>4. Whole'
    <2> SUFFICES ASSUME NEW v \in Versions, processed'.claimed[v] = 0
                 PROVE  processed'.vault[v] \in {0, MaxTotalClaim[v]}
      BY DEF Whole
    <2>1. CASE Calm(v)
      BY <2>1 DEF Calm, Whole
    <2>2. CASE PaysFor(v)
      BY <1>1, <2>2 DEF PaysFor, Unpaid
    <2> QED
      BY <2>1, <2>2
  <1>5. ASSUME NEW v \in Versions, Unpaid(v), Calm(v)
        PROVE  Unpaid(v)'
    BY <1>5 DEF Unpaid, Calm
  <1>6. InFlightUnpaid'
    <2> SUFFICES ASSUME NEW i \in DOMAIN orphans', NEW t, t = orphans'[i],
                        t.kind = "fund_all"
                 PROVE  Unpaid(t.version)'
      BY DEF InFlightUnpaid, Unpaid
    <2>2. /\ t.kind = "fund_all" /\ t.version \in Versions
          /\ Unpaid(t.version)
      BY <1>3 DEF InFlightUnpaid, Transaction
    <2>3. ~PaysFor(t.version)
      BY <2>2 DEF PaysFor, NoneInFlight, Funding
    <2> QED
      BY <1>5, <2>2, <2>3
  <1>7. OwnUnpaid'
    <2> SUFFICES ASSUME tx' = tx, tx.status \in {"signed", "sent"},
                        tx.body.kind = "fund_all"
                 PROVE  Unpaid(tx.body.version)' /\ NoneInFlight(tx.body.version)'
      BY DEF OwnUnpaid, Unpaid, NoneInFlight
    <2>1. PICK v : v = tx.body.version
      OBVIOUS
    <2>2. v \in Versions /\ Unpaid(v) /\ NoneInFlight(v)
      BY <2>1 DEF OwnUnpaid, TypeOK, NoTx, Transaction
    <2>3. Calm(v)
      BY <2>1, <2>2 DEF PaysFor, Funding
    <2>4. Unpaid(v)' /\ NoneInFlight(v)'
      BY <1>2, <1>5, <2>2, <2>3
    <2> QED
      BY <2>1, <2>4 DEF Unpaid, NoneInFlight
  <1>8. Ahead'
    <2> SUFFICES ASSUME cli.pc # "idle", cli.command = "fund_all",
                        NEW j \in DOMAIN cli.queue, j = 1 => tx.status = "none"
                 PROVE  Untouched(cli.queue[j])'
      BY DEF Ahead, Untouched, NoneInFlight
    <2>1. PICK v : v = cli.queue[j]
      OBVIOUS
    <2>2. Untouched(v) /\ ~PaysFor(v)
      BY <2>1 DEF Ahead, PaysFor
    <2>3. v \in Versions
      BY <2>1, Running, TypeParts, ElementOfSeq
    <2>4. Calm(v) /\ NoneInFlight(v)'
      BY <1>2, <2>2, <2>3 DEF Untouched
    <2>5. Untouched(v)'
      BY <2>2, <2>4 DEF Untouched, Calm
    <2> QED
      BY <2>1, <2>5 DEF Untouched, NoneInFlight
  <1> QED
    BY <1>2, <1>4, <1>6, <1>7, <1>8

\* A transaction that lands pays for one vault at most.
LEMMA LandingPays ==
    ASSUME processed \in Chain, NEW t \in Transaction, Succeeds(t, processed),
           processed' = Effect(t, processed), NEW v \in Versions,
           Funding(t, v) =>
              /\ Unpaid(v)
              /\ NoneInFlight(v)'
              /\ ~(tx'.status \in {"signed", "sent"} /\ Funding(tx.body, v))
              /\ cli.pc # "idle" /\ cli.command = "fund_all" =>
                    \A j \in DOMAIN cli.queue :
                       (j = 1 => tx.status = "none") => cli.queue[j] # v
    PROVE  Calm(v) \/ PaysFor(v)
  <1>1. /\ processed'.claimed[v] = processed.claimed[v]
        /\ processed'.vault[v] = IF Funding(t, v)
                                 THEN processed.vault[v] + MaxTotalClaim[v]
                                 ELSE processed.vault[v]
    BY EffectPays
  <1>2. CASE Funding(t, v)
    BY <1>1, <1>2 DEF PaysFor
  <1>3. CASE ~Funding(t, v)
    BY <1>1, <1>3 DEF Calm
  <1> QED
    BY <1>2, <1>3

LEMMA StandingPays ==
    ASSUME processed' = processed, NEW v \in Versions
    PROVE  Calm(v)
  BY DEF Calm

\* fund-all's own transaction lands.
LEMMA LandPays ==
    ASSUME TypeOK, TypeOK', OncePaid, Land
    PROVE  OncePaid'
  <1>1. /\ CliOK /\ processed \in Chain
        /\ tx.status = "sent" /\ tx.body \in Transaction
        /\ tx \in [status : Statuses, body : Transaction]
        /\ cli' = cli /\ finalized' = finalized /\ orphans' = orphans
    BY TypeParts DEF Land, CliOK, NoTx
  <1>2. /\ tx'.status \in {"ok", "failed"}
        /\ \/ /\ Succeeds(tx.body, processed)
              /\ processed' = Effect(tx.body, processed)
           \/ processed' = processed
    BY <1>1 DEF Land
  <1>3. ASSUME NEW v \in Versions
        PROVE  Calm(v) \/ PaysFor(v)
    <2>1. CASE processed' = processed
      BY <2>1, StandingPays
    <2>2. CASE /\ Succeeds(tx.body, processed)
               /\ processed' = Effect(tx.body, processed)
      <3>1. ASSUME Funding(tx.body, v)
            PROVE  Unpaid(v) /\ NoneInFlight(v)'
        BY <1>1, <3>1 DEF OncePaid, OwnUnpaid, Funding, NoneInFlight
      <3>2. ASSUME Funding(tx.body, v), cli.pc # "idle", cli.command = "fund_all",
                   NEW j \in DOMAIN cli.queue, j = 1 => tx.status = "none"
            PROVE  cli.queue[j] # v
        <4>1. 1 \in DOMAIN cli.queue /\ cli.queue[1] = v
          BY <1>1, <3>2, OwnIsHead DEF Funding
        <4>2. IsInjective(cli.trees) /\ j # 1
          BY <1>1, <3>2 DEF OncePaid, Ahead
        <4> QED
          BY <1>1, <3>2, <4>1, <4>2, QueueApart
      <3> QED
        BY <1>1, <1>2, <2>2, <3>1, <3>2, LandingPays
    <2> QED
      BY <1>2, <2>1, <2>2
  <1>4. PICK g : g = [k \in DOMAIN orphans |-> k]
    OBVIOUS
  <1> QED
    BY <1>1, <1>2, <1>3, <1>4, ChainPays

\* One that a command has left in flight lands.
LEMMA LandOrphanPays ==
    ASSUME TypeOK, TypeOK', OncePaid, NEW i \in DOMAIN orphans, LandOrphan(i)
    PROVE  OncePaid'
  <1>1. /\ CliOK /\ processed \in Chain
        /\ tx' = tx /\ cli' = cli /\ finalized' = finalized
        /\ Len(orphans) \in Nat /\ DOMAIN orphans = 1..Len(orphans)
        /\ \A k \in DOMAIN orphans : orphans[k] \in Transaction
        /\ orphans' = [k \in 1..(Len(orphans) - 1) |->
                         IF k < i THEN orphans[k] ELSE orphans[k + 1]]
    BY TypeParts, Orphans DEF LandOrphan
  <1>2. PICK g : g = [k \in 1..(Len(orphans) - 1) |-> IF k < i THEN k ELSE k + 1]
    OBVIOUS
  <1>3. /\ DOMAIN orphans' = 1..(Len(orphans) - 1)
        /\ \A k \in DOMAIN orphans' :
              /\ g[k] \in DOMAIN orphans /\ g[k] # i
              /\ orphans'[k] = orphans[g[k]]
        /\ \A j, k \in DOMAIN orphans' : j # k => g[j] # g[k]
    BY <1>1, <1>2
  <1>4. PICK t \in Transaction : t = orphans[i]
    BY <1>1
  <1>5. ASSUME NEW v \in Versions
        PROVE  Calm(v) \/ PaysFor(v)
    <2>1. CASE processed' = processed
      BY <2>1, StandingPays
    <2>2. CASE Succeeds(t, processed) /\ processed' = Effect(t, processed)
      <3>1. ASSUME Funding(t, v)
            PROVE  /\ Unpaid(v)
                   /\ NoneInFlight(v)'
                   /\ ~NoneInFlight(v)
        <4>1. Unpaid(v)
          BY <1>4, <3>1 DEF OncePaid, InFlightUnpaid, Funding
        <4>2. \A j \in DOMAIN orphans : j # i => ~Funding(orphans[j], v)
          BY <1>4, <3>1 DEF OncePaid, InFlightOnce, Funding
        <4>3. NoneInFlight(v)'
          BY <1>3, <4>2 DEF NoneInFlight, Funding
        <4>4. ~NoneInFlight(v)
          BY <1>4, <3>1 DEF NoneInFlight
        <4> QED
          BY <4>1, <4>3, <4>4
      <3>2. ASSUME Funding(t, v)
            PROVE  ~(tx'.status \in {"signed", "sent"} /\ Funding(tx.body, v))
        BY <1>1, <3>1, <3>2 DEF OncePaid, OwnUnpaid, Funding
      <3>3. ASSUME Funding(t, v), cli.pc # "idle", cli.command = "fund_all",
                   NEW j \in DOMAIN cli.queue, j = 1 => tx.status = "none"
            PROVE  cli.queue[j] # v
        BY <3>1, <3>3 DEF OncePaid, Ahead, Untouched
      <3> QED
        BY <1>1, <2>2, <3>1, <3>2, <3>3, LandingPays
    <2> QED
      BY <1>4, <2>1, <2>2 DEF LandOrphan
  <1>6. /\ tx' = tx /\ cli' = cli /\ finalized' = finalized
        /\ \A k \in DOMAIN orphans' :
              g[k] \in DOMAIN orphans /\ orphans'[k] = orphans[g[k]]
        /\ \A j, k \in DOMAIN orphans' : j # k => g[j] # g[k]
    BY <1>1, <1>3
  <1> QED
    BY <1>5, <1>6, ChainPays

\* A blockhash expires.
LEMMA ExpirePays ==
    ASSUME TypeOK, TypeOK', OncePaid, Expire
    PROVE  OncePaid'
  <1>1. /\ CliOK /\ processed' = processed /\ finalized' = finalized /\ cli' = cli
        /\ orphans \in Seq(Transaction)
        /\ Len(orphans) \in Nat /\ DOMAIN orphans = 1..Len(orphans)
    BY TypeParts, Orphans DEF Expire, chain
  <1>2. \A v \in Versions : Calm(v) \/ PaysFor(v)
    BY <1>1, StandingPays
  <1>3. CASE orphans # <<>> /\ orphans' = Tail(orphans) /\ tx' = tx
    <2>1. /\ Len(orphans') = Len(orphans) - 1
          /\ \A k \in 1..Len(orphans') : orphans'[k] = orphans[k + 1]
          /\ DOMAIN orphans' = 1..Len(orphans')
      BY <1>1, <1>3, HeadTailProperties, LenProperties
    <2>2. PICK g : g = [k \in DOMAIN orphans' |-> k + 1]
      OBVIOUS
    <2>3. \A k \in DOMAIN orphans' :
             g[k] \in DOMAIN orphans /\ orphans'[k] = orphans[g[k]]
      BY <1>1, <2>1, <2>2
    <2>4. \A j, k \in DOMAIN orphans' : j # k => g[j] # g[k]
      BY <1>1, <2>1, <2>2
    <2> QED
      BY <1>1, <1>2, <1>3, <2>3, <2>4, ChainPays
  <1>4. CASE /\ orphans' = orphans
             /\ tx.status \in {"signed", "sent", "failed"}
             /\ tx' = [tx EXCEPT !.status = "expired"]
    <2>1. tx \in [status : Statuses, body : Transaction]
      BY <1>1, <1>4 DEF CliOK, NoTx
    <2>2. tx'.status = "expired"
      BY <1>4, <2>1
    <2>3. PICK g : g = [k \in DOMAIN orphans |-> k]
      OBVIOUS
    <2> QED
      BY <1>1, <1>2, <1>4, <2>2, <2>3, ChainPays
  <1> QED
    BY <1>3, <1>4 DEF Expire

\* What was processed becomes final; a token is claimed.
LEMMA OtherPays ==
    ASSUME TypeOK, TypeOK', OncePaid, Finalize \/ \E w \in Versions : Claim(w)
    PROVE  OncePaid'
  <1>1. /\ UNCHANGED <<cli, tx, orphans>>
        /\ processed \in Chain
        /\ finalized' = finalized \/ finalized' = processed'
    BY DEF Finalize, Claim, TypeOK
  <1>2. CASE Finalize
    <2>1. \A v \in Versions : Calm(v) \/ PaysFor(v)
      BY <1>2, StandingPays DEF Finalize
    <2>2. PICK g : g = [k \in DOMAIN orphans |-> k]
      OBVIOUS
    <2> QED
      BY <1>1, <2>1, <2>2, ChainPays
  <1>3. ASSUME NEW w \in Versions, Claim(w)
        PROVE  OncePaid'
    <2>1. ASSUME NEW v \in Versions
          PROVE  Calm(v)
      <3>1. processed.claimed[v] \in Nat
        BY <1>1 DEF Chain
      <3> QED
        BY <1>1, <1>3, <3>1, ClaimPays DEF Calm
    <2>2. PICK g : g = [k \in DOMAIN orphans |-> k]
      OBVIOUS
    <2> QED
      BY <1>1, <2>1, <2>2, ChainPays
  <1> QED
    BY <1>2, <1>3

\* The command line gives its transaction up: one that pays for a vault stays
\* in flight only if it was sent.
GivesUp ==
    /\ tx' = NoTx
    /\ \/ orphans' = orphans
       \/ /\ orphans' = Append(orphans, tx.body)
          /\ tx.status # "none"
          /\ tx.body.kind = "fund_all" => tx.status = "sent"

LEMMA InFlightGivesUp ==
    ASSUME tx' = NoTx, orphans' = InFlight
    PROVE  GivesUp
  BY DEF InFlight, GivesUp

LEMMA GivingUpPays ==
    ASSUME CliOK, ChainStands, OncePaid, GivesUp
    PROVE  /\ Whole' /\ InFlightUnpaid' /\ InFlightOnce' /\ OwnUnpaid'
           /\ \A v : NoneInFlight(v) /\ (tx.status = "none" \/ ~Funding(tx.body, v)) =>
                        NoneInFlight(v)'
  <1>1. /\ processed' = processed /\ finalized' = finalized
        /\ tx'.status = "none"
    BY DEF ChainStands, chain, GivesUp, NoTx
  <1>2. /\ orphans \in Seq(Transaction)
        /\ Len(orphans) \in Nat /\ DOMAIN orphans = 1..Len(orphans)
    BY LenProperties DEF CliOK
  <1>3. Whole' /\ OwnUnpaid'
    BY <1>1 DEF OncePaid, Whole, OwnUnpaid
  <1>4. CASE orphans' = orphans
    BY <1>1, <1>3, <1>4 DEF OncePaid, InFlightUnpaid, InFlightOnce, NoneInFlight, Unpaid
  <1>5. CASE /\ orphans' = Append(orphans, tx.body)
             /\ tx.status # "none"
             /\ tx.body.kind = "fund_all" => tx.status = "sent"
    <2>1. PICK t \in Transaction : t = tx.body
      BY <1>5 DEF CliOK, NoTx
    <2>2. PICK n \in Nat : n = Len(orphans) + 1
      BY <1>2
    <2>3. /\ DOMAIN orphans' = 1..n
          /\ orphans'[n] = t
          /\ \A k \in 1..n : k # n => k \in DOMAIN orphans /\ orphans'[k] = orphans[k]
      BY <1>2, <1>5, <2>1, <2>2, AppendProperties
    <2>4. t.kind = "fund_all" => Unpaid(t.version) /\ NoneInFlight(t.version)
      BY <1>5, <2>1 DEF OncePaid, OwnUnpaid
    <2>5. InFlightUnpaid'
      <3> SUFFICES ASSUME NEW k \in 1..n, orphans'[k].kind = "fund_all"
                   PROVE  Unpaid(orphans'[k].version)
        BY <1>1, <2>3 DEF InFlightUnpaid, Unpaid
      <3> QED
        BY <2>3, <2>4 DEF OncePaid, InFlightUnpaid
    <2>6. InFlightOnce'
      <3> SUFFICES ASSUME NEW j \in 1..n, NEW k \in 1..n, j # k,
                          orphans'[j].kind = "fund_all"
                   PROVE  ~Funding(orphans'[k], orphans'[j].version)
        BY <2>3 DEF InFlightOnce, Funding
      <3>1. CASE j # n /\ k # n
        BY <2>3, <3>1 DEF OncePaid, InFlightOnce
      <3>2. CASE j = n
        BY <2>3, <2>4, <3>2 DEF NoneInFlight
      <3>3. CASE k = n
        BY <2>3, <2>4, <3>3 DEF NoneInFlight, Funding
      <3> QED
        BY <3>1, <3>2, <3>3
    <2>7. ASSUME NEW v, NoneInFlight(v), ~Funding(tx.body, v)
          PROVE  NoneInFlight(v)'
      <3>1. ASSUME NEW k \in 1..n
            PROVE  ~Funding(orphans'[k], v)
        BY <2>1, <2>3, <2>7 DEF NoneInFlight
      <3> QED
        BY <2>3, <3>1 DEF NoneInFlight, Funding
    <2> QED
      BY <1>3, <1>5, <2>5, <2>6, <2>7
  <1> QED
    BY <1>4, <1>5 DEF GivesUp

\* On to the next tree, on to another command, or to an end.
LEMMA MovingOnPays ==
    ASSUME CliOK, ChainStands, OncePaid, GivesUp, cli.pc # "idle",
           \/ cli'.pc = "idle" \/ cli'.command # "fund_all"
           \/ cli.queue # <<>> /\ (MovesOnBadly \/ MovesOn)
    PROVE  OncePaid'
  <1>1. /\ Whole' /\ InFlightUnpaid' /\ InFlightOnce' /\ OwnUnpaid'
        /\ \A v : NoneInFlight(v) /\ (tx.status = "none" \/ ~Funding(tx.body, v)) =>
                     NoneInFlight(v)'
    BY GivingUpPays
  <1>2. CASE cli'.pc = "idle" \/ cli'.command # "fund_all"
    BY <1>1, <1>2 DEF OncePaid, Ahead
  <1>3. CASE cli.queue # <<>> /\ cli.command = "fund_all" /\ (MovesOnBadly \/ MovesOn)
    <2> DEFINE queue == Tail(cli.queue)
    <2>1. /\ cli \in Command /\ cli.queue \in Seq(Versions)
          /\ Len(cli.queue) \in Nat /\ DOMAIN cli.queue = 1..Len(cli.queue)
      BY Running
    <2>2. PICK error \in BOOLEAN :
             cli' = [cli EXCEPT !.pc = "next", !.queue = queue, !.is_error = error]
      <3>1. cli.is_error \in BOOLEAN
        BY <2>1 DEF Command
      <3> QED
        BY <1>3, <3>1 DEF MovesOnBadly, MovesOn, NextVersion
    <2>3. /\ Len(queue) = Len(cli.queue) - 1
          /\ \A j \in 1..Len(queue) : queue[j] = cli.queue[j + 1]
          /\ DOMAIN queue = 1..Len(queue)
      BY <1>3, <2>1, HeadTailProperties, LenProperties
    <2>4. \A j \in DOMAIN queue : /\ j + 1 \in DOMAIN cli.queue /\ j + 1 # 1
                                  /\ queue[j] = cli.queue[j + 1]
      BY <2>1, <2>3
    <2> HIDE DEF queue
    <2>5. /\ cli'.queue = queue /\ cli'.trees = cli.trees
          /\ cli'.skip_verify = cli.skip_verify
      BY <2>1, <2>2 DEF Command
    <2>6. ~cli.skip_verify /\ IsInjective(cli.trees)
      BY <1>3 DEF OncePaid, Ahead
    <2>7. ASSUME NEW j \in DOMAIN queue, NEW v, v = queue[j]
          PROVE  Untouched(v)'
      <3>1. Untouched(v)
        BY <1>3, <2>4, <2>7 DEF OncePaid, Ahead
      <3>2. tx.status = "none" \/ ~Funding(tx.body, v)
        <4> SUFFICES ASSUME tx.status # "none"
                     PROVE  tx.body.version # v
          BY DEF Funding
        <4>1. 1 \in DOMAIN cli.queue /\ tx.body.version = cli.queue[1]
          BY OwnIsHead
        <4> QED
          BY <2>4, <2>6, <2>7, <4>1, QueueApart
      <3>3. NoneInFlight(v)'
        BY <1>1, <3>1, <3>2 DEF Untouched
      <3> QED
        BY <3>1, <3>3 DEF Untouched, ChainStands, chain
    <2>8. ASSUME NEW j \in DOMAIN queue
          PROVE  Untouched(cli.queue[j])'
      <3>1. PICK v : v = queue[j]
        OBVIOUS
      <3>2. Untouched(v)'
        BY <2>7, <3>1
      <3> QED
        BY <2>5, <3>1, <3>2 DEF Untouched, NoneInFlight
    <2>9. Ahead'
      BY <2>5, <2>6, <2>8 DEF Ahead
    <2> QED
      BY <1>1, <2>9 DEF OncePaid
  <1>4. cli.command # "fund_all" /\ (MovesOnBadly \/ MovesOn) =>
            cli'.command # "fund_all"
    <2>1. cli \in Command
      BY Running
    <2> QED
      BY <2>1 DEF MovesOnBadly, MovesOn, NextVersion, Command
  <1> QED
    BY <1>2, <1>3, <1>4

\* Staying with the transaction at hand.
LEMMA StayingPays ==
    ASSUME ChainStands, OncePaid, cli.pc # "idle",
           cli'.command = cli.command, cli'.skip_verify = cli.skip_verify,
           cli'.trees = cli.trees, cli'.queue = cli.queue, orphans' = orphans,
           (tx'.status = "none") <=> (tx.status = "none"),
           tx'.status \in {"signed", "sent"} =>
              tx.status \in {"signed", "sent"} /\ tx'.body = tx.body
    PROVE  OncePaid'
  <1>1. processed' = processed /\ finalized' = finalized
    BY DEF ChainStands, chain
  <1>2. Whole' /\ InFlightUnpaid' /\ InFlightOnce'
    BY <1>1 DEF OncePaid, Whole, InFlightUnpaid, InFlightOnce, Unpaid
  <1>3. OwnUnpaid'
    BY <1>1 DEF OncePaid, OwnUnpaid, Unpaid, NoneInFlight
  <1>4. Ahead'
    BY <1>1 DEF OncePaid, Ahead, Untouched, NoneInFlight
  <1> QED
    BY <1>2, <1>3, <1>4 DEF OncePaid

\* fund-all signs a payment only for a vault that was never paid for, or that
\* tokens were claimed from.
LEMMA SigningPays ==
    ASSUME TypeOK, ClaimedStays, ChainStands, OncePaid, cli.pc = "next",
           cli.queue # <<>>, Sign(Head(cli.queue)),
           cli.command = "fund_all" =>
              finalized.vault[Head(cli.queue)] < MaxTotalClaim[Head(cli.queue)]
    PROVE  OncePaid'
  <1>1. /\ CliOK /\ processed' = processed /\ finalized' = finalized
        /\ orphans' = orphans /\ tx.status = "none"
    BY TypeParts DEF ChainStands, chain, Sign, CliOK
  <1>2. /\ cli \in Command /\ cli.queue \in Seq(Versions)
        /\ Len(cli.queue) \in Nat /\ DOMAIN cli.queue = 1..Len(cli.queue)
    BY <1>1, Running
  <1>3. PICK v : v = Head(cli.queue)
    OBVIOUS
  <1>4. v \in Versions /\ v = cli.queue[1] /\ 1 \in DOMAIN cli.queue
    <2>1. Len(cli.queue) # 0
      BY <1>2, EmptySeq
    <2> QED
      BY <1>2, <1>3, <2>1, HeadTailProperties
  <1>5. /\ cli'.command = cli.command /\ cli'.skip_verify = cli.skip_verify
        /\ cli'.trees = cli.trees /\ cli'.queue = cli.queue
        /\ tx'.status = "signed"
        /\ tx'.body.kind = cli.command /\ tx'.body.version = v
    BY <1>2, <1>3 DEF Sign, Command
  <1>6. Whole' /\ InFlightUnpaid' /\ InFlightOnce'
    BY <1>1 DEF OncePaid, Whole, InFlightUnpaid, InFlightOnce, Unpaid
  <1>7. cli.command = "fund_all" => Unpaid(v) /\ NoneInFlight(v)
    <2> SUFFICES ASSUME cli.command = "fund_all"
                 PROVE  Unpaid(v) /\ NoneInFlight(v)
      OBVIOUS
    <2>1. /\ processed.vault[v] \in Nat /\ processed.claimed[v] \in Nat
          /\ finalized.vault[v] \in Nat /\ finalized.claimed[v] \in Nat
          /\ MaxTotalClaim[v] \in Nat
      BY <1>4, FolderAssumption DEF TypeOK, Chain
    <2>2. Untouched(v)
      BY <1>1, <1>4 DEF OncePaid, Ahead
    <2>3. finalized.vault[v] < MaxTotalClaim[v]
      BY <1>3
    <2>4. finalized.claimed[v] <= processed.claimed[v]
      BY <1>4 DEF ClaimedStays
    <2>5. processed.claimed[v] = 0 => processed.vault[v] \in {0, MaxTotalClaim[v]}
      BY <1>4 DEF OncePaid, Whole
    <2>6. Unpaid(v)
      BY <2>1, <2>2, <2>3, <2>4, <2>5 DEF Unpaid, Untouched
    <2> QED
      BY <2>2, <2>6 DEF Untouched
  <1>8. OwnUnpaid'
    BY <1>1, <1>5, <1>7 DEF OwnUnpaid, Unpaid, NoneInFlight
  <1>9. Ahead'
    BY <1>1, <1>5 DEF OncePaid, Ahead, Untouched, NoneInFlight
  <1> QED
    BY <1>6, <1>8, <1>9 DEF OncePaid

\* A panic, an attempt that fails, and the return of send_transaction.
LEMMA PanicPays ==
    ASSUME CliOK, ChainStands, OncePaid, cli.pc # "idle", Panic
    PROVE  OncePaid'
  BY InFlightGivesUp, MovingOnPays DEF Panic, End, Idle

LEMMA FailAttemptPays ==
    ASSUME CliOK, ChainStands, OncePaid, cli.pc # "idle", FailAttempt, ~retried'
    PROVE  OncePaid'
  <1>1. GivesUp
    BY InFlightGivesUp DEF FailAttempt
  <1>2. cli'.pc = "idle" \/ cli'.command # "fund_all"
    <2>1. cli \in Command
      BY Running
    <2>2. CASE End("panicked")
      BY <2>2 DEF End, Idle
    <2>3. CASE /\ cli' = [cli EXCEPT !.pc = "next", !.queue = cli.trees,
                                     !.is_error = FALSE, !.attempt = @ + 1]
               /\ retried' = (retried \/ cli.command = "fund_all")
      BY <2>1, <2>3 DEF Command
    <2> QED
      BY <2>2, <2>3 DEF FailAttempt
  <1> QED
    BY <1>1, <1>2, MovingOnPays

LEMMA SentPays ==
    ASSUME CliOK, ChainStands, OncePaid, cli.pc # "idle", cli.queue # <<>>,
           NEW ok \in BOOLEAN, Sent(ok)
    PROVE  OncePaid'
  <1>1. GivesUp
    BY InFlightGivesUp DEF Sent
  <1>2. CASE cli.command = "new_distributor"
    <2>1. cli \in Command
      BY Running
    <2>2. cli'.command = "new_distributor"
      BY <1>2, <2>1 DEF Sent, Command
    <2> QED
      BY <1>1, <2>2, MovingOnPays
  <1>3. CASE cli.command # "new_distributor"
    <2>1. MovesOnBadly \/ MovesOn
      BY <1>3 DEF Sent, NextVersion, MovesOn, MovesOnBadly
    <2> QED
      BY <1>1, <2>1, MovingOnPays
  <1> QED
    BY <1>2, <1>3

\* The steps of the command line.
LEMMA InspectPays ==
    ASSUME TypeOK, ClaimedStays, OncePaid, ~retried', Inspect
    PROVE  OncePaid'
  <1> DEFINE v == Head(cli.queue)
  <1>1. /\ CliOK /\ ChainStands
        /\ cli.pc = "next" /\ cli.queue # <<>> /\ cli.pc # "idle"
    BY TypeParts DEF Inspect, ChainStands
  <1>2. tx = NoTx
    BY <1>1 DEF CliOK, NoTx, Statuses
  <1>3. CASE FailAttempt
    BY <1>1, <1>3, FailAttemptPays
  <1>4. CASE Panic
    BY <1>1, <1>4, PanicPays
  <1>5. CASE MovesOn /\ UNCHANGED <<tx, orphans, last, retried>>
    <2>1. GivesUp
      BY <1>2, <1>5 DEF GivesUp
    <2> QED
      BY <1>1, <1>5, <2>1, MovingOnPays
  <1>6. CASE Sign(v) /\ (cli.command = "fund_all" => finalized.vault[v] < MaxTotalClaim[v])
    BY <1>1, <1>6, SigningPays
  <1>7. ASSUME NEW state \in Confirmed, LookForDistributor(v, state)
        PROVE  OncePaid'
    BY <1>4, <1>5, <1>6, <1>7 DEF LookForDistributor, MovesOn
  <1>8. CASE LookAtVault(v, finalized)
    BY <1>3, <1>5, <1>6, <1>8 DEF LookAtVault, MovesOn
  <1>9. CASE VerifyTree(v, finalized)
    BY <1>4, <1>5, <1>9 DEF VerifyTree, MovesOn
  <1> QED
    BY <1>3, <1>4, <1>7, <1>8, <1>9 DEF Inspect

LEMMA SimulatePays ==
    ASSUME TypeOK, OncePaid, Simulate
    PROVE  OncePaid'
  <1>1. /\ CliOK /\ ChainStands /\ cli.pc = "simulate" /\ cli.pc # "idle"
        /\ cli.queue # <<>> /\ tx.status # "none"
        /\ cli \in Command /\ tx.body.kind = cli.command
    BY TypeParts, Running, OwnIsHead DEF Simulate, ChainStands, CliOK
  <1>2. CASE Sent(FALSE)
    BY <1>1, <1>2, SentPays
  <1>3. CASE cli' = [cli EXCEPT !.pc = "loop"] /\ UNCHANGED <<tx, orphans>>
    <2>1. /\ cli'.command = cli.command /\ cli'.skip_verify = cli.skip_verify
          /\ cli'.trees = cli.trees /\ cli'.queue = cli.queue
      BY <1>1, <1>3 DEF Command
    <2> QED
      BY <1>1, <1>3, <2>1, StayingPays
  <1>4. CASE /\ cli.skip_verify /\ (MovesOnBadly \/ MovesOn) /\ tx' = NoTx
             /\ orphans' \in {orphans, Append(orphans, tx.body)}
    <2>1. cli.command # "fund_all"
      BY <1>1, <1>4 DEF OncePaid, Ahead
    <2>2. GivesUp
      BY <1>1, <1>4, <2>1 DEF GivesUp
    <2> QED
      BY <1>1, <1>4, <2>2, MovingOnPays
  <1> QED
    BY <1>2, <1>3, <1>4 DEF Simulate, MovesOn, MovesOnBadly

LEMMA SendingPays ==
    ASSUME TypeOK, OncePaid, SendLoop \/ Confirm
    PROVE  OncePaid'
  <1>0. CliOK /\ ChainStands /\ cli.pc \in {"loop", "confirm"}
    BY TypeParts DEF SendLoop, Confirm, ChainStands
  <1>1. /\ CliOK /\ ChainStands /\ cli.pc # "idle"
        /\ cli.queue # <<>> /\ tx.status # "none" /\ cli \in Command
        /\ tx \in [status : Statuses, body : Transaction]
    BY <1>0, Running DEF CliOK, NoTx
  <1>2. ASSUME NEW ok \in BOOLEAN, Sent(ok)
        PROVE  OncePaid'
    BY <1>1, <1>2, SentPays
  <1>3. ASSUME NEW pc, cli' = [cli EXCEPT !.pc = pc], orphans' = orphans,
               tx'.status = tx.status \/ (tx.status = "signed" /\ tx'.status = "sent"),
               tx'.body = tx.body
        PROVE  OncePaid'
    <2>1. /\ cli'.command = cli.command /\ cli'.skip_verify = cli.skip_verify
          /\ cli'.trees = cli.trees /\ cli'.queue = cli.queue
      BY <1>1, <1>3 DEF Command
    <2> QED
      BY <1>1, <1>3, <2>1, StayingPays
  <1>4. CASE SendLoop
    <2>1. CASE /\ tx' = [tx EXCEPT !.status = IF @ = "signed" THEN "sent" ELSE @]
               /\ cli' = [cli EXCEPT !.pc = "confirm"]
               /\ orphans' = orphans
      <3>1. /\ tx'.body = tx.body
            /\ tx'.status = tx.status \/ (tx.status = "signed" /\ tx'.status = "sent")
        BY <1>1, <2>1
      <3> QED
        BY <1>3, <2>1, <3>1
    <2> QED
      BY <1>2, <1>4, <2>1 DEF SendLoop
  <1>5. CASE Confirm
    BY <1>2, <1>3, <1>5 DEF Confirm
  <1> QED
    BY <1>4, <1>5

LEMMA CheckPays ==
    ASSUME TypeOK, OncePaid, ~retried', CheckDistributor \/ EndAttempt
    PROVE  OncePaid'
  <1>1. /\ CliOK /\ ChainStands /\ cli.pc # "idle" /\ cli.pc \in {"check", "next"}
    BY TypeParts DEF CheckDistributor, EndAttempt, ChainStands
  <1>2. tx = NoTx
    BY <1>1 DEF CliOK, NoTx, Statuses
  <1>3. CASE FailAttempt
    BY <1>1, <1>3, FailAttemptPays
  <1>4. CASE Panic
    BY <1>1, <1>4, PanicPays
  <1>5. CASE CheckDistributor /\ MovesOn /\ UNCHANGED <<tx, orphans>>
    <2>1. GivesUp /\ cli.queue # <<>>
      BY <1>1, <1>2, <1>5 DEF GivesUp, CheckDistributor, CliOK
    <2> QED
      BY <1>1, <1>5, <2>1, MovingOnPays
  <1>6. CASE End("done") /\ UNCHANGED <<tx, orphans>>
    <2>1. GivesUp /\ cli'.pc = "idle"
      BY <1>2, <1>6 DEF GivesUp, End, Idle
    <2> QED
      BY <1>1, <2>1, MovingOnPays
  <1> QED
    BY <1>3, <1>4, <1>5, <1>6 DEF CheckDistributor, EndAttempt, MovesOn

\* A patient operator starts fund-all when everything is final and nothing is
\* in flight.
LEMMA StartPays ==
    ASSUME TypeOK, OncePaid, scenario.patient, NEW command, NEW params,
           NEW skip_verify, NEW trees, Start(command, params, skip_verify, trees),
           command = "fund_all" => skip_verify = FALSE /\ trees = scenario.folder
    PROVE  OncePaid'
  <1>1. /\ processed' = processed /\ finalized' = finalized
        /\ orphans' = orphans /\ tx' = tx
        /\ processed = finalized /\ orphans = <<>>
        /\ cli'.command = command /\ cli'.skip_verify = skip_verify
        /\ cli'.trees = trees /\ cli'.queue = trees
    BY DEF Start, Settled, chain
  <1>2. Whole' /\ InFlightUnpaid' /\ InFlightOnce' /\ OwnUnpaid'
    BY <1>1
    DEF OncePaid, Whole, InFlightUnpaid, InFlightOnce, OwnUnpaid, Unpaid, NoneInFlight
  <1>3. command = "fund_all" => IsInjective(trees)
    BY FolderAssumption DEF TypeOK
  <1>4. ASSUME NEW j \in DOMAIN cli'.queue
        PROVE  Untouched(cli.queue[j])'
    BY <1>1 DEF Untouched, NoneInFlight
  <1>5. Ahead'
    BY <1>1, <1>3, <1>4 DEF Ahead
  <1> QED
    BY <1>2, <1>5 DEF OncePaid

\* No step undoes a claim.
LEMMA ClaimsStay ==
    ASSUME TypeOK, TypeOK', ClaimedStays, [Next]_vars
    PROVE  ClaimedStays'
  <1> SUFFICES ASSUME NEW v \in Versions
               PROVE  finalized'.claimed[v] <= processed'.claimed[v]
    BY DEF ClaimedStays
  <1>1. /\ processed.claimed[v] \in Nat /\ processed'.claimed[v] \in Nat
        /\ finalized.claimed[v] \in Nat /\ processed \in Chain
        /\ \A i \in DOMAIN orphans : orphans[i] \in Transaction
    BY Orphans DEF TypeOK, Chain
  <1>2. finalized.claimed[v] <= processed.claimed[v]
    BY DEF ClaimedStays
  <1>3. CASE finalized' = finalized /\ processed' = processed
    BY <1>2, <1>3
  <1>4. CASE Finalize
    BY <1>1, <1>4 DEF Finalize
  <1>5. ASSUME NEW t \in Transaction, Succeeds(t, processed),
               processed' = Effect(t, processed), finalized' = finalized
        PROVE  finalized'.claimed[v] <= processed'.claimed[v]
    BY <1>1, <1>2, <1>5, EffectPays
  <1>6. CASE Land
    <2>1. tx.body \in Transaction
      BY <1>6 DEF Land, TypeOK, NoTx
    <2> QED
      BY <1>3, <1>5, <1>6, <2>1 DEF Land
  <1>7. CASE \E i \in DOMAIN orphans : LandOrphan(i)
    BY <1>1, <1>3, <1>5, <1>7 DEF LandOrphan
  <1>8. ASSUME NEW w \in Versions, Claim(w)
        PROVE  finalized'.claimed[v] <= processed'.claimed[v]
    <2>1. /\ processed'.claimed[v] \in {processed.claimed[v], processed.claimed[v] + 1}
          /\ finalized' = finalized
      BY <1>1, <1>8, ClaimPays DEF Claim
    <2> QED
      BY <1>1, <1>2, <2>1
  <1>9. CASE CliStep
    BY <1>3, <1>9
    DEF CliStep, Inspect, Simulate, SendLoop, Confirm, CheckDistributor, EndAttempt, chain
  <1> QED
    BY <1>3, <1>4, <1>6, <1>7, <1>8, <1>9
    DEF Next, Start, Interrupt, Expire, vars, chain

\* Every step keeps the vaults paid for once.
LEMMA PayInvariant ==
    ASSUME TypeOK, TypeOK', ClaimedStays, PayInv, [Next]_vars
    PROVE  PayInv'
  <1> SUFFICES ASSUME scenario'.patient, ~retried'
               PROVE  OncePaid'
    BY DEF PayInv
  <1>1. scenario' = scenario /\ (retried => retried')
    <2>1. FailAttempt \/ Panic => (retried => retried')
      BY Zenon DEF FailAttempt, Panic, End
    <2>2. Inspect => (retried => retried')
      BY <2>1, Zenon
      DEF Inspect, LookForDistributor, LookAtVault, VerifyTree, Sign
    <2>3. Simulate \/ SendLoop \/ Confirm => (retried => retried')
      BY Zenon DEF Simulate, SendLoop, Confirm, Sent
    <2>4. CheckDistributor \/ EndAttempt => (retried => retried')
      BY <2>1, Zenon DEF CheckDistributor, EndAttempt, End
    <2>5. CliStep \/ Interrupt => scenario' = scenario
      BY DEF CliStep, Interrupt, Inspect, Simulate, SendLoop, Confirm,
             CheckDistributor, EndAttempt
    <2>6. CASE CliStep \/ Interrupt
      BY <2>1, <2>2, <2>3, <2>4, <2>5, <2>6 DEF CliStep, Interrupt
    <2>7. ASSUME ~(CliStep \/ Interrupt)
          PROVE  scenario' = scenario /\ retried' = retried
      BY <2>7 DEF Next, Start, Land, LandOrphan, Claim, Expire, Finalize, vars
    <2> QED
      BY <2>6, <2>7
  <1>2. OncePaid /\ scenario.patient
    BY <1>1 DEF PayInv
  <1>3. ASSUME NEW command \in {"new_distributor", "verify"}, NEW params,
               NEW skip_verify, NEW trees,
               Start(command, params, skip_verify, trees)
        PROVE  OncePaid'
    BY <1>2, <1>3, StartPays
  <1>4. CASE Start("fund_all", NoParams, FALSE, scenario.folder)
    BY <1>2, <1>4, StartPays
  <1>5. CASE CliStep
    BY <1>2, <1>5, InspectPays, SimulatePays, SendingPays, CheckPays DEF CliStep
  <1>6. CASE Interrupt
    BY <1>2, <1>6, PanicPays, TypeParts DEF Interrupt, ChainStands
  <1>7. CASE Land \/ (\E i \in DOMAIN orphans : LandOrphan(i)) \/ Expire
    BY <1>2, <1>7, LandPays, LandOrphanPays, ExpirePays
  <1>8. CASE Finalize \/ \E v \in Versions : Claim(v)
    BY <1>2, <1>8, OtherPays
  <1>9. CASE UNCHANGED vars
    BY <1>2, <1>9
    DEF vars, chain, OncePaid, Whole, InFlightUnpaid, InFlightOnce, OwnUnpaid, Ahead,
        Untouched, NoneInFlight, Unpaid
  <1> QED
    BY <1>3, <1>4, <1>5, <1>6, <1>7, <1>8, <1>9 DEF Next

\* An operator who lets the chain settle between commands pays for a vault
\* again only after tokens were claimed from it, as long as fund-all does not
\* start over by itself: for every number of trees, payments that fail, expire
\* or land late, and wherever a command is interrupted.
THEOREM PaidOnce == Spec => []PaidAgainOnlyAfterClaims
  <1>1. Init => ClaimedStays /\ PayInv
    BY DEF Init, EmptyChain, Idle, NoTx, ClaimedStays, PayInv, OncePaid, Whole,
           InFlightUnpaid, InFlightOnce, OwnUnpaid, Ahead
  <1>2. DeployIInv /\ DeployIInv' /\ ClaimedStays /\ PayInv /\ [Next]_vars =>
          ClaimedStays' /\ PayInv'
    <2>1. DeployIInv /\ DeployIInv' => TypeOK /\ TypeOK'
      BY DEF DeployIInv
    <2> QED
      BY <2>1, ClaimsStay, PayInvariant
  <1>3. DeployIInv /\ PayInv => PaidAgainOnlyAfterClaims
    <2> SUFFICES ASSUME DeployIInv, PayInv, scenario.patient, ~retried,
                        NEW v \in Versions,
                        processed.vault[v] + processed.claimed[v] > MaxTotalClaim[v]
                 PROVE  processed.claimed[v] > 0
      BY DEF PaidAgainOnlyAfterClaims
    <2>1. /\ processed.vault[v] \in Nat /\ processed.claimed[v] \in Nat
          /\ MaxTotalClaim[v] \in Nat
      BY FolderAssumption DEF DeployIInv, TypeOK, Chain
    <2>2. processed.claimed[v] = 0 => processed.vault[v] \in {0, MaxTotalClaim[v]}
      BY DEF PayInv, OncePaid, Whole
    <2> QED
      BY <2>1, <2>2
  <1> QED
    BY <1>1, <1>2, <1>3, DeployInvariance, PTL DEF Spec

=============================================================================
