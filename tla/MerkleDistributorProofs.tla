---------------------- MODULE MerkleDistributorProofs ----------------------
(***************************************************************************)
(* The safety of the on-chain program for every set of claimants, every    *)
(* tree, every argument and every bound: the inductive invariant IInv, the *)
(* properties that follow from it, and the abstract airdrop implemented.   *)
(***************************************************************************)
EXTENDS MerkleDistributor, ArithmeticLemmas, TLAPS

-----------------------------------------------------------------------------
(* What the vesting arithmetic guarantees for every amount and every       *)
(* window: the cast to u64 never truncates, no more than the locked amount *)
(* vests, and what has vested never shrinks as the clock advances.         *)

\* Casting a value that fits leaves it as it is.
LEMMA CastFits ==
    ASSUME NEW n \in Amount
    PROVE  AsU64(n) = n
  BY MaxU64Assumption DEF Amount, AsU64

\* Inside the window the elapsed share is at most the whole.
LEMMA ShareBounded ==
    ASSUME NEW locked \in Nat, NEW t \in Nat, NEW w \in Nat, w > 0, t <= w
    PROVE  (t * locked) \div w \in 0..locked
  <1> DEFINE q == (t * locked) \div w
  <1>1. t * locked \in Nat
    OBVIOUS
  <1>2. q \in Nat /\ w * q <= t * locked
    BY <1>1, QuotientBounds
  <1>3. t * locked <= w * locked
    BY ProductMonotone
  <1>4. ASSUME q > locked PROVE FALSE
    <2> HIDE DEF q
    <2>1. w * (locked + 1) <= w * q
      BY <1>2, <1>4, ProductMonotone
    <2>2. w * (locked + 1) = w * locked + w
      OBVIOUS
    <2>3. w * locked \in Nat /\ w * q \in Nat
      BY <1>2
    <2> QED
      BY <2>1, <2>2, <2>3, <1>1, <1>2, <1>3
  <1> QED
    BY <1>2, <1>4

\* A later point of the window has at least as large a share.
LEMMA ShareMonotone ==
    ASSUME NEW locked \in Nat, NEW t \in Nat, NEW u \in Nat,
           NEW w \in Nat, w > 0, t <= u
    PROVE  (t * locked) \div w <= (u * locked) \div w
  <1> DEFINE p == (t * locked) \div w
             q == (u * locked) \div w
  <1>1. t * locked \in Nat /\ u * locked \in Nat
    OBVIOUS
  <1>2. p \in Nat /\ w * p <= t * locked
    BY <1>1, QuotientBounds
  <1>3. q \in Nat /\ u * locked < w * (q + 1)
    BY <1>1, QuotientBounds
  <1>4. t * locked <= u * locked
    BY ProductMonotone
  <1>5. ASSUME p > q PROVE FALSE
    <2> HIDE DEF p, q
    <2>1. w * (q + 1) <= w * p
      BY <1>2, <1>3, <1>5, ProductMonotone
    <2>2. w * (q + 1) \in Nat /\ w * p \in Nat
      BY <1>2, <1>3
    <2> QED
      BY <2>1, <2>2, <1>1, <1>2, <1>3, <1>4
  <1> QED
    BY <1>2, <1>3, <1>5

\* ClaimStatus::unlocked_amount never exceeds the locked amount, so the cast
\* from u128 to u64 never drops a bit ("no truncation can occur").
THEOREM UnlockedBounded ==
    ASSUME NEW locked \in Amount, NEW curr \in Nat,
           NEW start \in Nat, NEW end \in Nat
    PROVE  UnlockedAmount(locked, curr, start, end) \in 0..locked
  <1>1. locked \in Nat
    BY MaxU64Assumption DEF Amount
  <1>2. CASE curr < start \/ curr >= end
    BY <1>1, <1>2 DEF UnlockedAmount
  <1>3. CASE ~(curr < start) /\ ~(curr >= end)
    <2> DEFINE share == ((curr - start) * locked) \div (end - start)
    <2>1. /\ curr - start \in Nat
          /\ end - start \in Nat
          /\ end - start > 0
          /\ curr - start <= end - start
      BY <1>3
    <2>2. share \in 0..locked
      BY <1>1, <2>1, ShareBounded
    <2>3. UnlockedAmount(locked, curr, start, end) = AsU64(share)
      BY <1>3 DEF UnlockedAmount
    <2> HIDE DEF share
    <2>4. share \in Amount
      BY <1>1, <2>2, MaxU64Assumption DEF Amount
    <2> QED
      BY <2>2, <2>3, <2>4, CastFits
  <1> QED
    BY <1>2, <1>3

\* What has vested never shrinks as the clock advances: a later
\* unlocked_amount is at least an earlier one.
THEOREM UnlockedMonotone ==
    ASSUME NEW locked \in Amount, NEW curr \in Nat, NEW later \in Nat,
           NEW start \in Nat, NEW end \in Nat, curr <= later
    PROVE  UnlockedAmount(locked, curr, start, end)
             <= UnlockedAmount(locked, later, start, end)
  <1>1. locked \in Nat
    BY MaxU64Assumption DEF Amount
  <1>2. /\ UnlockedAmount(locked, curr, start, end) \in 0..locked
        /\ UnlockedAmount(locked, later, start, end) \in 0..locked
    BY UnlockedBounded
  <1>3. CASE curr < start
    BY <1>2, <1>3 DEF UnlockedAmount
  <1>4. CASE ~(curr < start) /\ later >= end
    <2>1. UnlockedAmount(locked, later, start, end) = locked
      BY <1>4 DEF UnlockedAmount
    <2> QED
      BY <1>1, <1>2, <2>1
  <1>5. CASE ~(curr < start) /\ ~(later >= end)
    <2> DEFINE w == end - start
               p == ((curr - start) * locked) \div w
               q == ((later - start) * locked) \div w
    <2>1. /\ curr - start \in Nat
          /\ later - start \in Nat
          /\ w \in Nat
          /\ w > 0
          /\ curr - start <= later - start
          /\ later - start <= w
      BY <1>5
    <2>2. p \in 0..locked /\ q \in 0..locked
      BY <1>1, <2>1, ShareBounded
    <2>3. p <= q
      BY <1>1, <2>1, ShareMonotone
    <2>4. /\ UnlockedAmount(locked, curr, start, end) = AsU64(p)
          /\ UnlockedAmount(locked, later, start, end) = AsU64(q)
      BY <1>5 DEF UnlockedAmount
    <2> HIDE DEF p, q
    <2>5. p \in Amount /\ q \in Amount
      BY <1>1, <2>2, MaxU64Assumption DEF Amount
    <2> QED
      BY <2>3, <2>4, <2>5, CastFits
  <1> QED
    BY <1>3, <1>4, <1>5

-----------------------------------------------------------------------------
(* The types. *)

\* A token transfer keeps the balances natural numbers.
LEMMA TransferType ==
    ASSUME balance \in [Accounts -> Nat],
           NEW from \in Accounts, NEW to \in Accounts, NEW amount \in Nat,
           Transfer(from, to, amount)
    PROVE  balance' \in [Accounts -> Nat]
  BY DEF Transfer

\* The vault is an account of its own: no claimant and no treasury is it.
LEMMA VaultAndClaimants ==
    /\ Vault \in Accounts
    /\ Claimants \subseteq Accounts
    /\ Treasuries \subseteq Accounts
    /\ \A c \in Claimants : c # Vault
    /\ \A t \in Treasuries : t # Vault
  BY AccountsAssumption DEF Accounts

\* The data of an account that is not initialised has the account's type.
LEMMA DefaultData ==
    /\ NoDistributor \in Distributor
    /\ NoClaimStatus \in ClaimStatus
  <1>1. (CHOOSE a \in Admins : TRUE) \in Admins
    BY AccountsAssumption
  <1>2. 0 \in Amount /\ 0 \in Timestamp
    BY MaxU64Assumption, BoundsAssumption DEF Amount, Timestamp
  <1> QED
    BY <1>1, <1>2, VaultAndClaimants
    DEF NoDistributor, NoClaimStatus, Distributor, ClaimStatus

\* What a withdrawal may be: natural when the guard lets it through, and
\* within the u64 range together with what was withdrawn before.
LEMMA WithdrawalType ==
    ASSUME TypeOK, NEW c \in Claimants
    PROVE  /\ status[c].locked_amount \in Amount
           /\ status[c].locked_amount_withdrawn \in Amount
           /\ UnlockedAmount(status[c].locked_amount, now,
                             dist.start_ts, dist.end_ts)
                \in 0..status[c].locked_amount
  <1>1. status[c] \in ClaimStatus /\ dist \in Distributor /\ now \in Nat
    BY DEF TypeOK
  <1>2. /\ status[c].locked_amount \in Amount
        /\ status[c].locked_amount_withdrawn \in Amount
        /\ dist.start_ts \in Nat
        /\ dist.end_ts \in Nat
    BY <1>1, BoundsAssumption DEF ClaimStatus, Distributor, Timestamp
  <1> QED
    BY <1>1, <1>2, UnlockedBounded

\* Before the first instruction every account holds data of its type.
LEMMA InitTypeOK == Init => TypeOK
  <1> SUFFICES ASSUME Init PROVE TypeOK
    OBVIOUS
  <1>1. balance \in [Accounts -> Nat]
    BY BoundsAssumption DEF Init
  <1>2. status \in [Claimants -> ClaimStatus]
    BY DefaultData DEF Init
  <1> QED
    BY <1>1, <1>2, DefaultData DEF Init, TypeOK

\* No instruction, transfer or tick takes a field out of its type: every
\* checked_add of the code keeps its u64, and DayAfter keeps the i64 range.
LEMMA NextTypeOK == TypeOK /\ [Next]_vars => TypeOK'
  <1> SUFFICES ASSUME TypeOK, [Next]_vars PROVE TypeOK'
    OBVIOUS
  <1> USE VaultAndClaimants, MaxU64Assumption, BoundsAssumption,
          ArgumentsAssumption
  <1>1. ASSUME NEW args \in NewDistributorArgs, NewDistributor(args)
        PROVE  TypeOK'
    <2>1. /\ args.root \subseteq Leaf
          /\ args.max_total_claim \in Amount
          /\ args.max_num_nodes \in Amount
          /\ args.start_ts \in Timestamp
          /\ args.end_ts \in Timestamp
          /\ args.clawback_start_ts \in Timestamp
          /\ args.clawback_receiver \in Accounts
          /\ args.admin \in Admins
          /\ args.enable_slot \in Nat
          /\ args.closable \in BOOLEAN
      BY DEF NewDistributorArgs
    <2>2. 0 \in Amount
      BY DEF Amount
    <2>3. dist' \in Distributor
      BY <1>1, <2>1, <2>2 DEF NewDistributor, Distributor
    <2>4. funded' \in Nat /\ creations' \in Nat
      BY <1>1 DEF NewDistributor, TypeOK
    <2> QED
      BY <1>1, <2>3, <2>4 DEF NewDistributor, TypeOK, clock
  <1>2. ASSUME NEW leaf \in Leaf,
               NewClaim(leaf.claimant, leaf.unlocked, leaf.locked)
        PROVE  TypeOK'
    <2> DEFINE c == leaf.claimant
    <2>1. c \in Claimants /\ leaf.unlocked \in Amount /\ leaf.locked \in Amount
      BY DEF Leaf
    <2>2. balance' \in [Accounts -> Nat]
      BY <1>2, <2>1, TransferType DEF NewClaim, TypeOK, Amount
    <2>3. dist' \in Distributor
      <3>1. /\ dist.num_nodes_claimed + 1 \in Amount
            /\ dist.total_amount_claimed + leaf.unlocked \in Amount
        BY <1>2, <2>1 DEF NewClaim, TypeOK, Distributor, Amount
      <3>2. dist' = [dist EXCEPT
                       !.num_nodes_claimed = @ + 1,
                       !.total_amount_claimed = @ + leaf.unlocked]
        BY <1>2 DEF NewClaim
      <3> QED
        BY <3>1, <3>2 DEF TypeOK, Distributor
    <2>4. status' \in [Claimants -> ClaimStatus]
      BY <1>2, <2>1 DEF NewClaim, TypeOK, Distributor, ClaimStatus, Amount
    <2>5. paid' \in [Claimants -> Nat] /\ born' \in [Claimants -> Nat]
      BY <1>2, <2>1 DEF NewClaim, TypeOK, Amount
    <2> QED
      BY <1>2, <2>1, <2>2, <2>3, <2>4, <2>5 DEF NewClaim, TypeOK, clock
  <1>3. ASSUME NEW c \in Claimants, ClaimLocked(c)
        PROVE  TypeOK'
    <2> DEFINE amount == AmountWithdrawable(status[c].locked_amount,
                                            status[c].locked_amount_withdrawn,
                                            now, dist.start_ts, dist.end_ts)
    <2>1. amount \in Nat
      BY <1>3, WithdrawalType DEF ClaimLocked, AmountWithdrawable, Amount
    <2>2. /\ Transfer(Vault, c, amount)
          /\ status[c].locked_amount_withdrawn + amount
               <= status[c].locked_amount
          /\ dist.total_amount_claimed + amount <= dist.max_total_claim
          /\ status' = [status EXCEPT
                          ![c].locked_amount_withdrawn = @ + amount]
          /\ dist' = [dist EXCEPT !.total_amount_claimed = @ + amount]
          /\ paid' = [paid EXCEPT ![c] = @ + amount]
          /\ UNCHANGED <<exists, claimed, clock, funded, creations, born>>
      BY <1>3 DEF ClaimLocked
    <2> HIDE DEF amount
    <2>3. balance' \in [Accounts -> Nat]
      BY <2>1, <2>2, TransferType DEF TypeOK
    <2>4. dist' \in Distributor
      BY <2>1, <2>2 DEF TypeOK, Distributor, Amount
    <2>5. status' \in [Claimants -> ClaimStatus]
      BY <2>1, <2>2 DEF TypeOK, ClaimStatus, Amount
    <2>6. paid' \in [Claimants -> Nat]
      BY <2>1, <2>2 DEF TypeOK
    <2> QED
      BY <2>2, <2>3, <2>4, <2>5, <2>6 DEF TypeOK, clock
  <1>4. ASSUME NEW signer \in Signers, Clawback(signer)
        PROVE  TypeOK'
    <2>1. dist.clawback_receiver \in Accounts /\ balance[Vault] \in Nat
      BY DEF TypeOK, Distributor
    <2>2. balance' \in [Accounts -> Nat]
      BY <1>4, <2>1, TransferType DEF Clawback, TypeOK
    <2>3. dist' \in Distributor
      BY <1>4 DEF Clawback, TypeOK, Distributor
    <2> QED
      BY <1>4, <2>2, <2>3 DEF Clawback, TypeOK, clock, history
  <1>5. ASSUME NEW admin \in Admins, NEW to \in Accounts,
               CloseDistributor(admin, to)
        PROVE  TypeOK'
    <2>1. balance' \in [Accounts -> Nat]
      BY <1>5, TransferType DEF CloseDistributor, TypeOK
    <2> QED
      BY <1>5, <2>1, DefaultData DEF CloseDistributor, TypeOK, clock, history
  <1>6. ASSUME NEW admin \in Admins, NEW c \in Claimants,
               CloseClaimStatus(admin, c)
        PROVE  TypeOK'
    BY <1>6, DefaultData DEF CloseClaimStatus, TypeOK, clock, history
  <1>7. ASSUME NEW admin \in Admins, NEW s \in EnableSlots,
               SetEnableSlot(admin, s)
        PROVE  TypeOK'
    <2>1. dist' \in Distributor
      BY <1>7 DEF SetEnableSlot, TypeOK, Distributor
    <2> QED
      BY <1>7, <2>1 DEF SetEnableSlot, TypeOK, clock, history
  <1>8. ASSUME NEW admin \in Admins, NEW ts \in Timestamps,
               SetClawbackStartTs(admin, ts)
        PROVE  TypeOK'
    <2>1. dist' \in Distributor
      BY <1>8 DEF SetClawbackStartTs, TypeOK, Distributor
    <2> QED
      BY <1>8, <2>1 DEF SetClawbackStartTs, TypeOK, clock, history
  <1>9. ASSUME NEW admin \in Admins, NEW to \in Accounts,
               SetClawbackReceiver(admin, to)
        PROVE  TypeOK'
    <2>1. dist' \in Distributor
      BY <1>9 DEF SetClawbackReceiver, TypeOK, Distributor
    <2> QED
      BY <1>9, <2>1 DEF SetClawbackReceiver, TypeOK, clock, history
  <1>10. ASSUME NEW admin \in Admins, NEW new_admin \in Admins,
                SetAdmin(admin, new_admin)
         PROVE  TypeOK'
    <2>1. dist' \in Distributor
      BY <1>10 DEF SetAdmin, TypeOK, Distributor
    <2> QED
      BY <1>10, <2>1 DEF SetAdmin, TypeOK, clock, history
  <1>11. ASSUME NEW from \in Treasuries, NEW amount \in Deposits,
                Deposit(from, amount)
         PROVE  TypeOK'
    <2>1. balance' \in [Accounts -> Nat]
      BY <1>11, TransferType DEF Deposit, TypeOK
    <2> QED
      BY <1>11, <2>1 DEF Deposit, TypeOK, accountVars, clock
  <1>12. CASE NextSecond
    BY <1>12 DEF NextSecond, TypeOK, accountVars, history
  <1>13. CASE NextSlot
    BY <1>13 DEF NextSlot, TypeOK, accountVars, history
  <1>14. CASE UNCHANGED vars
    BY <1>14 DEF vars, TypeOK, accountVars, clock, history
  <1> QED
    BY <1>1, <1>2, <1>3, <1>4, <1>5, <1>6, <1>7, <1>8, <1>9, <1>10, <1>11,
       <1>12, <1>13, <1>14
    DEF Next

\* Every field of every account stays within its type, for every tree and
\* every argument.
THEOREM TypeCorrect == Spec => []TypeOK
  <1> QED
    BY InitTypeOK, NextTypeOK, PTL DEF Spec

-----------------------------------------------------------------------------
(* Admin instructions and the passage of slots touch neither claims nor    *)
(* tokens nor the promised terms.                                          *)

\* The terms the distributor was created with, across a step.
SameTerms ==
    /\ dist'.root = dist.root
    /\ dist'.max_total_claim = dist.max_total_claim
    /\ dist'.max_num_nodes = dist.max_num_nodes
    /\ dist'.start_ts = dist.start_ts
    /\ dist'.end_ts = dist.end_ts
    /\ dist'.closable = dist.closable

\* One of the four setters.
SetterStep ==
    \/ \E admin \in Admins, s \in EnableSlots : SetEnableSlot(admin, s)
    \/ \E admin \in Admins, ts \in Timestamps : SetClawbackStartTs(admin, ts)
    \/ \E admin \in Admins, to \in Accounts : SetClawbackReceiver(admin, to)
    \/ \E admin, new_admin \in Admins : SetAdmin(admin, new_admin)

\* What no setter touches.
AdministrativeOnly ==
    /\ SameTerms
    /\ dist'.total_amount_claimed = dist.total_amount_claimed
    /\ dist'.num_nodes_claimed = dist.num_nodes_claimed
    /\ dist'.clawed_back = dist.clawed_back
    /\ \/ dist'.clawback_start_ts = dist.clawback_start_ts
       \/ dist'.clawback_start_ts >= dist.end_ts + SECONDS_PER_DAY
    /\ exists
    /\ UNCHANGED <<exists, claimed, status, balance, clock, history>>

\* A setter changes one administrative field of the distributor.
LEMMA SetterFrame ==
    ASSUME TypeOK, SetterStep
    PROVE  AdministrativeOnly
  <1> USE DEF TypeOK, Distributor, SameTerms, AdministrativeOnly
  <1>1. ASSUME NEW admin \in Admins, NEW s \in EnableSlots,
               SetEnableSlot(admin, s)
        PROVE  AdministrativeOnly
    BY <1>1 DEF SetEnableSlot
  <1>2. ASSUME NEW admin \in Admins, NEW ts \in Timestamps,
               SetClawbackStartTs(admin, ts)
        PROVE  AdministrativeOnly
    BY <1>2 DEF SetClawbackStartTs, DayAfter
  <1>3. ASSUME NEW admin \in Admins, NEW to \in Accounts,
               SetClawbackReceiver(admin, to)
        PROVE  AdministrativeOnly
    BY <1>3 DEF SetClawbackReceiver
  <1>4. ASSUME NEW admin \in Admins, NEW new_admin \in Admins,
               SetAdmin(admin, new_admin)
        PROVE  AdministrativeOnly
    BY <1>4 DEF SetAdmin
  <1> QED
    BY <1>1, <1>2, <1>3, <1>4 DEF SetterStep

\* Next with the setters collected into one disjunct: the case distinction of
\* the proofs below.
LEMMA NextCases ==
    ASSUME [Next]_vars
    PROVE  \/ \E args \in NewDistributorArgs : NewDistributor(args)
           \/ \E leaf \in Leaf :
                NewClaim(leaf.claimant, leaf.unlocked, leaf.locked)
           \/ \E c \in Claimants : ClaimLocked(c)
           \/ \E signer \in Signers : Clawback(signer)
           \/ \E admin \in Admins, to \in Accounts : CloseDistributor(admin, to)
           \/ \E admin \in Admins, c \in Claimants : CloseClaimStatus(admin, c)
           \/ SetterStep
           \/ \E from \in Treasuries, amount \in Deposits : Deposit(from, amount)
           \/ NextSecond
           \/ UNCHANGED <<accountVars, balance, now, history>>
  BY DEF Next, SetterStep, NextSlot, vars, clock

-----------------------------------------------------------------------------
(* The account's life cycle. *)

\* Every step keeps the life cycle: a claim status is never younger than the
\* latest creation, and the clawback stays a day behind the end of vesting
\* whenever new_distributor or set_clawback_start_ts writes it.
LEMMA NextLifeCycle ==
    ASSUME TypeOK, TypeOK', LifeCycle, [Next]_vars
    PROVE  LifeCycle'
  <1> USE BoundsAssumption DEF TypeOK, Distributor, Timestamp
  <1>1. ASSUME NEW args \in NewDistributorArgs, NewDistributor(args)
        PROVE  LifeCycle'
    BY <1>1 DEF NewDistributor, LifeCycle, DayAfter
  <1>2. ASSUME NEW leaf \in Leaf,
               NewClaim(leaf.claimant, leaf.unlocked, leaf.locked)
        PROVE  LifeCycle'
    <2>1. leaf.claimant \in Claimants
      BY DEF Leaf
    <2> QED
      BY <1>2, <2>1 DEF NewClaim, Claiming, LifeCycle
  <1>3. ASSUME NEW c \in Claimants, ClaimLocked(c)
        PROVE  LifeCycle'
    BY <1>3 DEF ClaimLocked, Claiming, LifeCycle
  <1>4. ASSUME NEW signer \in Signers, Clawback(signer)
        PROVE  LifeCycle'
    BY <1>4 DEF Clawback, LifeCycle, history
  <1>5. ASSUME NEW admin \in Admins, NEW to \in Accounts,
               CloseDistributor(admin, to)
        PROVE  LifeCycle'
    BY <1>5 DEF CloseDistributor, LifeCycle, history
  <1>6. ASSUME NEW admin \in Admins, NEW c \in Claimants,
               CloseClaimStatus(admin, c)
        PROVE  LifeCycle'
    BY <1>6 DEF CloseClaimStatus, LifeCycle, history
  <1>7. CASE SetterStep
    BY <1>7, SetterFrame DEF AdministrativeOnly, SameTerms, LifeCycle, history
  <1>8. ASSUME NEW from \in Treasuries, NEW amount \in Deposits,
               Deposit(from, amount)
        PROVE  LifeCycle'
    BY <1>8 DEF Deposit, LifeCycle, accountVars
  <1>9. CASE NextSecond
    BY <1>9 DEF NextSecond, LifeCycle, accountVars, history
  <1>10. CASE UNCHANGED <<accountVars, balance, now, history>>
    BY <1>10 DEF LifeCycle, accountVars, history
  <1> QED
    BY <1>1, <1>2, <1>3, <1>4, <1>5, <1>6, <1>7, <1>8, <1>9, <1>10, NextCases

-----------------------------------------------------------------------------
(* The vault. *)

\* A claim or a sweep takes from the vault exactly what it transfers.
LEMMA VaultAfterTransfer ==
    ASSUME TypeOK, NEW from \in Accounts, NEW to \in Accounts,
           NEW amount \in Nat, from # to, Transfer(from, to, amount)
    PROVE  /\ from = Vault => balance'[Vault] = balance[Vault] - amount
           /\ to = Vault => balance'[Vault] = balance[Vault] + amount
  BY VaultAndClaimants DEF Transfer, TypeOK

\* Until the clawback, what leaves the vault is what new_claim and
\* claim_locked add to total_amount_claimed, and what enters it is a deposit.
LEMMA NextVaultBalanced ==
    ASSUME TypeOK, TypeOK', VaultBalanced, [Next]_vars
    PROVE  VaultBalanced'
  <1> USE VaultAndClaimants DEF TypeOK, Distributor
  <1>1. ASSUME NEW args \in NewDistributorArgs, NewDistributor(args)
        PROVE  VaultBalanced'
    BY <1>1 DEF NewDistributor, VaultBalanced
  <1>2. ASSUME NEW leaf \in Leaf,
               NewClaim(leaf.claimant, leaf.unlocked, leaf.locked)
        PROVE  VaultBalanced'
    <2>1. leaf.claimant \in Claimants /\ leaf.unlocked \in Nat
      BY MaxU64Assumption DEF Leaf, Amount
    <2>2. balance'[Vault] = balance[Vault] - leaf.unlocked
      BY <1>2, <2>1, VaultAfterTransfer DEF NewClaim
    <2>3. dist'.total_amount_claimed = dist.total_amount_claimed + leaf.unlocked
      BY <1>2 DEF NewClaim
    <2>4. balance[Vault] \in Nat /\ dist.total_amount_claimed \in Nat
      BY MaxU64Assumption DEF Amount
    <2>5. exists /\ ~dist.clawed_back /\ funded' = funded
      BY <1>2 DEF NewClaim, Claiming
    <2> QED
      BY <2>1, <2>2, <2>3, <2>4, <2>5 DEF VaultBalanced
  <1>3. ASSUME NEW c \in Claimants, ClaimLocked(c)
        PROVE  VaultBalanced'
    <2> DEFINE amount == AmountWithdrawable(status[c].locked_amount,
                                            status[c].locked_amount_withdrawn,
                                            now, dist.start_ts, dist.end_ts)
    <2>1. amount \in Nat
      BY <1>3, WithdrawalType, MaxU64Assumption
      DEF ClaimLocked, AmountWithdrawable, Amount
    <2>2. /\ Transfer(Vault, c, amount)
          /\ dist'.total_amount_claimed = dist.total_amount_claimed + amount
          /\ exists /\ ~dist.clawed_back /\ funded' = funded
      BY <1>3 DEF ClaimLocked, Claiming
    <2> HIDE DEF amount
    <2>3. balance'[Vault] = balance[Vault] - amount
      BY <2>1, <2>2, VaultAfterTransfer
    <2>4. balance[Vault] \in Nat /\ dist.total_amount_claimed \in Nat
      BY MaxU64Assumption DEF Amount
    <2> QED
      BY <2>1, <2>2, <2>3, <2>4 DEF VaultBalanced
  <1>4. ASSUME NEW signer \in Signers, Clawback(signer)
        PROVE  VaultBalanced'
    BY <1>4 DEF Clawback, VaultBalanced
  <1>5. ASSUME NEW admin \in Admins, NEW to \in Accounts,
               CloseDistributor(admin, to)
        PROVE  VaultBalanced'
    BY <1>5 DEF CloseDistributor, VaultBalanced
  <1>6. ASSUME NEW admin \in Admins, NEW c \in Claimants,
               CloseClaimStatus(admin, c)
        PROVE  VaultBalanced'
    BY <1>6 DEF CloseClaimStatus, VaultBalanced, history
  <1>7. CASE SetterStep
    BY <1>7, SetterFrame DEF AdministrativeOnly, VaultBalanced, history
  <1>8. ASSUME NEW from \in Treasuries, NEW amount \in Deposits,
               Deposit(from, amount)
        PROVE  VaultBalanced'
    <2>1. amount \in Nat /\ from \in Accounts /\ from # Vault
      BY ArgumentsAssumption
    <2>2. balance'[Vault] = balance[Vault] + amount
      BY <1>8, <2>1, VaultAfterTransfer DEF Deposit
    <2>3. balance[Vault] \in Nat /\ dist.total_amount_claimed \in Nat
      BY MaxU64Assumption DEF Amount
    <2> QED
      BY <1>8, <2>1, <2>2, <2>3 DEF Deposit, VaultBalanced, accountVars
  <1>9. CASE NextSecond
    BY <1>9 DEF NextSecond, VaultBalanced, accountVars, history
  <1>10. CASE UNCHANGED <<accountVars, balance, now, history>>
    BY <1>10 DEF VaultBalanced, accountVars, history
  <1> QED
    BY <1>1, <1>2, <1>3, <1>4, <1>5, <1>6, <1>7, <1>8, <1>9, <1>10, NextCases

-----------------------------------------------------------------------------
(* The claims. *)

\* The vested amount of a claim does not depend on the step unless the clock
\* moves, and then it can only grow.
LEMMA VestedGrows ==
    ASSUME TypeOK, NEW locked \in Amount, now' \in Nat, now <= now'
    PROVE  UnlockedAmount(locked, now, dist.start_ts, dist.end_ts)
             <= UnlockedAmount(locked, now', dist.start_ts, dist.end_ts)
  <1>1. now \in Nat /\ dist.start_ts \in Nat /\ dist.end_ts \in Nat
    BY BoundsAssumption DEF TypeOK, Distributor, Timestamp
  <1> QED
    BY <1>1, UnlockedMonotone

\* In a production distributor each claim status keeps recording a leaf of
\* the root and exactly what its claimant was paid.
LEMMA NextClaimsAccounted ==
    ASSUME TypeOK, TypeOK', LifeCycle, ClaimsAccounted, [Next]_vars
    PROVE  ClaimsAccounted'
  <1> USE DEF TypeOK, Distributor, Production
  <1>1. ASSUME NEW args \in NewDistributorArgs, NewDistributor(args)
        PROVE  ClaimsAccounted'
    BY <1>1 DEF NewDistributor, ClaimsAccounted, LifeCycle
  <1>2. ASSUME NEW leaf \in Leaf,
               NewClaim(leaf.claimant, leaf.unlocked, leaf.locked),
               Production'
        PROVE  ClaimsAccounted'
    <2> DEFINE c == leaf.claimant
    <2>1. c \in Claimants /\ leaf.unlocked \in Nat
      BY MaxU64Assumption DEF Leaf, Amount
    <2>2. Production /\ dist'.root = dist.root
      BY <1>2 DEF NewClaim, Claiming
    <2>3. ASSUME NEW d \in Claimants \ claimed'
          PROVE  paid'[d] = 0
      BY <1>2, <2>1, <2>2, <2>3 DEF NewClaim, ClaimsAccounted
    <2>4. ASSUME NEW d \in claimed'
          PROVE  /\ born'[d] = creations'
                 /\ ~status'[d].closable
                 /\ [claimant |-> d,
                     unlocked |-> status'[d].unlocked_amount,
                     locked |-> status'[d].locked_amount] \in dist'.root
                 /\ paid'[d] = status'[d].unlocked_amount
                                + status'[d].locked_amount_withdrawn
      <3>1. CASE d = c
        <4>1. paid[c] = 0
          BY <1>2, <2>1, <2>2 DEF NewClaim, ClaimsAccounted
        <4>2. status'[c] = [locked_amount |-> leaf.locked,
                            locked_amount_withdrawn |-> 0,
                            unlocked_amount |-> leaf.unlocked,
                            closable |-> dist.closable,
                            admin |-> dist.admin]
          BY <1>2, <2>1 DEF NewClaim
        <4>3. paid'[c] = leaf.unlocked /\ born'[c] = creations'
          BY <1>2, <2>1, <4>1 DEF NewClaim
        <4>4. [claimant |-> c, unlocked |-> leaf.unlocked,
               locked |-> leaf.locked] \in dist.root
          BY <1>2 DEF NewClaim
        <4> QED
          BY <2>1, <2>2, <3>1, <4>2, <4>3, <4>4
      <3>2. CASE d # c
        <4>1. /\ d \in claimed /\ d \in Claimants
              /\ status'[d] = status[d]
              /\ paid'[d] = paid[d]
              /\ born'[d] = born[d]
              /\ creations' = creations
          BY <1>2, <2>1, <2>4, <3>2 DEF NewClaim
        <4> QED
          BY <2>2, <4>1 DEF ClaimsAccounted
      <3> QED
        BY <3>1, <3>2
    <2> QED
      BY <2>3, <2>4 DEF ClaimsAccounted
  <1>3. ASSUME NEW c \in Claimants, ClaimLocked(c), Production'
        PROVE  ClaimsAccounted'
    <2> DEFINE amount == AmountWithdrawable(status[c].locked_amount,
                                            status[c].locked_amount_withdrawn,
                                            now, dist.start_ts, dist.end_ts)
    <2>1. amount \in Nat
      BY <1>3, WithdrawalType, MaxU64Assumption
      DEF ClaimLocked, AmountWithdrawable, Amount
    <2>2. /\ exists
          /\ c \in claimed
          /\ status' = [status EXCEPT
                          ![c].locked_amount_withdrawn = @ + amount]
          /\ dist' = [dist EXCEPT !.total_amount_claimed = @ + amount]
          /\ paid' = [paid EXCEPT ![c] = @ + amount]
          /\ claimed' = claimed
          /\ born' = born
          /\ creations' = creations
      BY <1>3 DEF ClaimLocked, Claiming
    <2> HIDE DEF amount
    <2>3. Production /\ dist'.root = dist.root
      BY <1>3, <2>2
    <2>4. ASSUME NEW d \in claimed, d # c
          PROVE  status'[d] = status[d] /\ paid'[d] = paid[d]
      BY <2>2, <2>4
    <2>5. /\ status'[c].locked_amount_withdrawn
               = status[c].locked_amount_withdrawn + amount
          /\ status'[c].unlocked_amount = status[c].unlocked_amount
          /\ status'[c].locked_amount = status[c].locked_amount
          /\ status'[c].closable = status[c].closable
          /\ paid'[c] = paid[c] + amount
      BY <2>2 DEF ClaimStatus
    <2>6. /\ status[c].locked_amount_withdrawn \in Nat
          /\ status[c].unlocked_amount \in Nat
      BY MaxU64Assumption DEF ClaimStatus, Amount
    <2>7. paid'[c] = status'[c].unlocked_amount
                      + status'[c].locked_amount_withdrawn
      <3>1. paid[c] = status[c].unlocked_amount
                       + status[c].locked_amount_withdrawn
        BY <2>2, <2>3 DEF ClaimsAccounted
      <3> QED
        BY <2>1, <2>5, <2>6, <3>1
    <2>8. ASSUME NEW d \in Claimants \ claimed'
          PROVE  paid'[d] = 0
      <3>1. d \in Claimants \ claimed /\ d # c
        BY <2>2
      <3>2. paid'[d] = paid[d]
        BY <2>2, <3>1
      <3> QED
        BY <2>3, <3>1, <3>2 DEF ClaimsAccounted
    <2>9. /\ born[c] = creations
          /\ ~status[c].closable
          /\ [claimant |-> c,
              unlocked |-> status[c].unlocked_amount,
              locked |-> status[c].locked_amount] \in dist.root
      BY <2>2, <2>3 DEF ClaimsAccounted
    <2>10. ASSUME NEW d \in claimed'
           PROVE  /\ born'[d] = creations'
                  /\ ~status'[d].closable
                  /\ [claimant |-> d,
                      unlocked |-> status'[d].unlocked_amount,
                      locked |-> status'[d].locked_amount] \in dist'.root
                  /\ paid'[d] = status'[d].unlocked_amount
                                 + status'[d].locked_amount_withdrawn
      <3>1. CASE d = c
        BY <2>2, <2>3, <2>5, <2>7, <2>9, <3>1
      <3>2. CASE d # c
        BY <2>2, <2>3, <2>4, <3>2 DEF ClaimsAccounted
      <3> QED
        BY <3>1, <3>2
    <2> QED
      BY <2>8, <2>10 DEF ClaimsAccounted
  <1>4. ASSUME NEW signer \in Signers, Clawback(signer)
        PROVE  ClaimsAccounted'
    BY <1>4 DEF Clawback, ClaimsAccounted, history
  <1>5. ASSUME NEW admin \in Admins, NEW to \in Accounts,
               CloseDistributor(admin, to)
        PROVE  ClaimsAccounted'
    BY <1>5 DEF CloseDistributor, ClaimsAccounted
  <1>6. ASSUME NEW admin \in Admins, NEW c \in Claimants,
               CloseClaimStatus(admin, c)
        PROVE  ClaimsAccounted'
    BY <1>6 DEF CloseClaimStatus, ClaimsAccounted, history
  <1>7. CASE SetterStep
    BY <1>7, SetterFrame
    DEF AdministrativeOnly, SameTerms, ClaimsAccounted, history
  <1>8. ASSUME NEW from \in Treasuries, NEW amount \in Deposits,
               Deposit(from, amount)
        PROVE  ClaimsAccounted'
    BY <1>8 DEF Deposit, ClaimsAccounted, accountVars
  <1>9. CASE NextSecond
    BY <1>9 DEF NextSecond, ClaimsAccounted, accountVars, history
  <1>10. CASE UNCHANGED <<accountVars, balance, now, history>>
    BY <1>10 DEF ClaimsAccounted, accountVars, history
  <1>11. ~Production' => ClaimsAccounted'
    BY DEF ClaimsAccounted
  <1> QED
    BY <1>1, <1>2, <1>3, <1>4, <1>5, <1>6, <1>7, <1>8, <1>9, <1>10, <1>11,
       NextCases

\* No step lets a claim of the present distributor get ahead of the vesting
\* schedule: claim_locked withdraws up to the vested amount, which only grows.
LEMMA NextWithdrawnNeverAhead ==
    ASSUME TypeOK, TypeOK', LifeCycle, WithdrawnNeverAhead, [Next]_vars
    PROVE  WithdrawnNeverAhead'
  <1> USE DEF TypeOK, Distributor
  <1>1. ASSUME NEW args \in NewDistributorArgs, NewDistributor(args)
        PROVE  WithdrawnNeverAhead'
    <2>1. \A c \in claimed' : born'[c] # creations'
      BY <1>1 DEF NewDistributor, LifeCycle
    <2> QED
      BY <2>1 DEF WithdrawnNeverAhead
  <1>2. ASSUME NEW leaf \in Leaf,
               NewClaim(leaf.claimant, leaf.unlocked, leaf.locked)
        PROVE  WithdrawnNeverAhead'
    <2> DEFINE c == leaf.claimant
    <2>1. c \in Claimants /\ leaf.locked \in Amount
      BY DEF Leaf
    <2>2. /\ exists /\ now' = now /\ creations' = creations
          /\ dist'.start_ts = dist.start_ts
          /\ dist'.end_ts = dist.end_ts
      BY <1>2 DEF NewClaim, Claiming, clock
    <2>3. ASSUME NEW d \in claimed', born'[d] = creations', d # c
          PROVE  status'[d] = status[d] /\ d \in claimed /\ born[d] = creations
      BY <1>2, <2>1, <2>2, <2>3 DEF NewClaim
    <2>4. /\ status'[c].locked_amount_withdrawn = 0
          /\ status'[c].locked_amount = leaf.locked
      BY <1>2, <2>1 DEF NewClaim
    <2>5. /\ leaf.locked \in Nat
          /\ UnlockedAmount(leaf.locked, now', dist'.start_ts, dist'.end_ts)
               \in 0..leaf.locked
      <3>1. now' \in Nat /\ dist'.start_ts \in Nat /\ dist'.end_ts \in Nat
        BY BoundsAssumption DEF Timestamp
      <3>2. leaf.locked \in Nat
        BY <2>1, MaxU64Assumption DEF Amount
      <3> QED
        BY <2>1, <3>1, <3>2, UnlockedBounded
    <2>6. ASSUME NEW d \in claimed', born'[d] = creations'
          PROVE  status'[d].locked_amount_withdrawn
                   <= UnlockedAmount(status'[d].locked_amount, now',
                                     dist'.start_ts, dist'.end_ts)
      <3>1. CASE d = c
        BY <2>4, <2>5, <3>1
      <3>2. CASE d # c
        BY <2>2, <2>3, <2>6, <3>2 DEF WithdrawnNeverAhead
      <3> QED
        BY <3>1, <3>2
    <2> QED
      BY <2>6 DEF WithdrawnNeverAhead
  <1>3. ASSUME NEW c \in Claimants, ClaimLocked(c)
        PROVE  WithdrawnNeverAhead'
    <2> DEFINE vested == UnlockedAmount(status[c].locked_amount, now,
                                        dist.start_ts, dist.end_ts)
               amount == vested - status[c].locked_amount_withdrawn
    <2>1. /\ status[c].locked_amount_withdrawn \in Nat
          /\ vested \in Nat
      BY WithdrawalType, MaxU64Assumption DEF Amount
    <2>2. /\ exists /\ now' = now /\ creations' = creations
          /\ claimed' = claimed /\ born' = born
          /\ status' = [status EXCEPT
                          ![c].locked_amount_withdrawn = @ + amount]
          /\ dist'.start_ts = dist.start_ts
          /\ dist'.end_ts = dist.end_ts
      BY <1>3 DEF ClaimLocked, AmountWithdrawable, Claiming, clock
    <2>3. ASSUME NEW d \in claimed, d # c
          PROVE  status'[d] = status[d]
      BY <2>2, <2>3
    <2> HIDE DEF vested
    <2>4. /\ status'[c].locked_amount_withdrawn = vested
          /\ status'[c].locked_amount = status[c].locked_amount
      BY <2>1, <2>2 DEF ClaimStatus
    <2> USE DEF vested
    <2>5. UnlockedAmount(status'[c].locked_amount, now',
                         dist'.start_ts, dist'.end_ts) = vested
      BY <2>2, <2>4
    <2>6. ASSUME NEW d \in claimed', born'[d] = creations'
          PROVE  status'[d].locked_amount_withdrawn
                   <= UnlockedAmount(status'[d].locked_amount, now',
                                     dist'.start_ts, dist'.end_ts)
      <3>1. CASE d = c
        <4> HIDE DEF vested
        <4> QED
          BY <2>1, <2>4, <2>5, <3>1
      <3>2. CASE d # c
        BY <2>2, <2>3, <2>6, <3>2 DEF WithdrawnNeverAhead
      <3> QED
        BY <3>1, <3>2
    <2> QED
      BY <2>6 DEF WithdrawnNeverAhead
  <1>4. ASSUME NEW signer \in Signers, Clawback(signer)
        PROVE  WithdrawnNeverAhead'
    BY <1>4 DEF Clawback, WithdrawnNeverAhead, clock, history
  <1>5. ASSUME NEW admin \in Admins, NEW to \in Accounts,
               CloseDistributor(admin, to)
        PROVE  WithdrawnNeverAhead'
    BY <1>5 DEF CloseDistributor, WithdrawnNeverAhead
  <1>6. ASSUME NEW admin \in Admins, NEW c \in Claimants,
               CloseClaimStatus(admin, c)
        PROVE  WithdrawnNeverAhead'
    BY <1>6 DEF CloseClaimStatus, WithdrawnNeverAhead, clock, history
  <1>7. CASE SetterStep
    BY <1>7, SetterFrame
    DEF AdministrativeOnly, SameTerms, WithdrawnNeverAhead, clock, history
  <1>8. ASSUME NEW from \in Treasuries, NEW amount \in Deposits,
               Deposit(from, amount)
        PROVE  WithdrawnNeverAhead'
    BY <1>8 DEF Deposit, WithdrawnNeverAhead, accountVars, clock
  <1>9. CASE NextSecond
    <2>1. now' \in Nat /\ now <= now'
      BY <1>9 DEF NextSecond
    <2>2. UNCHANGED <<exists, dist, claimed, status, creations, born>>
      BY <1>9 DEF NextSecond, accountVars, history
    <2>3. ASSUME NEW c \in claimed, exists, born[c] = creations
          PROVE  status[c].locked_amount_withdrawn
                   <= UnlockedAmount(status[c].locked_amount, now',
                                     dist.start_ts, dist.end_ts)
      <3>1. c \in Claimants /\ status[c].locked_amount \in Amount
        BY DEF ClaimStatus
      <3>2. status[c].locked_amount_withdrawn
              <= UnlockedAmount(status[c].locked_amount, now,
                                dist.start_ts, dist.end_ts)
        BY <2>3 DEF WithdrawnNeverAhead
      <3>3. UnlockedAmount(status[c].locked_amount, now,
                           dist.start_ts, dist.end_ts)
              <= UnlockedAmount(status[c].locked_amount, now',
                                dist.start_ts, dist.end_ts)
        BY <2>1, <3>1, VestedGrows
      <3>4. /\ status[c].locked_amount \in Nat
            /\ status[c].locked_amount_withdrawn \in Nat
            /\ dist.start_ts \in Nat /\ dist.end_ts \in Nat
        BY <3>1, MaxU64Assumption, BoundsAssumption
        DEF ClaimStatus, Amount, Timestamp
      <3>5. /\ UnlockedAmount(status[c].locked_amount, now,
                              dist.start_ts, dist.end_ts) \in Nat
            /\ UnlockedAmount(status[c].locked_amount, now',
                              dist.start_ts, dist.end_ts) \in Nat
        <4>1. /\ UnlockedAmount(status[c].locked_amount, now,
                                dist.start_ts, dist.end_ts)
                   \in 0..status[c].locked_amount
              /\ UnlockedAmount(status[c].locked_amount, now',
                                dist.start_ts, dist.end_ts)
                   \in 0..status[c].locked_amount
          BY <2>1, <3>1, <3>4, UnlockedBounded
        <4> QED
          BY <3>4, <4>1
      <3> QED
        BY <3>2, <3>3, <3>4, <3>5
    <2> QED
      BY <2>2, <2>3 DEF WithdrawnNeverAhead
  <1>10. CASE UNCHANGED <<accountVars, balance, now, history>>
    BY <1>10 DEF WithdrawnNeverAhead, accountVars, history
  <1> QED
    BY <1>1, <1>2, <1>3, <1>4, <1>5, <1>6, <1>7, <1>8, <1>9, <1>10, NextCases

\* A clawback is executed only when clawback_start_ts, and hence the end of
\* vesting by a day, has passed; time never runs backwards afterwards.
LEMMA NextClawbackAfterVesting ==
    ASSUME TypeOK, TypeOK', LifeCycle, ClawbackAfterVesting, [Next]_vars
    PROVE  ClawbackAfterVesting'
  <1> USE BoundsAssumption DEF TypeOK, Distributor, Timestamp
  <1>1. ASSUME NEW args \in NewDistributorArgs, NewDistributor(args)
        PROVE  ClawbackAfterVesting'
    BY <1>1 DEF NewDistributor, ClawbackAfterVesting
  <1>2. ASSUME NEW leaf \in Leaf,
               NewClaim(leaf.claimant, leaf.unlocked, leaf.locked)
        PROVE  ClawbackAfterVesting'
    BY <1>2 DEF NewClaim, Claiming, ClawbackAfterVesting
  <1>3. ASSUME NEW c \in Claimants, ClaimLocked(c)
        PROVE  ClawbackAfterVesting'
    BY <1>3 DEF ClaimLocked, Claiming, ClawbackAfterVesting
  <1>4. ASSUME NEW signer \in Signers, Clawback(signer)
        PROVE  ClawbackAfterVesting'
    BY <1>4 DEF Clawback, ClawbackAfterVesting, LifeCycle, clock
  <1>5. ASSUME NEW admin \in Admins, NEW to \in Accounts,
               CloseDistributor(admin, to)
        PROVE  ClawbackAfterVesting'
    BY <1>5 DEF CloseDistributor, ClawbackAfterVesting
  <1>6. ASSUME NEW admin \in Admins, NEW c \in Claimants,
               CloseClaimStatus(admin, c)
        PROVE  ClawbackAfterVesting'
    BY <1>6 DEF CloseClaimStatus, ClawbackAfterVesting, clock
  <1>7. CASE SetterStep
    BY <1>7, SetterFrame
    DEF AdministrativeOnly, SameTerms, ClawbackAfterVesting, clock
  <1>8. ASSUME NEW from \in Treasuries, NEW amount \in Deposits,
               Deposit(from, amount)
        PROVE  ClawbackAfterVesting'
    BY <1>8 DEF Deposit, ClawbackAfterVesting, accountVars, clock
  <1>9. CASE NextSecond
    BY <1>9 DEF NextSecond, ClawbackAfterVesting, accountVars
  <1>10. CASE UNCHANGED <<accountVars, balance, now, history>>
    BY <1>10 DEF ClawbackAfterVesting, accountVars
  <1> QED
    BY <1>1, <1>2, <1>3, <1>4, <1>5, <1>6, <1>7, <1>8, <1>9, <1>10, NextCases

-----------------------------------------------------------------------------
(* The counters. *)

\* A finite tree has finitely many claimants, at most one for each leaf.
LEMMA ClaimantsFinite ==
    ASSUME NEW tree, IsFiniteSet(tree)
    PROVE  /\ IsFiniteSet(ClaimantsOf(tree))
           /\ Cardinality(ClaimantsOf(tree)) <= Cardinality(tree)
  <1> DEFINE f == [leaf \in tree |-> leaf.claimant]
  <1>1. f \in Surjection(tree, ClaimantsOf(tree))
    BY DEF Surjection, ClaimantsOf
  <1> QED
    BY <1>1, FS_Surjection

\* In a production distributor every claim status is one of a claimant of the
\* tree.
LEMMA ClaimedInTree ==
    ASSUME TypeOK, ClaimsAccounted, Production
    PROVE  claimed \subseteq ClaimantsOf(dist.root)
  <1> SUFFICES ASSUME NEW c \in claimed PROVE c \in ClaimantsOf(dist.root)
    OBVIOUS
  <1> DEFINE leaf == [claimant |-> c,
                      unlocked |-> status[c].unlocked_amount,
                      locked |-> status[c].locked_amount]
  <1>1. leaf \in dist.root /\ leaf.claimant = c
    BY DEF ClaimsAccounted
  <1> QED
    BY <1>1 DEF ClaimantsOf

\* What a claim changes of the counters: one node, and the amount it pays.
LEMMA ClaimCounts ==
    ASSUME TypeOK, Production, CountersExact,
           NEW c \in ClaimantsOf(dist.root), NEW amount \in Nat,
           c \in Claimants, ClaimantsOf(dist.root) \subseteq Claimants,
           paid' = [paid EXCEPT ![c] = @ + amount]
    PROVE  SumFunctionOnSet(paid', ClaimantsOf(dist.root))
             = dist.total_amount_claimed + amount
  <1> DEFINE S == ClaimantsOf(dist.root)
  <1>1. IsFiniteSet(S)
    BY ClaimantsFinite DEF CountersExact
  <1>2. /\ \A y \in S : paid[y] \in Int
        /\ paid'[c] = paid[c] + amount
        /\ \A y \in S \ {c} : paid'[y] = paid[y]
    BY DEF TypeOK
  <1>3. dist.total_amount_claimed = SumFunctionOnSet(paid, S)
    BY DEF CountersExact
  <1> HIDE DEF S
  <1>4. SumFunctionOnSet(paid', S) = SumFunctionOnSet(paid, S) + amount
    <2> DEFINE q == paid'
    <2>1. c \in S /\ amount \in Int
      BY DEF S
    <2>2. q[c] = paid[c] + amount /\ \A y \in S \ {c} : q[y] = paid[y]
      BY <1>2
    <2> HIDE DEF q
    <2>3. SumFunctionOnSet(q, S) = SumFunctionOnSet(paid, S) + amount
      BY <1>1, <1>2, <2>1, <2>2, SumUpdate
    <2> QED
      BY <2>3 DEF q
  <1> QED
    BY <1>3, <1>4 DEF S

\* num_nodes_claimed counts the claim statuses and total_amount_claimed adds
\* up the payments, step by step.
LEMMA NextCountersExact ==
    ASSUME TypeOK, TypeOK', LifeCycle, ClaimsAccounted, CountersExact,
           [Next]_vars
    PROVE  CountersExact'
  <1>1. ASSUME NEW args \in NewDistributorArgs, NewDistributor(args)
        PROVE  CountersExact'
    <2> SUFFICES ASSUME Production' PROVE CountersExact'
      BY DEF CountersExact
    <2>1. /\ dist'.root = args.root /\ args.root \in Trees
          /\ dist'.num_nodes_claimed = 0 /\ dist'.total_amount_claimed = 0
          /\ paid' = [c \in Claimants |-> 0]
          /\ claimed' = {}
      BY <1>1 DEF NewDistributor, NewDistributorArgs, Production, LifeCycle, TypeOK
    <2>2. IsFiniteSet(dist'.root) /\ dist'.root \subseteq Leaf
      BY <2>1, ArgumentsAssumption
    <2>3. /\ IsFiniteSet(ClaimantsOf(dist'.root))
          /\ \A c \in ClaimantsOf(dist'.root) : paid'[c] = 0
      BY <2>1, <2>2, ClaimantsFinite DEF ClaimantsOf, Leaf
    <2>4. SumFunctionOnSet(paid', ClaimantsOf(dist'.root)) = 0
      BY <2>3, SumZero
    <2> QED
      BY <2>1, <2>2, <2>4, FS_EmptySet DEF CountersExact
  <1>2. ASSUME NEW leaf \in Leaf,
               NewClaim(leaf.claimant, leaf.unlocked, leaf.locked),
               Production'
        PROVE  CountersExact'
    <2> DEFINE c == leaf.claimant
    <2>1. c \in Claimants /\ leaf.unlocked \in Nat
      BY MaxU64Assumption DEF Leaf, Amount
    <2>2. /\ Production /\ dist'.root = dist.root
          /\ claimed' = claimed \cup {c} /\ c \notin claimed
          /\ paid' = [paid EXCEPT ![c] = @ + leaf.unlocked]
          /\ dist'.num_nodes_claimed = dist.num_nodes_claimed + 1
          /\ dist'.total_amount_claimed
               = dist.total_amount_claimed + leaf.unlocked
      BY <1>2 DEF NewClaim, Claiming, Production, TypeOK, Distributor
    <2>3. c \in ClaimantsOf(dist.root)
      BY <1>2 DEF NewClaim, ClaimantsOf
    <2>4. ClaimantsOf(dist.root) \subseteq Claimants
      BY DEF TypeOK, Distributor, ClaimantsOf, Leaf
    <2>5. SumFunctionOnSet(paid', ClaimantsOf(dist.root))
            = dist.total_amount_claimed + leaf.unlocked
      BY <2>1, <2>2, <2>3, <2>4, ClaimCounts
    <2>6. Cardinality(claimed') = Cardinality(claimed) + 1
      <3>1. IsFiniteSet(claimed)
        BY <2>2, ClaimedInTree, ClaimantsFinite, FS_Subset DEF CountersExact
      <3> QED
        BY <2>2, <3>1, FS_AddElement
    <2> QED
      BY <2>2, <2>5, <2>6 DEF CountersExact
  <1>3. ASSUME NEW c \in Claimants, ClaimLocked(c), Production'
        PROVE  CountersExact'
    <2> DEFINE amount == AmountWithdrawable(status[c].locked_amount,
                                            status[c].locked_amount_withdrawn,
                                            now, dist.start_ts, dist.end_ts)
    <2>1. amount \in Nat
      BY <1>3, WithdrawalType, MaxU64Assumption
      DEF ClaimLocked, AmountWithdrawable, Amount
    <2>2. /\ exists /\ creations' = creations
          /\ c \in claimed
          /\ dist' = [dist EXCEPT !.total_amount_claimed = @ + amount]
          /\ paid' = [paid EXCEPT ![c] = @ + amount]
          /\ claimed' = claimed
      BY <1>3 DEF ClaimLocked, Claiming
    <2> HIDE DEF amount
    <2>3. /\ Production /\ dist'.root = dist.root
          /\ dist'.num_nodes_claimed = dist.num_nodes_claimed
          /\ dist'.total_amount_claimed = dist.total_amount_claimed + amount
      BY <1>3, <2>2 DEF Production, TypeOK, Distributor
    <2>4. /\ ClaimantsOf(dist.root) \subseteq Claimants
          /\ c \in ClaimantsOf(dist.root)
      BY <2>2, <2>3, ClaimedInTree DEF TypeOK, Distributor, ClaimantsOf, Leaf
    <2>5. SumFunctionOnSet(paid', ClaimantsOf(dist.root))
            = dist.total_amount_claimed + amount
      BY <2>1, <2>2, <2>3, <2>4, ClaimCounts
    <2> QED
      BY <2>2, <2>3, <2>5 DEF CountersExact
  <1> USE DEF TypeOK, Distributor, Production
  <1>4. ASSUME NEW signer \in Signers, Clawback(signer)
        PROVE  CountersExact'
    BY <1>4 DEF Clawback, CountersExact, history
  <1>5. ASSUME NEW admin \in Admins, NEW to \in Accounts,
               CloseDistributor(admin, to)
        PROVE  CountersExact'
    BY <1>5 DEF CloseDistributor, CountersExact
  <1>6. ASSUME NEW admin \in Admins, NEW c \in Claimants,
               CloseClaimStatus(admin, c)
        PROVE  CountersExact'
    BY <1>6 DEF CloseClaimStatus, CountersExact, ClaimsAccounted, history
  <1>7. CASE SetterStep
    BY <1>7, SetterFrame
    DEF AdministrativeOnly, SameTerms, CountersExact, history
  <1>8. ASSUME NEW from \in Treasuries, NEW amount \in Deposits,
               Deposit(from, amount)
        PROVE  CountersExact'
    BY <1>8 DEF Deposit, CountersExact, accountVars
  <1>9. CASE NextSecond
    BY <1>9 DEF NextSecond, CountersExact, accountVars, history
  <1>10. CASE UNCHANGED <<accountVars, balance, now, history>>
    BY <1>10 DEF CountersExact, accountVars, history
  <1>11. ~Production' => CountersExact'
    BY DEF CountersExact
  <1> QED
    BY <1>1, <1>2, <1>3, <1>4, <1>5, <1>6, <1>7, <1>8, <1>9, <1>10, <1>11,
       NextCases

-----------------------------------------------------------------------------
(* The inductive invariant and what follows from it. *)

\* The inductive invariant holds before the first instruction.
LEMMA InitIInv == Init => IInv
  <1> SUFFICES ASSUME Init PROVE IInv
    OBVIOUS
  <1>1. TypeOK
    BY InitTypeOK
  <1>2. LifeCycle /\ ClaimsAccounted /\ CountersExact /\ VaultBalanced
    BY DEF Init, LifeCycle, ClaimsAccounted, CountersExact, VaultBalanced,
           Production
  <1>3. WithdrawnNeverAhead /\ ClawbackAfterVesting
    BY DEF Init, WithdrawnNeverAhead, ClawbackAfterVesting
  <1> QED
    BY <1>1, <1>2, <1>3 DEF IInv

\* Every step preserves the inductive invariant.
LEMMA NextIInv == IInv /\ [Next]_vars => IInv'
  <1> SUFFICES ASSUME IInv, [Next]_vars PROVE IInv'
    OBVIOUS
  <1>1. TypeOK'
    BY NextTypeOK DEF IInv
  <1> QED
    BY <1>1, NextLifeCycle, NextClaimsAccounted, NextCountersExact,
       NextVaultBalanced, NextWithdrawnNeverAhead, NextClawbackAfterVesting
    DEF IInv

\* The inductive invariant holds in every state the program can reach.
THEOREM Invariance == Spec => []IInv
  BY InitIInv, NextIInv, PTL DEF Spec

\* What a claim has withdrawn never runs ahead of what has vested, so
\* amount_withdrawable's checked_sub never fails for a claim of the present
\* distributor.
THEOREM VestingRespected == Spec => []WithdrawnNeverAhead
  <1>1. IInv => WithdrawnNeverAhead
    BY DEF IInv
  <1> QED
    BY <1>1, Invariance, PTL

\* A clawback comes at least a day after the end of vesting.
THEOREM ClawbackWaits == Spec => []ClawbackAfterVesting
  <1>1. IInv => ClawbackAfterVesting
    BY DEF IInv
  <1> QED
    BY <1>1, Invariance, PTL

\* No claimant of a production distributor ever receives more than the vested
\* part of its leaf.
THEOREM NoOverpayment == Spec => []PaidIsVested
  <1>1. IInv => PaidIsVested
    <2> SUFFICES ASSUME IInv, Production, NEW c \in Claimants, paid[c] # 0
                 PROVE  \E leaf \in dist.root :
                          /\ leaf.claimant = c
                          /\ paid[c] <= leaf.unlocked
                               + UnlockedAmount(leaf.locked, now,
                                                dist.start_ts, dist.end_ts)
      BY DEF PaidIsVested
    <2> DEFINE leaf == [claimant |-> c,
                        unlocked |-> status[c].unlocked_amount,
                        locked |-> status[c].locked_amount]
    <2>1. c \in claimed
      BY DEF IInv, ClaimsAccounted
    <2>2. /\ leaf \in dist.root
          /\ born[c] = creations
          /\ paid[c] = status[c].unlocked_amount
                         + status[c].locked_amount_withdrawn
      BY <2>1 DEF IInv, ClaimsAccounted
    <2>3. status[c].locked_amount_withdrawn
            <= UnlockedAmount(status[c].locked_amount, now,
                              dist.start_ts, dist.end_ts)
      BY <2>1, <2>2 DEF IInv, WithdrawnNeverAhead, Production
    <2>4. /\ status[c].unlocked_amount \in Nat
          /\ status[c].locked_amount_withdrawn \in Nat
          /\ UnlockedAmount(status[c].locked_amount, now,
                            dist.start_ts, dist.end_ts) \in Nat
      BY WithdrawalType, MaxU64Assumption DEF IInv, TypeOK, ClaimStatus, Amount
    <2>5. paid[c] <= status[c].unlocked_amount
                      + UnlockedAmount(status[c].locked_amount, now,
                                       dist.start_ts, dist.end_ts)
      BY <2>2, <2>3, <2>4
    <2> QED
      BY <2>2, <2>5
  <1> QED
    BY <1>1, Invariance, PTL

\* A vault funded with max_total_claim covers every claim under the cap until
\* the clawback.
THEOREM Solvency == Spec => []SolventOnceFunded
  <1>1. IInv => SolventOnceFunded
    <2>1. ASSUME IInv
          PROVE  /\ balance[Vault] \in Nat
                 /\ dist.total_amount_claimed \in Nat
                 /\ dist.max_total_claim \in Nat
      BY <2>1, VaultAndClaimants, MaxU64Assumption
      DEF IInv, TypeOK, Distributor, Amount
    <2> QED
      BY <2>1 DEF IInv, VaultBalanced, SolventOnceFunded, TypeOK
  <1> QED
    BY <1>1, Invariance, PTL

\* What is still due to the leaves, together with what their claimants were
\* paid, is at most the total of the tree; less if a claimant has two leaves,
\* of which the program honours one.
LEMMA DueBounded ==
    ASSUME NEW root, IsFiniteSet(root), root \subseteq Leaf,
           NEW got \in [Claimants -> Nat]
    PROVE  LET due == [leaf \in root |->
                         leaf.unlocked + leaf.locked - got[leaf.claimant]]
           IN  /\ SumFunction(due) \in Int
               /\ TreeTotal(root) \in Int
               /\ SumFunctionOnSet(got, ClaimantsOf(root)) \in Int
               /\ SumFunction(due) + SumFunctionOnSet(got, ClaimantsOf(root))
                    <= TreeTotal(root)
  <1> DEFINE due == [leaf \in root |->
                       leaf.unlocked + leaf.locked - got[leaf.claimant]]
             all == [leaf \in root |-> leaf.unlocked + leaf.locked]
  <1>1. \A leaf \in root : /\ leaf.claimant \in Claimants
                           /\ leaf.unlocked \in Nat /\ leaf.locked \in Nat
                           /\ got[leaf.claimant] \in Nat
    BY MaxU64Assumption DEF Leaf, Amount
  <1>2. \A leaf \in root : /\ due[leaf] \in Int
                           /\ all[leaf] \in Int
                           /\ due[leaf] = all[leaf] - got[leaf.claimant]
    BY <1>1
  <1>3. DOMAIN due = root /\ DOMAIN all = root
    OBVIOUS
  <1>4. SumFunction(due) = SumFunctionOnSet(due, root)
    BY <1>3 DEF SumFunction
  <1>5. TreeTotal(root) = SumFunctionOnSet(all, root)
    BY <1>3 DEF SumFunction, TreeTotal
  <1> HIDE DEF due, all
  <1> DEFINE Got(S) == SumFunctionOnSet(got, ClaimantsOf(S))
             P == {S \in SUBSET root :
                     SumFunctionOnSet(due, S) + Got(S) <= SumFunctionOnSet(all, S)}
  <1>6. ASSUME NEW S \in SUBSET root
        PROVE  /\ IsFiniteSet(S) /\ IsFiniteSet(ClaimantsOf(S))
               /\ \A c \in ClaimantsOf(S) : got[c] \in Nat
               /\ SumFunctionOnSet(due, S) \in Int
               /\ SumFunctionOnSet(all, S) \in Int
               /\ Got(S) \in Int
    <2>1. IsFiniteSet(S)
      BY FS_Subset
    <2>2. IsFiniteSet(ClaimantsOf(S))
      BY <2>1, ClaimantsFinite
    <2>3. \A c \in ClaimantsOf(S) : got[c] \in Nat
      BY <1>1 DEF ClaimantsOf
    <2>4. Got(S) \in Int
      BY <2>2, <2>3, SumType
    <2>5. SumFunctionOnSet(due, S) \in Int /\ SumFunctionOnSet(all, S) \in Int
      BY <1>2, <2>1, SumType
    <2> QED
      BY <2>1, <2>2, <2>3, <2>4, <2>5
  <1>7. {} \in P
    <2>1. ClaimantsOf({}) = {}
      BY DEF ClaimantsOf
    <2>2. /\ SumFunctionOnSet(due, {}) = 0 /\ SumFunctionOnSet(all, {}) = 0
          /\ Got({}) = 0
      BY <2>1, SumEmpty
    <2> HIDE DEF Got
    <2> QED
      BY <2>2
  <1>8. ASSUME NEW S \in SUBSET root, S # {}, \A x \in S : S \ {x} \in P
        PROVE  S \in P
    <2>1. PICK x \in S : TRUE
      BY <1>8
    <2> DEFINE R == S \ {x}
               c == x.claimant
    <2>2. SumFunctionOnSet(due, R) + Got(R) <= SumFunctionOnSet(all, R)
      BY <1>8, <2>1
    <2>3. /\ SumFunctionOnSet(due, S) = due[x] + SumFunctionOnSet(due, R)
          /\ SumFunctionOnSet(all, S) = all[x] + SumFunctionOnSet(all, R)
      BY <1>2, <1>6, SumRemove
    <2>4. Got(S) <= got[c] + Got(R)
      <3>1. c \in ClaimantsOf(S) /\ got[c] \in Nat
        BY <1>1, <2>1 DEF ClaimantsOf
      <3>2. CASE c \in ClaimantsOf(R)
        <4>1. ClaimantsOf(S) = ClaimantsOf(R)
          BY <2>1, <3>2 DEF ClaimantsOf
        <4> QED
          BY <1>6, <3>1, <4>1
      <3>3. CASE c \notin ClaimantsOf(R)
        <4>1. ClaimantsOf(R) = ClaimantsOf(S) \ {c}
          BY <2>1, <3>3 DEF ClaimantsOf
        <4>2. Got(S) = got[c] + SumFunctionOnSet(got, ClaimantsOf(S) \ {c})
          BY <1>6, <3>1, SumRemove
        <4>3. Got(S) = got[c] + Got(R)
          BY <4>1, <4>2
        <4> HIDE DEF Got
        <4> QED
          BY <1>6, <3>1, <4>3
      <3> QED
        BY <3>2, <3>3
    <2>5. due[x] = all[x] - got[c] /\ all[x] \in Int /\ got[c] \in Nat
      BY <1>1, <1>2, <2>1
    <2>6. R \in SUBSET root
      OBVIOUS
    <2>7. /\ SumFunctionOnSet(due, R) \in Int /\ SumFunctionOnSet(all, R) \in Int
          /\ Got(R) \in Int /\ Got(S) \in Int
      BY <1>6, <2>6
    <2> HIDE DEF R, c, Got
    <2>8. SumFunctionOnSet(due, S) + Got(S) <= SumFunctionOnSet(all, S)
      BY <2>2, <2>3, <2>4, <2>5, <2>7
    <2> QED
      BY <2>8
  <1>9. root \in P
    <2> HIDE DEF P
    <2>1. \A S \in SUBSET root : S \in P
      BY <1>7, <1>8, SubsetInduction
    <2> QED
      BY <2>1
  <1>10. root \in SUBSET root
    OBVIOUS
  <1>11. /\ SumFunctionOnSet(due, root) + Got(root)
              <= SumFunctionOnSet(all, root)
         /\ SumFunctionOnSet(due, root) \in Int
         /\ SumFunctionOnSet(all, root) \in Int
         /\ Got(root) \in Int
    BY <1>6, <1>9, <1>10
  <1> QED
    BY <1>4, <1>5, <1>11 DEF due

\* The caps and the vault of a production distributor that was created with
\* its tree's totals never lock out a claimant, for every tree: what the
\* counters have used up is exactly what the claimants have got.
THEOREM EverybodyFits == Spec => []NobodyLockedOut
  <1>1. IInv => NobodyLockedOut
    <2> SUFFICES ASSUME IInv, Production, ~dist.clawed_back,
                        dist.max_num_nodes >= Cardinality(dist.root),
                        dist.max_total_claim >= TreeTotal(dist.root)
                 PROVE  /\ dist.num_nodes_claimed
                             + Cardinality(ClaimantsOf(dist.root) \ claimed)
                             <= dist.max_num_nodes
                        /\ dist.total_amount_claimed + StillDue
                             <= dist.max_total_claim
                        /\ funded >= dist.max_total_claim =>
                             balance[Vault] >= StillDue
      BY DEF NobodyLockedOut
    <2> DEFINE S == ClaimantsOf(dist.root)
    <2>1. /\ IsFiniteSet(dist.root) /\ dist.root \subseteq Leaf
          /\ paid \in [Claimants -> Nat]
          /\ dist.num_nodes_claimed = Cardinality(claimed)
          /\ dist.total_amount_claimed = SumFunctionOnSet(paid, S)
      BY DEF IInv, CountersExact, TypeOK, Distributor
    <2>2. /\ IsFiniteSet(S) /\ Cardinality(S) <= Cardinality(dist.root)
          /\ claimed \subseteq S
      BY <2>1, ClaimantsFinite, ClaimedInTree DEF IInv
    <2> HIDE DEF S
    <2>3. dist.num_nodes_claimed + Cardinality(S \ claimed)
            <= dist.max_num_nodes
      <3>1. IsFiniteSet(claimed) /\ IsFiniteSet(S \ claimed)
        BY <2>2, FS_Subset
      <3>2. /\ (S \ claimed) \cup claimed = S
            /\ (S \ claimed) \cap claimed = {}
        BY <2>2
      <3>3. Cardinality(S) = Cardinality(S \ claimed) + Cardinality(claimed) - 0
        BY <3>1, <3>2, FS_Union, FS_EmptySet
      <3>4. /\ Cardinality(claimed) \in Nat /\ Cardinality(S \ claimed) \in Nat
            /\ Cardinality(S) \in Nat /\ Cardinality(dist.root) \in Nat
            /\ dist.max_num_nodes \in Nat
        BY <2>1, <2>2, <3>1, FS_CardinalityType, MaxU64Assumption
        DEF IInv, TypeOK, Distributor, Amount
      <3> QED
        BY <2>1, <2>2, <3>3, <3>4
    <2>4. /\ StillDue \in Int /\ TreeTotal(dist.root) \in Int
          /\ SumFunctionOnSet(paid, S) \in Int
          /\ StillDue + SumFunctionOnSet(paid, S) <= TreeTotal(dist.root)
      BY <2>1, DueBounded DEF StillDue, S
    <2>5. /\ dist.max_total_claim \in Nat /\ balance[Vault] \in Nat
          /\ funded \in Nat /\ dist.total_amount_claimed \in Nat
      BY VaultAndClaimants, MaxU64Assumption
      DEF IInv, TypeOK, Distributor, Amount
    <2>6. dist.total_amount_claimed + StillDue <= dist.max_total_claim
      BY <2>1, <2>4, <2>5
    <2>7. balance[Vault] + dist.total_amount_claimed = funded
      BY DEF IInv, VaultBalanced, Production
    <2>8. funded >= dist.max_total_claim => balance[Vault] >= StillDue
      BY <2>4, <2>5, <2>6, <2>7
    <2> QED
      BY <2>3, <2>6, <2>8 DEF S
  <1> QED
    BY <1>1, Invariance, PTL

\* No instruction changes what was promised at creation, undoes a clawback, or
\* takes back a claim that was counted.
THEOREM PromisesKept == Spec => PromiseKept
  <1>1. ASSUME TypeOK, [Next]_vars
        PROVE  [KeepsPromise]_vars
    <2> USE <1>1, MaxU64Assumption DEF TypeOK, Distributor, Amount
    <2>1. ASSUME NEW args \in NewDistributorArgs, NewDistributor(args)
          PROVE  KeepsPromise
      BY <2>1 DEF NewDistributor, KeepsPromise
    <2>2. ASSUME NEW leaf \in Leaf,
                 NewClaim(leaf.claimant, leaf.unlocked, leaf.locked)
          PROVE  KeepsPromise
      <3>1. leaf.unlocked \in Nat
        BY DEF Leaf
      <3> QED
        BY <2>2, <3>1 DEF NewClaim, Claiming, KeepsPromise
    <2>3. ASSUME NEW c \in Claimants, ClaimLocked(c)
          PROVE  KeepsPromise
      <3> DEFINE amount == AmountWithdrawable(
                             status[c].locked_amount,
                             status[c].locked_amount_withdrawn,
                             now, dist.start_ts, dist.end_ts)
      <3>1. amount \in Nat
        BY <2>3, WithdrawalType DEF ClaimLocked, AmountWithdrawable
      <3>2. /\ ~dist.clawed_back
            /\ dist' = [dist EXCEPT !.total_amount_claimed = @ + amount]
        BY <2>3 DEF ClaimLocked, Claiming
      <3> HIDE DEF amount
      <3> QED
        BY <3>1, <3>2 DEF KeepsPromise
    <2>4. ASSUME NEW signer \in Signers, Clawback(signer)
          PROVE  KeepsPromise
      BY <2>4 DEF Clawback, KeepsPromise
    <2>5. ASSUME NEW admin \in Admins, NEW to \in Accounts,
                 CloseDistributor(admin, to)
          PROVE  KeepsPromise
      BY <2>5 DEF CloseDistributor, KeepsPromise
    <2>6. ASSUME NEW admin \in Admins, NEW c \in Claimants,
                 CloseClaimStatus(admin, c)
          PROVE  KeepsPromise
      BY <2>6 DEF CloseClaimStatus, KeepsPromise, history
    <2>7. CASE SetterStep
      BY <2>7, SetterFrame
      DEF AdministrativeOnly, SameTerms, KeepsPromise, history
    <2>8. ASSUME NEW from \in Treasuries, NEW amount \in Deposits,
                 Deposit(from, amount)
          PROVE  KeepsPromise
      BY <2>8 DEF Deposit, KeepsPromise, accountVars
    <2>9. CASE NextSecond
      BY <2>9 DEF NextSecond, KeepsPromise, accountVars, history
    <2>10. CASE UNCHANGED <<accountVars, balance, now, history>>
      BY <2>10 DEF KeepsPromise, accountVars, history
    <2> QED
      BY <2>1, <2>2, <2>3, <2>4, <2>5, <2>6, <2>7, <2>8, <2>9, <2>10,
         NextCases
  <1> QED
    BY <1>1, TypeCorrect, PTL DEF Spec, PromiseKept

-----------------------------------------------------------------------------
(* The distributor implements the abstract airdrop. *)

\* What holds besides IInv: nothing is paid or clawed back before the first
\* distributor is created.
NothingBefore ==
    creations = 0 => /\ ~exists
                     /\ ~dist.clawed_back
                     /\ paid = [c \in Claimants |-> 0]

\* Nothing has been paid or clawed back at first.
LEMMA InitNothingBefore == Init => NothingBefore
  BY DEF Init, NothingBefore, NoDistributor

\* No instruction pays or claws back before new_distributor has run.
LEMMA NextNothingBefore ==
    ASSUME TypeOK, LifeCycle, NothingBefore, [Next]_vars
    PROVE  NothingBefore'
  <1> USE DEF TypeOK, Distributor, NothingBefore
  <1>1. ASSUME NEW args \in NewDistributorArgs, NewDistributor(args)
        PROVE  NothingBefore'
    BY <1>1 DEF NewDistributor
  <1>2. ASSUME NEW leaf \in Leaf,
               NewClaim(leaf.claimant, leaf.unlocked, leaf.locked)
        PROVE  NothingBefore'
    BY <1>2 DEF NewClaim, Claiming
  <1>3. ASSUME NEW c \in Claimants, ClaimLocked(c)
        PROVE  NothingBefore'
    BY <1>3 DEF ClaimLocked, Claiming
  <1>4. ASSUME NEW signer \in Signers, Clawback(signer)
        PROVE  NothingBefore'
    BY <1>4 DEF Clawback, history
  <1>5. ASSUME NEW admin \in Admins, NEW to \in Accounts,
               CloseDistributor(admin, to)
        PROVE  NothingBefore'
    BY <1>5 DEF CloseDistributor, history
  <1>6. ASSUME NEW admin \in Admins, NEW c \in Claimants,
               CloseClaimStatus(admin, c)
        PROVE  NothingBefore'
    BY <1>6 DEF CloseClaimStatus, history
  <1>7. CASE SetterStep
    BY <1>7, SetterFrame DEF AdministrativeOnly, SameTerms, history
  <1>8. ASSUME NEW from \in Treasuries, NEW amount \in Deposits,
               Deposit(from, amount)
        PROVE  NothingBefore'
    BY <1>8 DEF Deposit, accountVars
  <1>9. CASE NextSecond
    BY <1>9 DEF NextSecond, accountVars, history
  <1>10. CASE UNCHANGED <<accountVars, balance, now, history>>
    BY <1>10 DEF accountVars, history
  <1> QED
    BY <1>1, <1>2, <1>3, <1>4, <1>5, <1>6, <1>7, <1>8, <1>9, <1>10, NextCases

\* Unless the step creates or closes a distributor, the promise binds after it
\* exactly if it did before: no claim, clawback or setter changes that.
LEMMA BindingFrame ==
    ASSUME TypeOK, [Next]_vars,
           ~\E args \in NewDistributorArgs : NewDistributor(args),
           ~\E admin \in Admins, to \in Accounts : CloseDistributor(admin, to)
    PROVE  Binding' <=> Binding
  <1> DEFINE Same == /\ exists' = exists
                     /\ creations' = creations
                     /\ dist'.closable = dist.closable
  <1> SUFFICES Same
    BY DEF Binding, Production
  <1> USE DEF TypeOK, Distributor
  <1>1. ASSUME NEW leaf \in Leaf,
               NewClaim(leaf.claimant, leaf.unlocked, leaf.locked)
        PROVE  Same
    BY <1>1 DEF NewClaim
  <1>2. ASSUME NEW c \in Claimants, ClaimLocked(c)
        PROVE  Same
    BY <1>2 DEF ClaimLocked
  <1>3. ASSUME NEW signer \in Signers, Clawback(signer)
        PROVE  Same
    BY <1>3 DEF Clawback, history
  <1>4. ASSUME NEW admin \in Admins, NEW c \in Claimants,
               CloseClaimStatus(admin, c)
        PROVE  Same
    BY <1>4 DEF CloseClaimStatus, history
  <1>5. CASE SetterStep
    BY <1>5, SetterFrame DEF AdministrativeOnly, SameTerms, history
  <1>6. ASSUME NEW from \in Treasuries, NEW amount \in Deposits,
               Deposit(from, amount)
        PROVE  Same
    BY <1>6 DEF Deposit, accountVars
  <1>7. CASE NextSecond
    BY <1>7 DEF NextSecond, accountVars, history
  <1>8. CASE UNCHANGED <<accountVars, balance, now, history>>
    BY <1>8 DEF accountVars, history
  <1> QED
    BY <1>1, <1>2, <1>3, <1>4, <1>5, <1>6, <1>7, <1>8, NextCases

\* The rounded amount of ClaimStatus::unlocked_amount is the whole number of
\* tokens that the exact vesting line has reached.
LEMMA UnlockedOnTheLine ==
    ASSUME TypeOK, NEW locked \in Amount
    PROVE  Promise!OnTheLine(locked,
                             UnlockedAmount(locked, now,
                                            dist.start_ts, dist.end_ts))
  <1> DEFINE s == dist.start_ts
             e == dist.end_ts
             q == ((now - s) * locked) \div (e - s)
  <1>1. locked \in Nat /\ now \in Nat /\ s \in Nat /\ e \in Nat
    BY MaxU64Assumption, BoundsAssumption
    DEF Amount, TypeOK, Distributor, Timestamp
  <1>2. CASE now < s
    BY <1>2 DEF UnlockedAmount, Promise!OnTheLine
  <1>3. CASE ~(now < s) /\ now >= e
    BY <1>3 DEF UnlockedAmount, Promise!OnTheLine
  <1>4. CASE ~(now < s) /\ ~(now >= e)
    <2>1. /\ now - s \in Nat
          /\ e - s \in Nat
          /\ e - s > 0
          /\ now - s <= e - s
      BY <1>1, <1>4
    <2>2. q \in 0..locked
      BY <1>1, <2>1, ShareBounded
    <2>3. (now - s) * locked \in Nat
      BY <1>1, <2>1
    <2>4. /\ (e - s) * q <= (now - s) * locked
          /\ (now - s) * locked < (e - s) * (q + 1)
      BY <2>1, <2>3, QuotientBounds
    <2>5. UnlockedAmount(locked, now, s, e) = AsU64(q)
      BY <1>4 DEF UnlockedAmount
    <2> HIDE DEF q
    <2>6. q \in Amount
      BY <1>1, <2>2, MaxU64Assumption DEF Amount
    <2>7. UnlockedAmount(locked, now, s, e) = q
      BY <2>5, <2>6, CastFits
    <2>8. /\ q \in Nat
          /\ q * (e - s) = (e - s) * q
          /\ (q + 1) * (e - s) = (e - s) * (q + 1)
          /\ locked * (now - s) = (now - s) * locked
      BY <1>1, <2>1, <2>2
    <2>9. s <= now /\ now < e
      BY <1>1, <1>4
    <2> QED
      BY <2>4, <2>7, <2>8, <2>9 DEF Promise!OnTheLine
  <1> QED
    BY <1>2, <1>3, <1>4

\* The program's initial state maps to one of the abstract airdrop.
LEMMA InitRefines == Init => Promise!Init
  BY DEF Init, Promise!Init, Binding, NoDistributor

\* A new_claim pays the unlocked amount of the claimant's leaf as its first
\* instalment.
LEMMA NewClaimRefines ==
    ASSUME IInv, Binding, NothingBefore, UNCHANGED Binding,
           NEW leaf \in Leaf,
           NewClaim(leaf.claimant, leaf.unlocked, leaf.locked)
    PROVE  Promise!Next
  <1> DEFINE c == leaf.claimant
  <1>1. /\ c \in Claimants
        /\ leaf.unlocked \in Nat
        /\ leaf = [claimant |-> c, unlocked |-> leaf.unlocked,
                   locked |-> leaf.locked]
    BY MaxU64Assumption DEF Leaf, Amount
  <1>2. /\ exists /\ exists' /\ ~dist.clawed_back
        /\ c \in Claimants \ claimed
        /\ now' = now
        /\ leaf \in dist.root
        /\ paid' = [paid EXCEPT ![c] = @ + leaf.unlocked]
    BY <1>1 DEF NewClaim, Claiming, clock
  <1>3. /\ dist'.root = dist.root
        /\ dist'.start_ts = dist.start_ts
        /\ dist'.end_ts = dist.end_ts
        /\ dist'.clawed_back = dist.clawed_back
    BY DEF NewClaim, IInv, TypeOK, Distributor
  <1>4. paid \in [Claimants -> Nat]
    BY DEF IInv, TypeOK
  <1>5. paid[c] = 0
    BY <1>2 DEF IInv, ClaimsAccounted, Binding, NothingBefore, Production
  <1>6. /\ paid'[c] = leaf.unlocked
        /\ paid'[c] >= paid[c]
        /\ DOMAIN paid' = Claimants
        /\ \A d \in Claimants \ {c} : paid'[d] = paid[d]
    BY <1>1, <1>2, <1>4, <1>5
  <1>7. Promise!Pay(c, leaf)
    BY <1>2, <1>3, <1>5, <1>6 DEF Promise!Pay, Promise!terms
  <1> QED
    BY <1>1, <1>2, <1>7 DEF Promise!Next

\* A claim_locked brings its claimant up to the vesting line.
LEMMA ClaimLockedRefines ==
    ASSUME IInv, Binding, NothingBefore, UNCHANGED Binding,
           NEW c \in Claimants, ClaimLocked(c)
    PROVE  Promise!Next
  <1> DEFINE vested == UnlockedAmount(status[c].locked_amount, now,
                                      dist.start_ts, dist.end_ts)
             amount == vested - status[c].locked_amount_withdrawn
             leaf == [claimant |-> c,
                      unlocked |-> status[c].unlocked_amount,
                      locked |-> status[c].locked_amount]
  <1>1. TypeOK
    BY DEF IInv
  <1>2. /\ status[c].locked_amount \in Amount
        /\ status[c].locked_amount_withdrawn \in Nat
        /\ status[c].unlocked_amount \in Nat
        /\ vested \in Nat
    BY <1>1, WithdrawalType, MaxU64Assumption DEF TypeOK, ClaimStatus, Amount
  <1>3. /\ exists /\ exists' /\ ~dist.clawed_back
        /\ c \in claimed
        /\ now' = now
        /\ amount > 0
        /\ paid' = [paid EXCEPT ![c] = @ + amount]
    BY DEF ClaimLocked, AmountWithdrawable, Claiming, clock
  <1>4. /\ dist'.root = dist.root
        /\ dist'.start_ts = dist.start_ts
        /\ dist'.end_ts = dist.end_ts
        /\ dist'.clawed_back = dist.clawed_back
    BY <1>1 DEF ClaimLocked, TypeOK, Distributor
  <1>5. /\ leaf \in dist.root
        /\ paid[c] = status[c].unlocked_amount
                       + status[c].locked_amount_withdrawn
    BY <1>3 DEF IInv, ClaimsAccounted, Binding, NothingBefore, Production
  <1>6. Promise!OnTheLine(status[c].locked_amount, vested)
    BY <1>1, <1>2, UnlockedOnTheLine
  <1> HIDE DEF vested
  <1>7. paid'[c] = paid[c] + amount
    BY <1>1, <1>3 DEF TypeOK
  <1>8. /\ paid'[c] - status[c].unlocked_amount = vested
        /\ paid[c] >= status[c].unlocked_amount
        /\ paid'[c] >= paid[c]
    BY <1>2, <1>3, <1>5, <1>7
  <1>9. /\ DOMAIN paid' = Claimants
        /\ \A d \in Claimants \ {c} : paid'[d] = paid[d]
    BY <1>1, <1>3 DEF TypeOK
  <1>10. Promise!Pay(c, leaf)
    BY <1>3, <1>4, <1>6, <1>8, <1>9 DEF Promise!Pay, Promise!terms
  <1> QED
    BY <1>5, <1>10 DEF Promise!Next

\* While the promise binds, every instruction that leaves it binding maps to a
\* step of the abstract airdrop or to a stutter.
LEMMA BindingRefines ==
    ASSUME IInv, NothingBefore, Binding, Binding', [Next]_vars
    PROVE  [Promise!Next]_(Promise!vars)
  <1> DEFINE Goal == [Promise!Next]_(Promise!vars)
  <1> USE DEF Promise!vars, Promise!terms
  <1>0. UNCHANGED Binding
    BY DEF Binding
  <1>1. ASSUME NEW args \in NewDistributorArgs, NewDistributor(args)
        PROVE  Goal
    <2>1. dist.clawed_back = FALSE /\ paid = [c \in Claimants |-> 0]
      BY <1>1
      DEF NewDistributor, NothingBefore, Binding, Production, IInv, TypeOK,
          Distributor
    <2>2. /\ dist'.clawed_back = FALSE
          /\ dist'.start_ts = args.start_ts
          /\ dist'.end_ts = args.end_ts
          /\ args.start_ts > now /\ args.start_ts < args.end_ts
          /\ paid' = paid /\ now' = now /\ ~exists /\ exists' = TRUE
      BY <1>1, <2>1 DEF NewDistributor, clock
    <2>3. now \in Int /\ args.start_ts \in Int
      <3>1. args.start_ts \in Timestamps
        BY DEF NewDistributorArgs
      <3>2. args.start_ts \in Timestamp
        BY <3>1, ArgumentsAssumption
      <3> QED
        BY <3>2, BoundsAssumption DEF Timestamp, IInv, TypeOK
    <2>4. Promise!Announce
      BY <1>0, <2>1, <2>2, <2>3 DEF Promise!Announce
    <2> QED
      BY <2>4 DEF Promise!Next
  <1>2. ASSUME NEW leaf \in Leaf,
               NewClaim(leaf.claimant, leaf.unlocked, leaf.locked)
        PROVE  Goal
    BY <1>0, <1>2, NewClaimRefines
  <1>3. ASSUME NEW c \in Claimants, ClaimLocked(c)
        PROVE  Goal
    BY <1>0, <1>3, ClaimLockedRefines
  <1>4. ASSUME NEW signer \in Signers, Clawback(signer)
        PROVE  Goal
    <2>1. now >= dist.end_ts + SECONDS_PER_DAY
      BY <1>4, BoundsAssumption
      DEF Clawback, IInv, LifeCycle, TypeOK, Distributor, Timestamp
    <2>2. Promise!Reclaim
      BY <1>0, <1>4, <2>1
      DEF Clawback, clock, history, IInv, TypeOK, Distributor, Promise!Reclaim
    <2> QED
      BY <2>2 DEF Promise!Next
  <1>5. ASSUME NEW admin \in Admins, NEW to \in Accounts,
               CloseDistributor(admin, to)
        PROVE  Goal
    BY <1>5 DEF CloseDistributor, Binding, Production, NothingBefore
  <1>6. ASSUME NEW admin \in Admins, NEW c \in Claimants,
               CloseClaimStatus(admin, c)
        PROVE  Goal
    BY <1>0, <1>6 DEF CloseClaimStatus, clock, history
  <1>7. CASE SetterStep
    <2>1. AdministrativeOnly
      BY <1>7, SetterFrame DEF IInv
    <2> QED
      BY <1>0, <2>1 DEF AdministrativeOnly, SameTerms, clock, history
  <1>8. ASSUME NEW from \in Treasuries, NEW amount \in Deposits,
               Deposit(from, amount)
        PROVE  Goal
    BY <1>0, <1>8 DEF Deposit, accountVars, clock
  <1>9. CASE NextSecond
    <2>1. Promise!PassTime
      BY <1>0, <1>9
      DEF NextSecond, accountVars, history, IInv, TypeOK, Promise!PassTime
    <2> QED
      BY <2>1 DEF Promise!Next
  <1>10. CASE UNCHANGED <<accountVars, balance, now, history>>
    BY <1>0, <1>10 DEF accountVars, history
  <1> QED
    BY <1>1, <1>2, <1>3, <1>4, <1>5, <1>6, <1>7, <1>8, <1>9, <1>10, NextCases

\* A promise that does not bind never binds again, and one that binds stops
\* doing so only before anything was announced.
LEMMA BindingChanges ==
    ASSUME IInv, [Next]_vars
    PROVE  /\ ~Binding => ~Binding'
           /\ Binding /\ exists => Binding'
  <1> USE DEF Binding, Production, IInv, LifeCycle, TypeOK
  <1>1. ASSUME NEW args \in NewDistributorArgs, NewDistributor(args)
        PROVE  /\ ~Binding => ~Binding'
               /\ Binding /\ exists => Binding'
    BY <1>1 DEF NewDistributor
  <1>2. ASSUME NEW admin \in Admins, NEW to \in Accounts,
               CloseDistributor(admin, to)
        PROVE  /\ ~Binding => ~Binding'
               /\ Binding /\ exists => Binding'
    BY <1>2 DEF CloseDistributor, history
  <1> QED
    BY <1>1, <1>2, BindingFrame

\* Every instruction maps to a step of the abstract airdrop or to a stutter.
LEMMA NextRefines ==
    ASSUME IInv, NothingBefore, [Next]_vars
    PROVE  [Promise!Next]_(Promise!vars)
  <1>1. CASE Binding /\ Binding'
    BY <1>1, BindingRefines
  <1>2. CASE ~Binding'
    <2>1. Promise!Void
      BY <1>2, BindingChanges DEF Promise!Void
    <2> QED
      BY <2>1 DEF Promise!Next
  <1> QED
    BY <1>1, <1>2, BindingChanges

\* Every behaviour of the program is a behaviour of the abstract airdrop: of a
\* distributor that is not closable every payment follows the exact vesting
\* line, the rest is clawed back no earlier than a day after its end, and
\* neither close_distributor nor close_claim_status can touch it.
THEOREM Refinement == Spec => ImplementsAirdrop
  <1>1. Spec => []NothingBefore
    <2>1. IInv /\ NothingBefore /\ [Next]_vars => NothingBefore'
      BY NextNothingBefore DEF IInv
    <2> QED
      BY <2>1, InitNothingBefore, Invariance, PTL DEF Spec
  <1>2. IInv /\ NothingBefore /\ [Next]_vars => [Promise!Next]_(Promise!vars)
    BY NextRefines
  <1> QED
    BY <1>1, <1>2, InitRefines, Invariance, PTL
    DEF Spec, ImplementsAirdrop, Promise!Spec

=============================================================================
