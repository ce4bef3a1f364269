------------------------------ MODULE Vesting ------------------------------
(***************************************************************************)
(* The vesting arithmetic of a claim: ClaimStatus::unlocked_amount and     *)
(* ClaimStatus::amount_withdrawable.  Both are pure functions of the       *)
(* claim, of the clock and of the distributor's vesting window.            *)
(*                                                                         *)
(* Timestamps are natural numbers: a distributor only accepts timestamps   *)
(* later than the clock, so the i64 subtractions cannot overflow.          *)
(***************************************************************************)
EXTENDS Integers

CONSTANT MaxU64   \* the largest u64, 2^64 - 1 in the program

ASSUME MaxU64Assumption == MaxU64 \in Nat

Amount == 0..MaxU64

\* A u128 value cast to u64 keeps its low 64 bits.
AsU64(n) == n % (MaxU64 + 1)

\* A slip for comparison: the share rounded up.
UnlockedAmountRoundedUp(locked, curr_ts, start_ts, end_ts) ==
    IF curr_ts < start_ts
    THEN 0
    ELSE IF curr_ts >= end_ts
    THEN locked
    ELSE ((curr_ts - start_ts) * locked + end_ts - start_ts - 1)
           \div (end_ts - start_ts)

\* The part of a locked amount that has vested at curr_ts: nothing before
\* start_ts, everything from end_ts on, and in between the elapsed share of
\* the window, multiplied before it is divided and rounded down.
UnlockedAmount(locked, curr_ts, start_ts, end_ts) ==
    IF curr_ts < start_ts
    THEN 0
    ELSE IF curr_ts >= end_ts
    THEN locked
    ELSE AsU64(((curr_ts - start_ts) * locked) \div (end_ts - start_ts))

\* A slip for comparison: what was withdrawn before is not subtracted.
AmountWithdrawableGross(locked, withdrawn, curr_ts, start_ts, end_ts) ==
    UnlockedAmount(locked, curr_ts, start_ts, end_ts)

\* What is left to withdraw; negative exactly where the program's
\* checked_sub fails with ArithmeticError.
AmountWithdrawable(locked, withdrawn, curr_ts, start_ts, end_ts) ==
    UnlockedAmount(locked, curr_ts, start_ts, end_ts) - withdrawn

=============================================================================
