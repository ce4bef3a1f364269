---------------------------- MODULE SlotEstimate ----------------------------
(***************************************************************************)
(* The slot the command line picks for a point in time: slot-by-time       *)
(* prints it, set-enable-slot-by-time sets it.  The average slot time in   *)
(* milliseconds comes from the node's recent performance samples.          *)
(*                                                                         *)
(* All quantities are u64 and the release profile checks overflow: where   *)
(* the code would leave 0..MaxU64, or divide by zero, it panics.           *)
(***************************************************************************)
EXTENDS Integers, Sequences, SequencesExt

CONSTANTS
    DEFAULT_MS_PER_SLOT,   \* 400 in solana_sdk::clock
    MaxU64                 \* the largest u64

ASSUME SlotTimeAssumption ==
    /\ DEFAULT_MS_PER_SLOT \in Nat
    /\ DEFAULT_MS_PER_SLOT >= 2
    /\ MaxU64 \in Nat

Sample == [sample_period_secs : Nat, num_slots : Nat]

SamplesPanic(samples) == \E i \in DOMAIN samples : samples[i].num_slots = 0

\* get_average_slot_time, for samples that do not make it panic.
AverageSlotTime(samples) ==
    LET total == FoldLeft(
            LAMBDA t, sample :
                t + (sample.sample_period_secs * 1000) \div sample.num_slots,
            0, samples)
        average == total \div Len(samples)
    IN  IF /\ samples # <<>>
           /\ average \in (DEFAULT_MS_PER_SLOT \div 2)..(DEFAULT_MS_PER_SLOT * 2)
        THEN average
        ELSE DEFAULT_MS_PER_SLOT

\* A slip for comparison: the past is counted forwards, too.
SlotForSwapped(enable_time, current_time, current_slot, average) ==
    IF enable_time > current_time
    THEN current_slot - ((enable_time - current_time) * 1000) \div average
    ELSE current_slot + ((current_time - enable_time) * 1000) \div average

\* The slot before it is squeezed into a u64.
SlotFor(enable_time, current_time, current_slot, average) ==
    IF enable_time > current_time
    THEN current_slot + ((enable_time - current_time) * 1000) \div average
    ELSE current_slot - ((current_time - enable_time) * 1000) \div average

\* Where the release build panics instead.
SlotPanics(enable_time, current_time, current_slot, average) ==
    LET distance == IF enable_time > current_time
                    THEN enable_time - current_time
                    ELSE current_time - enable_time
    IN  \/ distance * 1000 > MaxU64
        \/ SlotFor(enable_time, current_time, current_slot, average)
             \notin 0..MaxU64

-----------------------------------------------------------------------------
(* What the estimate should satisfy. *)

\* The estimated slot is the last one before, or the first one after, the
\* given point in time, on whichever side of it the clock stands, if every
\* slot takes the average time: it errs by less than one slot.
NearestSlot(slot, enable_time, current_time, current_slot, average) ==
    LET ms == (enable_time - current_time) * 1000
        off == (slot - current_slot) * average - ms
    IN  IF enable_time > current_time
        THEN off <= 0 /\ off + average > 0
        ELSE off >= 0 /\ off < average

=============================================================================
