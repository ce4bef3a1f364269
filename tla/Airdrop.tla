------------------------------ MODULE Airdrop ------------------------------
(***************************************************************************)
(* What a distributor promises, without accounts, vaults, slots, counters  *)
(* or admins: an airdrop is announced once, each claimant is paid in       *)
(* instalments that follow the vesting line of its leaf exactly, and what  *)
(* is left may be reclaimed a day after the line ends.                     *)
(***************************************************************************)
EXTENDS Integers

CONSTANTS
    Claimants,
    DAY            \* the grace period between vesting and reclaiming

VARIABLES
    announced,     \* has the airdrop been announced?
    leaves,        \* the allocations it promises
    start, end,    \* its vesting window
    paid,          \* what each claimant has received
    reclaimed,     \* was the rest taken back?
    time,
    binding        \* is the promise still to be kept?

terms == <<announced, leaves, start, end>>
vars == <<terms, paid, reclaimed, time, binding>>

\* The whole number of tokens a that the line from (start, 0) to
\* (end, locked) has reached, without a division: a is not above the line
\* and a + 1 is.
OnTheLine(locked, a) ==
    \/ time < start /\ a = 0
    \/ time >= end /\ a = locked
    \/ /\ start <= time
       /\ time < end
       /\ a * (end - start) <= locked * (time - start)
       /\ locked * (time - start) < (a + 1) * (end - start)

Init ==
    /\ announced = FALSE
    /\ leaves = {}
    /\ start = 0
    /\ end = 0
    /\ paid = [c \in Claimants |-> 0]
    /\ reclaimed = FALSE
    /\ time = 0
    /\ binding = TRUE

Announce ==
    /\ ~announced
    /\ announced' = TRUE
    /\ time < start'
    /\ start' < end'
    /\ UNCHANGED <<paid, reclaimed, time, binding>>

\* The first instalment is the unlocked amount; a later one brings the
\* claimant up to the line.
Pay(c, leaf) ==
    /\ announced
    /\ ~reclaimed
    /\ leaf.claimant = c
    /\ \/ paid[c] = 0 /\ paid'[c] = leaf.unlocked
       \/ /\ paid[c] >= leaf.unlocked
          /\ OnTheLine(leaf.locked, paid'[c] - leaf.unlocked)
    /\ paid'[c] >= paid[c]
    /\ DOMAIN paid' = Claimants
    /\ \A d \in Claimants \ {c} : paid'[d] = paid[d]
    /\ UNCHANGED <<terms, reclaimed, time, binding>>

Reclaim ==
    /\ announced
    /\ time >= end + DAY
    /\ reclaimed' = TRUE
    /\ UNCHANGED <<terms, paid, time, binding>>

PassTime ==
    /\ time' > time
    /\ UNCHANGED <<terms, paid, reclaimed, binding>>

\* An airdrop announced as a rehearsal, on terms that allow it to be called
\* off, binds nobody: anything may follow.  A promise that binds is never
\* called off.
Void ==
    /\ binding => ~announced
    /\ binding' = FALSE

Next ==
    \/ Announce
    \/ \E c \in Claimants : \E leaf \in leaves : Pay(c, leaf)
    \/ Reclaim
    \/ PassTime
    \/ Void

Spec == Init /\ [][Next]_vars

=============================================================================
