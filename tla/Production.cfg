SPECIFICATION FairSpec
CONSTANTS
    alice = alice
    bob = bob
    Claimants = {alice, bob}
    Admins = {admin1, admin2}
    Treasuries = {treasury}
    Vault = vault
    Trees <- MCTrees
    Totals = {4, 5}
    NodeCounts = {2}
    Timestamps = {1, 4, 5, 6}
    EnableSlots = {0, 1}
    ClosableFlags = {TRUE, FALSE}
    Offered <- MCOffers
    Deposits = {5}
    Supply = 5
    SECONDS_PER_DAY = 1
    MaxU64 = 6
    MaxI64 = 6
    MaxTime = 6
    MaxSlot = 1
    MaxCreations = 1
INVARIANTS
    TypeOK
    PaidIsVested
    WithdrawnNeverAhead
    ClawbackAfterVesting
    SolventOnceFunded
    NobodyLockedOut
    IInv
PROPERTIES
    PromiseKept
    ImplementsAirdrop
    EverybodyIsPaid
CHECK_DEADLOCK FALSE
