SPECIFICATION FairClaims
CONSTANTS
    alice = alice
    bob = bob
    Claimants = {alice}
    Admins = {admin1}
    Treasuries = {treasury}
    Vault = vault
    Trees <- MCClaimTrees
    Totals = {3}
    NodeCounts = {2}
    Timestamps = {1, 2, 3}
    EnableSlots = {0, 1}
    ClosableFlags = {TRUE, FALSE}
    Offered <- AnyOffer
    Deposits = {3}
    Supply = 3
    SECONDS_PER_DAY = 1
    MaxU64 = 3
    MaxI64 = 3
    MaxTime = 3
    MaxSlot = 1
    MaxCreations = 2
    Terminals = {t1}
    Files <- MCFiles
    MaxFaults = 1
INVARIANTS
    ClaimsIInv
    DoneMeansPaid
    FreshClaimPanics
PROPERTY
    WhoKeepsTryingIsPaid
CHECK_DEADLOCK FALSE
