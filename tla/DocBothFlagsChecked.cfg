\* A closable distributor whose claim status outlives it, and a production
\* distributor created in its place.
SPECIFICATION FairSpec
CONSTANTS
    alice = alice
    bob = bob
    Claimants = {alice}
    Admins = {admin1, admin2}
    Treasuries = {treasury}
    Vault = vault
    Trees <- MCTwoTrees
    Totals = {4}
    NodeCounts = {2}
    Timestamps = {1, 3, 4, 5}
    EnableSlots = {0}
    ClosableFlags = {TRUE, FALSE}
    Offered <- AnyOffer
    Deposits = {4}
    Supply = 4
    SECONDS_PER_DAY = 1
    MaxU64 = 6
    MaxI64 = 5
    MaxTime = 5
    MaxSlot = 0
    MaxCreations = 2
PROPERTY
    ClosedOnlyWhereClosable
CHECK_DEADLOCK FALSE
