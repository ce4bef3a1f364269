\* Two commands in a row, with faults, started at any time.
SPECIFICATION Spec
CONSTANTS
    alice = alice
    bob = bob
    vault = vault
    safe = safe
    Absent = Absent
    Versions = {1, 2}
    Wallets = {alice, bob}
    TokenAccounts = {vault, safe}
    Receivers = {vault, safe, alice}
    Timestamps = {1, 2, 3}
    EnableSlots = {1, 2}
    EnableTimes = {0, 2}
    SampleLists <- MCSampleLists
    EarliestClawback = 2
    ClaimStatuses = 6
    BatchSize = 2
    TxLimit = 3
    Scenarios <- MCScenarios
    SlotsPerSecond = {2}
    DEFAULT_MS_PER_SLOT = 400
    MaxU64 = 5000
    MaxFaults = 1
    MaxRuns = 2
INVARIANTS
    TypeOK
    AskedIsSet
    ClosedUpToForeign
    NothingDropped
    SlotMeetsTime
PROPERTY
    CommandsEnd
CHECK_DEADLOCK FALSE
