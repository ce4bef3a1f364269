\* Crashes, failing calls and commands run too early, or none of them.
SPECIFICATION Spec
CONSTANTS
    Addresses = {a, b, bad}
    BadAddresses = {bad}
    MaxRows = 3
    Limits = {1, 2}
    LossyRpc = TRUE
    Crashes = TRUE
    MaxRuns = 2
    MaxTxs = 3
INVARIANTS
    TypeOK
    PaidOnceUndisturbed
    RecordTellsTruth
CHECK_DEADLOCK FALSE
