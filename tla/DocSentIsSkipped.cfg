\* The process dies between sending and recording.
SPECIFICATION Spec
CONSTANTS
    Addresses = {a, b}
    BadAddresses = {}
    MaxRows = 2
    Limits = {1, 2}
    LossyRpc = FALSE
    Crashes = TRUE
    MaxRuns = 2
    MaxTxs = 4
INVARIANT
    PaidAtMostAsListed
CHECK_DEADLOCK FALSE
