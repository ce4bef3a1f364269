\* A transaction that is lost until its blockhash expires.
SPECIFICATION Spec
CONSTANTS
    s = s
    t = t
    a = a
    b = b
    Versions = {1, 2}
    MaxTotalClaim <- MCMaxTotalClaim
    Terms = {s, t}
    Rests = {a, b}
    NoParams = NoParams
    Scenarios <- MCCareful
    Treasury = 6
    Attempts = 2
    LossyRpc = FALSE
    MaxRuns = 2
    MaxClaims = 0
INVARIANT
    DoneMeansFunded
CHECK_DEADLOCK FALSE
