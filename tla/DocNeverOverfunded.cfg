\* No call fails, but the second tree cannot be paid for at first.
SPECIFICATION Spec
CONSTANTS
    s = s
    t = t
    a = a
    b = b
    Versions = {1, 2}
    MaxTotalClaim <- MCMaxTotalClaim
    Terms = {s, t}
    Rests = {a, b}
    NoParams = NoParams
    Scenarios <- MCCareful
    Treasury = 4
    Attempts = 2
    LossyRpc = FALSE
    MaxRuns = 2
    MaxClaims = 0
INVARIANT
    NeverOverfunded
CHECK_DEADLOCK FALSE
