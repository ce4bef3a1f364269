\* Create, fund, verify, with failing calls and a claim: two trees and an
\* operator who lets things settle; or one tree, two sets of parameters, which
\* verify does or does not tell apart, and three commands in a row, while
\* transactions of those before may still land.
SPECIFICATION Spec
CONSTANTS
    s = s
    t = t
    a = a
    b = b
    Versions = {1, 2}
    MaxTotalClaim <- MCMaxTotalClaim
    Terms = {s, t}
    Rests = {a, b}
    NoParams = NoParams
    Scenarios <- MCCarefulAndRushed
    Treasury = 6
    Attempts = 2
    LossyRpc = TRUE
    MaxRuns = 3
    MaxClaims = 1
INVARIANTS
    TypeOK
    VerifiedIsReady
    PaidAgainOnlyAfterClaims
    ParametersChecked
PROPERTY
    CommandsEnd
CHECK_DEADLOCK FALSE
