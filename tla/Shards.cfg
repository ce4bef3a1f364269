SPECIFICATION Spec
CONSTANTS
    Users = {ann, ben}
    UiAmounts <- MCAmounts
    Plans <- MCPlans
    UiScale = 10
    Scale = 2
    MaxU64 = 9
    MaxRows = 5
    TreeSizes = {0, 1, 3}
    FileSizes = {0, 2}
    Radix = 2
INVARIANTS
    TypeOK
    NothingLost
    OnlyOverflowAborts
    EverybodyServed
    TotalsReported
    KvAgreesWithApi
PROPERTIES
    CommandsEnd
CHECK_DEADLOCK FALSE
