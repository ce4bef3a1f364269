SPECIFICATION Spec
CONSTANTS
    Users = {ann, ben}
    UiAmounts <- MCAmounts
    Plans <- MCPlans
    UiScale = 10
    Scale = 2
    MaxU64 = 9
    MaxRows = 5
    TreeSizes = {1}
    FileSizes = {2}
    Radix = 2
INVARIANT
    CheckedMeansServed
CHECK_DEADLOCK FALSE
