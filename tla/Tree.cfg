SPECIFICATION Spec
CONSTANTS
    MaxLeaves = 6
    MaxSearched = 4
INVARIANTS
    TypeOK
    EveryProofVerifies
    OnlyItemsVerify
    ProofsAreUnique
PROPERTIES
    RootIsReached
CHECK_DEADLOCK FALSE
