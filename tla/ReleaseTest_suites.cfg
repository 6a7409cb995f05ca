SPECIFICATION FairSpec
CONSTANTS
    Plans <- AllPlans
    Chosen = {1, 2, 3, 4}
INVARIANTS
    TypeOK
    VPCsClean
    FabricClean
    MatrixFresh
    RevertsPossible
    CountersAgree
    VerdictSound
PROPERTY
    Finishes
CHECK_DEADLOCK FALSE
