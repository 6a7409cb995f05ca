SPECIFICATION Spec
CONSTANTS
    Plans <- AllPlans
    Chosen = {5}
INVARIANT
    VPCsClean
CHECK_DEADLOCK FALSE
