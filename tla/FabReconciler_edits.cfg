SPECIFICATION Spec
CONSTANTS
    Cfg = {plain, gateway}
    InitCfg = plain
    GwCfgs = {gateway}
    MaxVer = 1
    N = 3
    Gw = {2}
    GwNeeds = {1, 2}
    Daemons = {2}
    ChartLag = FALSE
    MaxEdits = 1
    MaxFaults = 1
INVARIANTS
    TypeOK
    AppliedMeansEnforced
    GatewayReadyMeansRolledOut
PROPERTIES
    ImplementsConfigService
