SPECIFICATION FairSpec
CONSTANTS
    Cfg = {plain}
    InitCfg = plain
    GwCfgs = {}
    MaxVer = 2
    N = 1
    Gw = {}
    GwNeeds = {1}
    Daemons = {}
    ChartLag = FALSE
    MaxEdits = 0
    MaxFaults = 1
INVARIANTS
    EnforceUsesDefaults
PROPERTIES
    Converges
