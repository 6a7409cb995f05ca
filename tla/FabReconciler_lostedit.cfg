SPECIFICATION Spec
CONSTANTS
    Cfg = {plain, other}
    InitCfg = plain
    GwCfgs = {}
    MaxVer = 1
    N = 2
    Gw = {}
    GwNeeds = {1}
    Daemons = {}
    ChartLag = FALSE
    MaxEdits = 1
    MaxFaults = 0
PROPERTIES
    UserEditKept
