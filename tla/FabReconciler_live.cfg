SPECIFICATION FairSpec
CONSTANTS
    Cfg = {plain, other}
    InitCfg = plain
    GwCfgs = {}
    MaxVer = 1
    N = 2
    Gw = {}
    GwNeeds = {1}
    Daemons = {}
    ChartLag = TRUE
    MaxEdits = 1
    MaxFaults = 1
PROPERTIES
    Converges
    ChangesAreAnnounced
