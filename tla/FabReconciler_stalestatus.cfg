SPECIFICATION Spec
CONSTANTS
    Cfg = {plain}
    InitCfg = plain
    GwCfgs = {}
    MaxVer = 2
    N = 2
    Gw = {}
    GwNeeds = {1}
    Daemons = {}
    ChartLag = FALSE
    MaxEdits = 0
    MaxFaults = 0
PROPERTIES
    ReadyMeansRunning
