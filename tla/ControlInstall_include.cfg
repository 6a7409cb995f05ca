SPECIFICATION FairSpec
CONSTANTS
    Pass = {p1, p2, p3, p4, p5, p6}
    CA = {k1, k2}
    None = None
    NInc = 2
    FaultSteps = {"include"}
    MaxFaults = 1
PROPERTIES
    AlwaysCompletes
