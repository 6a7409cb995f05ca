SPECIFICATION FairSpec
CONSTANTS
    Pass = {p1, p2, p3, p4, p5, p6}
    CA = {k1, k2}
    None = None
    NInc = 2
    FaultSteps = {"k8s", "namespace", "certManager", "caSecret", "caMap", "caFile", "reader", "htpasswd", "zot", "zotWait", "fabricator", "fabConfig", "applied", "include", "marker", "markerText"}
    MaxFaults = 3
INVARIANTS
    TypeOK
    ZotCertValid
    InstalledConsistent
PROPERTIES
    Completes
