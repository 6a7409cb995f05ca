SPECIFICATION Spec
CONSTANTS
    Chosen = {"unjudged", "gateway", "switch", "subnet", "external", "masquerade", "static", "bidirectional",
              "overlap", "portforward", "masqueradePortForward", "defaultDeny",
              "denyUnlessExposed", "explicitAllow", "protocolScoping", "oneWay", "flowScope",
              "subnetScoping", "portScoping", "allowThenDeny", "denyThenAllow", "extNoNAT",
              "extStatic", "extMasquerade", "extBoth", "extPortForward"}
    Planes = {"good", "open", "last", "dead", "icmp", "noflow"}
    MaxFaults = 1
INVARIANTS
    TypeOK
    PassMeansIntended
    FailMeansCause
    NoUnknownTested
    ListenersServe
    ListenersStopped
    NoStaleEntries
    PassMeansAllSeen
PROPERTY
    Ends
