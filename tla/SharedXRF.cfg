SPECIFICATION FairSpec
CONSTANTS
    x1 = x1
    x2 = x2
    y1 = y1
    h1 = h1
    h2 = h2
    p1 = p1
    p2 = p2
    k1 = k1
    k2 = k2
    XRFs <- ThreeModules
    NoReflector = NoReflector
    LinkIds = {1, 2}
    G2Ids = {3}
    NetworkTimeout = 1
    PollTime = 3
    MaxStep = 2
    Host <- TwoHosts
    IdsOf <- OneStreamEach
    PortsA <- OnePort
    PortsB <- OtherPort
    RepeaterA = k1
    RepeaterB = k1
INVARIANTS StatusAgrees HearsOwnModule
PROPERTIES OrphanedOnlyByLoss StuckOnlyByDisconnect DeadLinkNoticed
