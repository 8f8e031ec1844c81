SPECIFICATION FairSpec
CONSTANTS
    x1 = x1
    c1 = c1
    c2 = c2
    p1 = p1
    p2 = p2
    XRFs <- OneXRF
    DCSs <- TwoDCSs
    NoReflector = NoReflector
    Ports <- TwoPorts
    LinkIds = {1}
    G2Ids = {3}
    NetworkTimeout = 1
    DExtraPollTime = 3
    DCSPollTime = 2
    MaxStep = 1
INVARIANTS DExtraFollows WaitsTimed
PROPERTIES StraysOnlyByTimeout UnlinkingEnds StreamsReleased
