SPECIFICATION FairSpec
CONSTANTS
    DExtraPorts = {1, 2}
    DCSPorts = {1}
    DExtraMessages <- XMessages
    DCSMessages <- CMessages
    G2Messages <- GMessages
    DExtraNoise <- XNoise
    DCSNoise <- CNoise
    G2Noise <- GNoise
    Addresses <- Gateways
    G2Ports = {1, 2}
    StandardPort = 1
    MaxWaiting = 1
INVARIANTS IndicesLive ReadAsSent AnsweredWhereHeard
PROPERTIES RoundsReadAll ClocksReached
