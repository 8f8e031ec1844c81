SPECIFICATION FairSpec
CONSTANTS
    p1 = p1
    p2 = p2
    IRCs = 2
    DExtraPorts <- OnePort
    DCSPorts <- OtherPort
    Descriptors = 2
INVARIANTS StopsClean LostOnlyByShortCommands
PROPERTIES KilledStops DiesOnlyCutOrUnopened
CHECK_DEADLOCK FALSE
