SPECIFICATION Spec
CONSTANTS
    u1 = u1
    u2 = u2
    r1 = r1
    r2 = r2
    a1 = a1
    a2 = a2
    a3 = a3
    a4 = a4
    Users <- TwoUsers
    Repeaters <- OneRepeater
    NoRepeater = NoRepeater
    Addr <- Chunks
    G2Ids = {1, 2}
    ReflectorIds = {2}
    Droppable <- OneUser
    Coverage <- Home
    NetworkTimeout = 1
    MessageDelay = 2
    PingTime = 2
    NotFoundTime = 3
    UserTimeout = 5
    MaxStep = 2
SYMMETRY Symmetry
INVARIANTS UserOutlivesRecords
PROPERTIES DanglesOnlyByDrop SubscriptionKept RelayEndsClean
