SPECIFICATION FairSpec
CONSTANTS
    u1 = u1
    u2 = u2
    r1 = r1
    r2 = r2
    a1 = a1
    a2 = a2
    a3 = a3
    a4 = a4
    Users <- OneUser
    Repeaters <- OneRepeater
    NoRepeater = NoRepeater
    Addr <- ThreeChunks
    G2Ids = {1, 2}
    ReflectorIds = {2}
    Droppable <- OneUser
    Coverage <- Home
    NetworkTimeout = 1
    MessageDelay = 1
    PingTime = 2
    NotFoundTime = 2
    UserTimeout = 2
    MaxStep = 1
PROPERTIES RelayReleased RecordsDrain InactiveUsersLeave
