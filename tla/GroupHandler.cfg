SPECIFICATION Spec
CONSTANTS
    u1 = u1
    u2 = u2
    r1 = r1
    r2 = r2
    a1 = a1
    a2 = a2
    a3 = a3
    a4 = a4
    Users <- TwoUsers
    Repeaters <- TwoRepeaters
    NoRepeater = NoRepeater
    Addr <- Chunks
    G2Ids = {1, 2}
    ReflectorIds = {2}
    Droppable <- TwoUsers
    Coverage <- OwnRepeater
    NetworkTimeout = 1
    MessageDelay = 1
    PingTime = 2
    NotFoundTime = 2
    UserTimeout = 2
    MaxStep = 1
SYMMETRY Symmetry
INVARIANTS TypeOK NoStuckRelay
PROPERTIES NoEcho OneTalker
