SPECIFICATION FairSpec
CONSTANTS
    s1 = s1
    g1 = g1
    g2 = g2
    u1 = u1
    r1 = r1
    x1 = x1
    Servers <- OneServer
    Gateways <- OneGateway
    Numbers = {}
    Reflectors <- OneReflector
    Repeaters <- OneRepeater
    Users <- OneUser
    Home <- HomeOfOne
    Requests <- Finds
    HostsFile = HostsFile
    Empty = Empty
    DbRows <- HomeRow
    ServerWait = 1
    ListWait = 1
    ReconnectDelay = 1
    NickWait = 1
    LoginWait = 1
    JoinWait = 1
    PingTimer = 1
    EntryPeriod = 1
    ClientPeriod = 1
    QuietTime = 2
    MaxStep = 1
    MaxQueue = 1
    MaxReceived = 1
INVARIANTS TypeOK NoUseAfterDelete DeafOnlyWithoutServer
PROPERTIES LoginAfterReset ListEnds
