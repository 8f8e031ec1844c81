SPECIFICATION FairSpec
CONSTANTS
    s1 = s1
    g1 = g1
    g2 = g2
    u1 = u1
    r1 = r1
    x1 = x1
    Servers = {}
    Gateways <- OneGateway
    Numbers = {1, 2}
    Reflectors <- OneReflector
    Repeaters <- OneRepeater
    Users = {}
    Home <- HomeOfOne
    Requests = {}
    HostsFile = HostsFile
    Empty = Empty
    DbRows = {}
    ServerWait = 1
    ListWait = 1
    ReconnectDelay = 1
    NickWait = 1
    LoginWait = 1
    JoinWait = 1
    PingTimer = 1
    EntryPeriod = 1
    ClientPeriod = 1
    QuietTime = 1
    MaxStep = 0
    MaxQueue = 1
    MaxReceived = 2
INVARIANTS AddressesLive RosterComplete
PROPERTIES KeptOnlyByAnswers
