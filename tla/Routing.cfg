SPECIFICATION Spec
CONSTANTS
    u1 = u1
    u2 = u2
    r1 = r1
    r2 = r2
    g1 = g1
    g2 = g2
    in = in
    off = off
    Empty = Empty
    Servers = {}
    Gateways = {g1, g2}
    Numbers = {1}
    Reflectors = {}
    Repeaters = {r1, r2}
    Users = {u1, u2}
    HostsFile = HostsFile
    Home <- HomeOf
    Networks = {0, 1}
    Talkers <- OneTalker
    DbRows <- Rows
    Texts = {in, off}
    Length <- Lengths
    Losses <- SomeLosses
INVARIANTS AudienceRight TextShown
