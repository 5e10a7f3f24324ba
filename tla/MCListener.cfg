SPECIFICATION FairSpec
CONSTANTS
    a1 = a1
    a2 = a2
    s1 = s1
    s2 = s2
    Accepts = {a1, a2}
    Servers = {s1, s2}
    c1 = c1
    c2 = c2
    Clients = {c1, c2}
    Programs <- MCPrograms
    AT_ONCE = 1
    NONE = NONE
    WAKE = WAKE
INVARIANTS
    NoClientIsLost
PROPERTIES
    ServerHasItAlone
    AcceptGivesWay
    NobodyWaitsInVain
CHECK_DEADLOCK FALSE
