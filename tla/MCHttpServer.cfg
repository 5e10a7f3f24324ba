SPECIFICATION FairSpec
CONSTANTS
    k1 = k1
    k2 = k2
    k3 = k3
    Conns <- MCConns
    Slow <- MCSlow
    Programs <- MCPrograms
    HANDLERS_MAX = 1
    BODIES_MAX = 1
    TURN = 1
INVARIANTS WireReads CalledAreAnswered CountsAreExact
PROPERTY NoneOutlivesTheServer
CHECK_DEADLOCK FALSE
