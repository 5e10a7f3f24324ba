SPECIFICATION FairSpec
CONSTANTS
    Tasks = {t1}
    Peers = {p1, p2}
    Cancellers = {c1, c2}
    MaxWaits = 2
INVARIANTS
    OnePlace
    WakeIsComing
    CancelNotLost
PROPERTIES
    TokenEndsOnce
    CancelEndsWait
CHECK_DEADLOCK FALSE
