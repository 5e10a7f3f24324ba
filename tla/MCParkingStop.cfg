SPECIFICATION Spec
CONSTANTS
    Tasks = {t1}
    Peers = {p1}
    Cancellers = {c1}
    MaxWaits = 1
INVARIANT
    StopNotLost
CHECK_DEADLOCK FALSE
