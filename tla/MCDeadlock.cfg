SPECIFICATION Spec
CONSTANTS
    Tasks = {1}
    Main = m
    TimerThread = tt
    Nobody = nobody
    Ops = {o}
    Streams = {o}
    Checkers = {c1, c2}
    MaxBlocks = 1
INVARIANTS VerdictIsTrue SettledIsTrue  StuckIsSeen
CHECK_DEADLOCK FALSE
