SPECIFICATION Spec
CONSTANTS
    ca = ca
    cb = cb
    cell = cell
    t1 = t1
    t2 = t2
    t3 = t3
    None = None
    Tasks = {t1, t2}
    Chans = {ca, cb}
    Cells = {cell}
    Cap <- MCCap
    Ahead <- MCAhead
    Waits <- FeederWaits
    MaxOps <- FeederOps
    MayCancel = {}
    MayClose = {ca}
    MayDrain = {ca}
    SHORT = 1
INVARIANT ReaderIsHeard
CHECK_DEADLOCK FALSE
