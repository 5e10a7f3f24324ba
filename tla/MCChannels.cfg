SPECIFICATION Spec
CONSTANTS
    ca = ca
    cb = cb
    cell = cell
    t1 = t1
    t2 = t2
    t3 = t3
    None = None
    Tasks = {t1, t2, t3}
    Chans = {ca, cb}
    Cells = {cell}
    Cap <- MCCap
    Ahead <- MCAhead
    Waits <- MCWaits
    MaxOps <- MCMaxOps
    MayCancel = {t2}
    MayClose = {ca}
    MayDrain = {ca}
    SHORT = 1
INVARIANTS
    NobodyWaitsInVain
    EveryArmIsQueued
PROPERTY KeepsThePromise
CHECK_DEADLOCK FALSE
