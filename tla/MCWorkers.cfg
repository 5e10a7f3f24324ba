SPECIFICATION FairSpec
CONSTANTS
    w1 = w1
    w2 = w2
    o1 = o1
    o2 = o2
    t1 = t1
    WorkerSet = {w1, w2}
    Others = {o1, o2}
    Tasks = {t1, t2, t3}
    Times = {1, 2}
    Waiters = {m}
    Systems <- MCSystems
    TimerLoop = tl
    LOOKING = 1
    Nobody = nobody
INVARIANTS QueuedIsSeen DeadlineIsWatched EndIsHeard
PROPERTIES QueuedRuns WorkersEnd
CHECK_DEADLOCK FALSE
