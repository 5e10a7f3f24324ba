SPECIFICATION FairSpec
CONSTANTS
    Ops = {1, 2, 3}
    Threads = {h1, h2, h3}
    UnheardMax = 1
    Pools <- MCPools
INVARIANTS
    ValueReachesOne
    ClosedUnlessTaken
    CountsAreExact
    ThreadsAreBounded
    QueuedHasThread
PROPERTIES
    QueuedRuns
CHECK_DEADLOCK FALSE
