SPECIFICATION FairSpec
CONSTANTS
    t1 = t1
    t2 = t2
    t3 = t3
    Tasks = {t1, t2, t3}
    Failed = {t3}
    Caller <- Callers
    Durations = {1}
    MaxTime = 1
    LATE_STEPS = 2
    MAX_RECORDED_FAILURES = 1
INVARIANTS NoFailureIsUntold ValueInTimeIsGiven
PROPERTIES ShowsNoHandledFailure LateTasksEnd
CHECK_DEADLOCK FALSE
