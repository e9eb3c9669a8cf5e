SPECIFICATION FairSpec
CONSTANTS
    s1 = s1
    s2 = s2
    w1 = w1
    w2 = w2
    None = None
    Replicas = {r1}
    Workers = {w1, w2}
    Sessions = {s1, s2}
    WorkerOf <- TwoWorkers
    Supported <- EveryType
    Tasks = {t1}
    MaxConcurrent <- FirstWider
    DequeueMaxBatch = 2
    MaxAttempts = 2
    DrainWindow = 1
    Events = {"signal", "reclaim"}
    MaxFaults = 1
INVARIANTS
    LateClaimsBounded
PROPERTIES
    QueuedWorkIsClaimed
    ShutdownEnds
CHECK_DEADLOCK FALSE
