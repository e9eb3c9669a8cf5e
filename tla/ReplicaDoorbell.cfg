SPECIFICATION Spec
CONSTANTS
    s1 = s1
    s2 = s2
    w1 = w1
    w2 = w2
    None = None
    Replicas = {r1, r2}
    Workers = {w1, w2}
    Sessions = {s1, s2}
    WorkerOf <- TwoWorkers
    Supported <- EveryType
    Tasks = {t1}
    MaxConcurrent <- OneSlot
    DequeueMaxBatch = 2
    MaxAttempts = 2
    DrainWindow = 1
    Events = {"reclaim", "restart", "hangup"}
    MaxFaults = 1
SYMMETRY Symmetry
INVARIANTS
    TypeOK
    NoLostWakeUp
CHECK_DEADLOCK FALSE
