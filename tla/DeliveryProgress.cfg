SPECIFICATION FairSpec
CONSTANTS
    t1 = t1
    t2 = t2
    t3 = t3
    AttemptCap <- SameCap
    Tasks = {t1}
    NoExecutor = {}
    MaxConcurrent = 2
    MaxAttempts = 2
    MaxPendingResults = 2
    DequeueMaxBatch = 1
    MaxSessions = 3
    MaxCopies = 2
    Events = {"restart", "drain", "malformed", "renewal_fails"}
INVARIANTS
    PendingAckIsOnTheWay
PROPERTIES
    MovesAsLifecycle
    DrainEmpties
    FinishedWorkLands
CHECK_DEADLOCK FALSE
