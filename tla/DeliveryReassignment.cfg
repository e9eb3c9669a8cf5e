SPECIFICATION Spec
CONSTANTS
    t1 = t1
    t2 = t2
    t3 = t3
    AttemptCap <- FirstRetried
    Tasks = {t1, t2, t3}
    NoExecutor = {t3}
    MaxConcurrent = 1
    MaxAttempts = 2
    MaxPendingResults = 1
    DequeueMaxBatch = 2
    MaxSessions = 2
    MaxCopies = 1
    Events = {"restart"}
INVARIANTS
    TypeOK
    CreditsWithinLimit
    SlotsMatchRunning
    CreditIsExplained
    CompletionWasExecuted
CHECK_DEADLOCK FALSE
