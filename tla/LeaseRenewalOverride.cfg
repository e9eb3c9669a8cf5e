CONSTANTS
    AckTimeout = 6
    LeaseTTL = 12
    PolicyTTL = 4
    MaxExecution = 24
    RenewAfter = 6
    Grace = 2
    Interval = 2
    ChunkTime = 1
    Chunks = 12
    Latency = 1
    ReconnectTime = 1
    MaxMisses = 0
SPECIFICATION Spec
INVARIANT HealthyTaskKeepsLease
