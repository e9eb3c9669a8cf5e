\* The smallest numbers that are Timely with one failed renewal: every part of a
\* lease is used up by some behaviour.  The task outlasts its deadline if every
\* chunk takes its full time.
CONSTANTS
    AckTimeout = 2
    LeaseTTL = 8
    PolicyTTL = 8
    MaxExecution = 10
    RenewAfter = 2
    Grace = 1
    Interval = 2
    ChunkTime = 1
    Chunks = 11
    Latency = 1
    ReconnectTime = 1
    MaxMisses = 1
SPECIFICATION FairSpec
INVARIANTS HealthyTaskKeepsLease DeadlineBinds
PROPERTIES AttemptEnds
