SPECIFICATION FairSpec
CONSTANTS
    m1 = m1
    None = None
    Machines = {m1}
    Processes = {p1, p2}
    Host <- OneMachine
    Workers = {w1, w2, w3}
    RateLimit = 2
    MaxFaults = 2
    MaxSignals = 2
INVARIANTS
    TypeOK
    EnrolsOnce
    IdentityIsKnown
    RestartIsNotADuplicate
PROPERTIES
    WorkerComesUp
