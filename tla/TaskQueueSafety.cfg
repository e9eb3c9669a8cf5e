SPECIFICATION Spec
CONSTANTS
    Tasks = {t1}
    Workers = {w1, w2}
    Tokens = {k1, k2}
    quick = quick
    TaskTypes = {quick}
    TypeOf <- OneType
    Null = Null
    AckTimeout = 1
    LeaseTTL = 1
    MaxExecution <- DefaultExecution
    MaxAttempts = 3
    DisconnectGrace = 0
    BackoffBase = 1
    BackoffFactor = 1
    BackoffMax = 1
    ExclusionWindow = 1
    Retention = 1
    PolicyUpdates <- SomeUpdates
    AttemptCeiling = 3
    EnqueueMaxBatch = 2
    DequeueMaxBatch = 2
    ReclaimBatch = 2
SYMMETRY Symmetry
INVARIANTS
    AttemptNamesOneHolder
    WinnerIsLatestHolder
    HonestHolderIsNoImpostor
    LostAttemptsRecorded
    FailureIsExplained
    FenceRowsBounded
    LeaseDiscipline
    AttemptBudget
PROPERTIES
    TerminalIsFinal
    ImplementsLifecycle
