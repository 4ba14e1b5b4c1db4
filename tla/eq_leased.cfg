SPECIFICATION Spec
CONSTANTS
    t1 = t1
    t2 = t2
    t3 = t3
    ns1 = ns1
    ns2 = ns2
    w1 = w1
    w2 = w2
    NoPin = NoPin
    NoWorker = NoWorker
    Turns = {t1, t2, t3}
    Workers = {w1, w2}
    Namespaces <- OneNamespace
    NamespaceOf <- AllInOne
    Pin <- Unpinned
    BatchSize = 2
    MaxAttempts = 2
    BatchExtractor = TRUE
    UseWriteLock = TRUE
    LeaseExceedsLatency = TRUE
    TurnsMayVanish = FALSE
    MaxAbandons = 1
    MaxLapses = 1
CHECK_DEADLOCK FALSE
SYMMETRY WorkerSymmetry
INVARIANT LeaseHonored
PROPERTY ImplementsJobBoard
