SPECIFICATION FairSpec
CONSTANTS
    t1 = t1
    t2 = t2
    t3 = t3
    ns1 = ns1
    ns2 = ns2
    w1 = w1
    w2 = w2
    NoPin = NoPin
    NoWorker = NoWorker
    Turns = {t1, t2}
    Workers = {w1, w2}
    Namespaces <- TwoNamespaces
    NamespaceOf <- Alternating
    Pin <- OnePinned
    BatchSize = 1
    MaxAttempts = 2
    BatchExtractor = FALSE
    UseWriteLock = FALSE
    LeaseExceedsLatency = FALSE
    TurnsMayVanish = TRUE
    MaxAbandons = 1
    MaxLapses = 2
CHECK_DEADLOCK FALSE
INVARIANT DoneWasProjected
INVARIANT AttemptsWithinBudget
PROPERTY EveryJobSettles
