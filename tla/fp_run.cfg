SPECIFICATION FairSpec
CONSTANTS
    t1 = t1
    t2 = t2
    v = v
    w = w
    Turns = {t1, t2}
    Threads = {p1, p2}
    Consolidator = Consolidator
    NoThread = NoThread
    ItemsOf <- Mixed
    Values = {v, w}
    DreamerWired = TRUE
    RetractTime = 90
    MaxProjections <- SecondTwice
    MaxRetractions = 1
CHECK_DEADLOCK FALSE
INVARIANT SuccessIsDurable
INVARIANT MemoryHasState
INVARIANT ValueKept
INVARIANT StoresAgree
PROPERTY DuplicatesMerge
