SPECIFICATION FairSpec
CONSTANTS
    t1 = t1
    n1 = n1
    Turns = {t1}
    Notes = {n1}
    Flushes = {f1}
    Nobody = Nobody
    BatchSize = 2
    MaxStarts = 2
    MaxStores = 1
CHECK_DEADLOCK FALSE
PROPERTY FlushTellsTruth
PROPERTY EveryRowFilled
