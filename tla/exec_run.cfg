SPECIFICATION FairSpec
CONSTANTS
    n1 = n1
    n2 = n2
    n3 = n3
    Execs = {1, 2}
    Nodes = {n1, n2}
    Connections = {c1}
    StartPlans <- TwoPlans
    NoNode = NoNode
    MaxRetries = 1
    MaxPatches = 1
CHECK_DEADLOCK FALSE
INVARIANT RunningHasTask
INVARIANT NoFalseSuccess
PROPERTY AbortIsFinal
PROPERTY CompletedIsWhole
PROPERTY CompletedWorkIsKept
PROPERTY PauseHolds
PROPERTY RunEnds
