SPECIFICATION Spec
CONSTANTS
    Runs = {r1}
    Keys = {k1}
    NoKey = NoKey
    NoRun = NoRun
    q1 = q1
    q2 = q2
    Questions = {q1, q2}
    Plan <- OneQuestion
    MaxConcurrent = 2
    SearchCap = TRUE
    MaxAttempts = 1
    MaxEvents = 0
CHECK_DEADLOCK FALSE
INVARIANTS
    SalvageKeepsFinished
