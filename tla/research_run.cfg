SPECIFICATION Spec
CONSTANTS
    Runs = {r1}
    Keys = {}
    NoKey = NoKey
    NoRun = NoRun
    q1 = q1
    q2 = q2
    Questions = {q1, q2}
    Plan <- OneQuestion
    MaxConcurrent = 2
    SearchCap = TRUE
    MaxAttempts = 2
    MaxEvents = 2
CHECK_DEADLOCK FALSE
INVARIANTS
    CancelHonored
    CompletedIsWhole
    NothingSearchedTwice
    ActiveHasAttempt
    QuietIsSaved
