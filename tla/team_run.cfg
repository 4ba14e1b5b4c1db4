SPECIFICATION Spec
CONSTANTS
    Modes = {"delegate", "autonomous", "sequential", "parallel", "direct"}
    Fallbacks = {"skip", "abort"}
    TeamSize = 3
    MaxRounds = 3
    MaxConcurrent = 2
    MaxTerminations = 2
    MaxTimedJoins = 2
INVARIANTS
    EndsClean
    CancelReachesTeam
    StatusTells
PROPERTIES
    RunEnds
CHECK_DEADLOCK FALSE
