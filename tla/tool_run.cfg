\* Two rounds of up to two calls, in every mode.
SPECIFICATION Spec
CONSTANTS
    lookup = lookup
    write = write
    wipe = wipe
    NoRef = NoRef
    Tools = {lookup, write, wipe}
    Policy <- ThePolicy
    Responses <- SomeResponses
    Histories <- SomeHistories
    Sizes = {1, 3}
    MaxRounds = 2
    MaxParallel = 2
    MaxMessages = 6
    ContextGroups = 3
    MaxTotal = 9
CHECK_DEADLOCK FALSE
INVARIANTS
    PromptPaired
    AnswersShown
    ConsentHonored
    ChainedInRound
