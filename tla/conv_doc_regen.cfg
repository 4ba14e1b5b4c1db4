\* A regenerated answer whose turn had called a tool.
SPECIFICATION ChatSpec
CONSTANTS
    Histories <- OneTurn
    MaxTurns = 2
    MaxManual = 0
    MaxEvents = 2
    RecentWindow = 2
    Capacity = 5
    Pressure = 3
CHECK_DEADLOCK FALSE
INVARIANT NoQuestionTwice
