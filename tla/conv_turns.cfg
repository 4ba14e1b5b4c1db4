\* Two turns, or one and two more events, beside their compactions.
SPECIFICATION ChatSpec
CONSTANTS
    Histories <- OneTurn
    MaxTurns = 2
    MaxManual = 1
    MaxEvents = 3
    RecentWindow = 2
    Capacity = 5
    Pressure = 3
CHECK_DEADLOCK FALSE
INVARIANTS
    NothingLost
    TurnsInOrder
    SlotNamesLiveTurn
    CutKeepsRounds
PROPERTIES
    NoResurrection
    ComesToRest
