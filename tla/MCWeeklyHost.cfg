SPECIFICATION Spec
CONSTANTS
    Gameweeks = 2
    Lead = 4
    RunTime = 2
    Window = 10
    Day = 4
    MorningAt = 1
    TickEvery = 2
    Deadlines <- MCDeadlines
    MaxAge = 3
    Releases = TRUE
    Horizon = 12
    MaxFaults = 1
    MaxMoves = 1
    Targets = {8}
    MaxHand = 1
    Visits = {4, 9}
    NoRun = NoRun
    NoCopy = NoCopy
INVARIANTS
    TypeOK
    MissedIsExplained
    OncePerMarker
    MissedAlarmIsTrue
    ReleasedOnce
PROPERTIES
    Refines
CHECK_DEADLOCK FALSE
