SPECIFICATION Spec
CONSTANTS
    Gameweeks = 3
    Cap = 2
    Windows <- MCWindows
    Plays <- MCPlays
    Writer = {w1, w2}
    MaxChecked = 1
    MaxRuns = 4
    MaxFaults = 1
    Overruns = FALSE
    NoEntry = NoEntry
    NoOutcome = NoOutcome
    NoLock = NoLock
    NoWriter = NoWriter
    NoCapture = NoCapture
SYMMETRY MCSymmetry
PROPERTIES
    OutcomeIsKeptAlways
CHECK_DEADLOCK FALSE
