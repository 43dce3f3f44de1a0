SPECIFICATION Spec
CONSTANTS
    MaxRuns = 2
    Dirs = {d1}
    Servers = {s1}
    NoServer = nobody
    Calls = {"submit", "cancel"}
    AutoRestart = TRUE
    Fallback = TRUE
    ClockMoves = FALSE
    StoreFails = FALSE
PROPERTIES
    CancelWins
CHECK_DEADLOCK FALSE
