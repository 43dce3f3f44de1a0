SPECIFICATION LiveSpec
CONSTANTS
    MaxRuns = 1
    Dirs = {d1}
    Servers = {s1, s2}
    NoServer = nobody
    Calls = {"submit", "cancel"}
    AutoRestart = FALSE
    Fallback = FALSE
    ClockMoves = TRUE
    StoreFails = FALSE
PROPERTIES
    BootSettles
CHECK_DEADLOCK FALSE
