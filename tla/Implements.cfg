SPECIFICATION Spec
CONSTANTS
    MaxRuns = 2
    Dirs = {d1}
    Servers = {s1}
    NoServer = nobody
    Calls = {"submit", "consult", "cancel", "steer"}
    AutoRestart = TRUE
    Fallback = TRUE
    ClockMoves = FALSE
    StoreFails = TRUE
PROPERTIES
    ImplementsBoard
CHECK_DEADLOCK FALSE
