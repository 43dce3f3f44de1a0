SPECIFICATION LiveSpec
CONSTANTS
    MaxRuns = 2
    Dirs = {d1}
    Servers = {s1}
    NoServer = nobody
    Calls = {"submit", "cancel", "steer"}
    AutoRestart = TRUE
    Fallback = FALSE
    ClockMoves = FALSE
    StoreFails = FALSE
INVARIANTS
    SessionHandedOver
PROPERTIES
    CancelledRunEnds
CHECK_DEADLOCK FALSE
