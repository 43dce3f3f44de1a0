SPECIFICATION Spec
CONSTANTS
    MaxRuns = 3
    Dirs = {d1}
    Servers = {s1, s2}
    NoServer = nobody
    Calls = {"submit", "cancel"}
    AutoRestart = TRUE
    Fallback = FALSE
    ClockMoves = FALSE
    StoreFails = FALSE
SYMMETRY ServerSymmetry
CONSTRAINT FewRows
INVARIANTS
    OneWriterPerDir
    ActiveRowHasTask
CHECK_DEADLOCK FALSE
