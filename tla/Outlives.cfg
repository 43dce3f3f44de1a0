SPECIFICATION AttemptSpec
CONSTANTS
    Platforms = {"linux", "macos", "windows"}
    Modes = {"Required", "Preferred", "Off"}
    Ends = TRUE
    Escapes = TRUE
PROPERTIES
    GuardedTreeDies
CHECK_DEADLOCK FALSE
