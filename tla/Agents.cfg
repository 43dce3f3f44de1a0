SPECIFICATION AgentsSpec
CONSTANTS
    Platforms = {"linux", "macos", "windows"}
    Modes = {"Required", "Preferred", "Off"}
    Ends = FALSE
    Escapes = TRUE
    MaxRows = 2
    Submits = 1
    Chain = 2
    Backends = {"codex", "claude", "opencode", "agy"}
    Kinds = {"execute", "consult"}
    Nobody = nobody
    MaxEvents = 2
    Events <- MCEvents
    Selections <- MCSelections
    Requests <- MCRequests
    ByteCap = 2
    TailLines = 2
    MaxLog = 3
    MaxTurns = 2
    Said <- MCSaid
    Tails = {0, 2}
    ScanCap = 2
    MaxBytes = 2
    MaxSessions = 2
    MaxSaid = 3
    Unmarked = unmarked
    Malformed = malformed
    PastAll = 9
    TopMarkers <- MCTopMarkers
    Delegates = {"codex", "claude", "opencode", "agy"}
    MaxServers = 2
    MaxDelegated = 3
    Asks <- MCAsks
    MaxModels = 2
    MaxLines = 3
    StdoutCap = 2
    FailureCap = 1
    StderrCap = 1
    TextTail = 1
    AgyResults <- MCAgyResults
INVARIANTS
    CancelledTreeIsGone
    SessionIsOwn
    EndedRowNamesLast
    TurnIsClosed
    PagesAddUp
    UsageAddsUp
    ForwardsTheCaller
    NestsNoDeeper
    RowTellsTheRun
PROPERTIES
    GuardedTreeDies
    CancelledAttemptEnds
CHECK_DEADLOCK FALSE
