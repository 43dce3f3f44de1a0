SPECIFICATION MCSpec
CONSTANTS
    Absent = absent
    NoRecord = norecord
    NoManifest = nomanifest
    Idle = idle
    Homes = {"h1", "h2"}
    Scopes <- MCScopes
    Kits = {"h1"}
    Servers = {"dispatch", "palette"}
    Rank <- MCRank
    Palette = "palette"
    Guard = "agent-guard"
    GuardUsers = {"dispatch"}
    Releases = {"r1", "r2"}
    Ships <- MCShips
    ShipsGuard = {"r1"}
    Models = {"m1"}
    Prefs = {"m1", absent}
    OwnModels <- MCOwnModels
    OwnEntries <- MCOwnEntries
    Plugin = "plugin"
    Faults = {"step", "cli", "file", "die"}
    Kit <- MCKit
    Concat = TRUE
    Starts <- MCStarts
    Touches <- MCTouches
    GuardName = "agent-guard"
    Sites <- MCSites
    Requests <- MCRequests
    Unset = unset
    MaxInstalls = 2
    MaxFaults = 3
INVARIANTS
    NothingLeftBehind
    Repeatable
    SettingsComeBack
    RegistrationsOnRecord
    RegisteredServerHasBinary
    BinariesStand
    OneRelease
PROPERTIES
    TheirWorkKept
CHECK_DEADLOCK FALSE
