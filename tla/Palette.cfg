SPECIFICATION MCSpec
CONSTANTS
    Length <- MCLength
    Wrap = 6
    Papers <- MCPapers
    Blocks <- MCBlocks
    Titles = {"w", "T"}
    MaxTouches = 1
    Folders <- MCFolders
    NotRst = {"readme.md"}
    Folded <- MCFolded
    PhaseFolders = {"phase-1"}
    Sites <- MCSites
    MaxSteps = 3
    MaxRecords = 2
    Missing = missing
    Tools = {t1, t2}
    NoTool = nobody
    Nothing = nothing
    Draft = draft
    HandEdit = edited
    MaxEdits = 2
    LateEdits = FALSE
    Kill = TRUE
    Faults = {"step", "undo"}
    Documents = {"d"}
    Inputs <- MCInputs
    NoDocument = nodocument
    Fails = fails
    Projects <- MCProjects
    Repeats = FALSE
    Plans <- MCPlans
SYMMETRY ToolSymmetry
INVARIANTS
    RefusedLeavesNothing
    SupersededIsNamed
    EditsAccountedFor
    ItemsInActivePhases
    MattersKept
    MirrorsApart
    CheckoutAgrees
PROPERTIES
    UnseenEditKept
    RepairsIndex
    PromoteKeepsStaging
    ReflowSettles
    WritesOneSection
    LinksFollow
CHECK_DEADLOCK FALSE
