SPECIFICATION MCSpec
CONSTANTS
    Length <- MCLength
    Wrap = 6
    Papers <- MCNoPapers
    Blocks <- MCBlocks
    Titles = {"w", "T"}
    MaxTouches = 1
    Folders <- MCFolders
    NotRst = {"readme.md"}
    Folded <- MCFolded
    PhaseFolders = {"phase-1"}
    Sites = {}
    MaxSteps = 3
    MaxRecords = 1
    Missing = missing
    Tools = {}
    NoTool = nobody
    Nothing = nothing
    Draft = draft
    HandEdit = edited
    MaxEdits = 0
    LateEdits = FALSE
    Kill = FALSE
    Faults = {}
    Documents = {"d"}
    Inputs <- MCInputs
    NoDocument = nodocument
    Fails = fails
    Projects <- MCOneRecord
    Repeats = TRUE
    Plans <- MCNoPlans
INVARIANTS
    EditsAccountedFor
CHECK_DEADLOCK FALSE
