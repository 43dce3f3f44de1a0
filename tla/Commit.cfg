SPECIFICATION FilesSpec
CONSTANTS
    Length <- MCLength
    Wrap = 6
    Papers <- MCNoPapers
    Blocks <- MCBlocks
    Titles = {"w", "T"}
    MaxTouches = 1
    Folders <- MCFolders
    NotRst = {"readme.md"}
    Folded <- MCFolded
    PhaseFolders = {"phase-1"}
    Sites = {}
    MaxSteps = 3
    MaxRecords = 2
    Missing = missing
    Tools = {t1, t2, t3}
    NoTool = nobody
    Nothing = nothing
    Draft = draft
    HandEdit = edited
    MaxEdits = 0
    LateEdits = FALSE
    Kill = FALSE
    Faults = {"step"}
    Documents = {"d"}
    Inputs <- MCInputs
    NoDocument = nodocument
    Fails = fails
    Projects <- MCOneRecord
    Repeats = FALSE
    Plans <- MCNoPlans
PROPERTIES
    ImplementsProject
    CallsEnd
CHECK_DEADLOCK FALSE
