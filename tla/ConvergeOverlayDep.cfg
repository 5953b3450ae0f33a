CHECK_DEADLOCK FALSE
SPECIFICATION Spec
CONSTANTS
    Dirs <- MCDirs
    Trees <- OverlayTrees
    Cases <- OverlayCases
    Mode <- MCMode
    Labelled = {"web", "pg"}
    Namespaces = {"", "qa"}
    Timeout = 3
    Edits = 0
    Runs = 1
    Faults = 0
    Kills = 0
    HiddenErrors = FALSE
INVARIANT OverlayInherits
