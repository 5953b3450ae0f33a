CHECK_DEADLOCK FALSE
SPECIFICATION Spec
CONSTANTS
    Dirs <- MCDirs
    Trees <- BaseTrees
    Cases <- BaseCases
    Mode <- MCMode
    Labelled = {"web", "pg"}
    Namespaces = {"", "qa"}
    Timeout = 3
    Edits = 0
    Runs = 2
    Faults = 2
    Kills = 0
    HiddenErrors = TRUE
INVARIANT DiagnosticsSurface
