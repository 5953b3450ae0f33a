CHECK_DEADLOCK FALSE
SPECIFICATION FairSpec
CONSTANTS
    Dirs <- MCDirs
    Trees <- MCTrees
    Cases <- MCCases
    Mode <- MCMode
    Labelled = {"web", "pg"}
    Namespaces = {"", "qa"}
    Timeout = 3
    Edits = 1
    Runs = 2
    Faults = 1
    Kills = 1
    HiddenErrors = FALSE
INVARIANT PlanIsExact
INVARIANT DepsConverged
PROPERTY WritesRouted
PROPERTY SuccessMeansConverged
PROPERTY RunsEnd
