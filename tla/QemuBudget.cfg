SPECIFICATION FairSpec
CONSTANTS
    op = op
    timer = timer
    Slots = {op}
    Verbs <- BudgetVerbs
    Pids = {1, 2}
    MaxRun = 2
    OnExpiries = {"stop", "pause", "teardown"}
    Faults = {"disarm"}
    MaxTime = 4
INVARIANTS
    ArmedWhileUp
    NoHardPowerOff
PROPERTIES
    FullBudget
    ExpiredIsReaped
