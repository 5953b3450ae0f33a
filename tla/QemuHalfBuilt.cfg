SPECIFICATION Spec
CONSTANTS
    op = op
    timer = timer
    Slots = {op}
    Verbs <- ProvisionAndStop
    Pids = {1, 2}
    MaxRun = 1
    OnExpiries = {"stop"}
    Faults = {"install"}
    MaxTime = 2
INVARIANTS
    ProvisionedHasPlatform
