SPECIFICATION ProvisionedSpec
CONSTANTS
    op = op
    timer = timer
    Slots = {op, timer}
    Verbs <- ShutdownVerbs
    Pids = {1}
    MaxRun = 1
    OnExpiries = {"stop", "teardown"}
    Faults = {"hang", "recycle", "disarm"}
    MaxTime = 2
PROPERTIES
    DownWhenDone
    CommandsFinish
