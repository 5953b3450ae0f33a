SPECIFICATION Spec
CONSTANTS
    op = op
    timer = timer
    Slots = {op}
    Verbs <- AllVerbs
    Pids = {1, 2}
    MaxRun = 1
    OnExpiries = {"stop", "pause", "teardown"}
    Faults = {"prepare", "boot", "ssh", "install", "hang", "stuck", "kill", "vmcrash", "reboot", "recycle", "arm", "disarm", "sidecar"}
    MaxTime = 3
INVARIANTS
    TypeOK
    VMAccounted
PROPERTIES
    NoForeignSignal
    PlatformNotClobbered
