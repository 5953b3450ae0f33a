SPECIFICATION FairSpec
CONSTANTS
    None = None
    Nothing = Nothing
    Torn = Torn
    Classes = {c1, c2}
    Manifests = {m}
    Contents = {x, y}
    Half = Half
    Stagers = {s}
    MaxRelease = 2
    MaxWrites = 2
    MaxEdits = 1
    MaxRuns = 2
    Formats = {"qcow2", "ova", "gcp-tar"}
    BuildFaults = {"kill", "seed", "customize", "convert", "ssh"}
    Files = {f1, f2}
    BootFaults = {"bypass", "damage", "kill", "latemount"}
INVARIANT ShippedClean
INVARIANT SeedIsData
INVARIANT RecordCurrent
INVARIANT RunsOnWholeData
PROPERTY StagingStrict
PROPERTY CustomerDataKept
PROPERTY BootSettles
PROPERTY KeepsPromise
CHECK_DEADLOCK FALSE
