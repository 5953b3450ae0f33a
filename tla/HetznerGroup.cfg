SPECIFICATION FairSpec
CONSTANTS
    Contexts = {"a", "b"}
    Reapers = {"a", "b"}
    Busy = 2
    Faults = {"pod"}
    MaxFailures = 2
    MaxProvisions = 3
    MaxId = 6
INVARIANT LBOwned
INVARIANT CertOnLB
PROPERTY EverythingGoes
