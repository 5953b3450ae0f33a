CHECK_DEADLOCK FALSE
SPECIFICATION Spec
CONSTANTS
    Procs = {"node", "local"}
    Verbs <- MCVerbs
    Refs <- MCRefs
    Digests = {"d1", "d2"}
    Published <- MCPublished
    BlobsOf <- MCBlobs
    Canonical <- MCCanonical
    Leftover = {"d1"}
    Legacy <- MCLegacy
    Commands = 3
    Moves = 1
    Gone = 1
    Faults = {"pull", "list", "import", "tag", "s3", "kill"}
INVARIANT CacheUsable
INVARIANT IndexComplete
INVARIANT LoadDelivers
INVARIANT PreloadDelivers
