SPECIFICATION Spec
CONSTANTS
    Slots = {1, 2}
    VerbsOf <- MCVerbs
    Classes = {1, 2}
    Ours = {2}
    Tables <- MCTables
    Editable <- MCEditable
    MaxEdits = 1
    MaxCommands = 2
    Faults = {"kubectl", "forward", "interrupt"}
INVARIANT SummaryExact
INVARIANT SnapshotTrue
INVARIANT HintsGone
INVARIANT NoForwardLeft
CHECK_DEADLOCK FALSE
