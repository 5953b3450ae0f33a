---------------------------- MODULE MCQemuLifecycle ----------------------------
(****************************************************************************)
(* Instances of QemuLifecycle for TLC: which verbs run in which slot, and   *)
(* the state a finished provision leaves, to start concurrent runs from.    *)
(****************************************************************************)
EXTENDS QemuLifecycle

\* A slot of the operator's and one the timer's reap runs in.
CONSTANTS op, timer

\* One command at a time.
AllVerbs         == [s \in Slots |-> VerbNames \ {"import"}]
BudgetVerbs      == [s \in Slots |-> VerbNames \ {"import", "disarm"}]
ProvisionAndStop == [s \in Slots |-> {"provision", "stop", "teardown", "reap"}]

\* Shutdown verbs against a running cluster, in two slots.
ShutdownVerbs ==
    [s \in Slots |-> IF s = op THEN {"stop", "teardown", "pause", "resume", "import"}
                               ELSE {"reap", "pause", "stop"}]

================================================================================
