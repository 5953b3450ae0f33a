------------------------------ MODULE DataVolume ------------------------------
(****************************************************************************)
(* What an appliance promises about the customer's data volume, whatever    *)
(* disks are booted against it and whenever power is lost                   *)
(* (APPLIANCE_MAINTENANCE.md): the seed of one release is unpacked onto     *)
(* empty files only, the volume is sealed when it is whole, a sealed volume *)
(* is seeded and wiped no more, and k3s serves from sealed volumes.         *)
(****************************************************************************)
CONSTANTS Files, Releases, Nothing, Own

VARIABLES
    content,    \* of each file: Nothing, the release it comes from, or Own
    sealed,     \* the marker is on the volume
    serving     \* k3s of an appliance that is gated runs on it

vars == <<content, sealed, serving>>

Empty == \A f \in Files : content[f] = Nothing

\* Every file has the same origin.
Whole == \A f, g \in Files : content[f] = content[g]

Init ==
    /\ content = [f \in Files |-> Nothing]
    /\ sealed = FALSE
    /\ serving = FALSE

\* A backup is restored to a volume nothing has touched.
Restore ==
    /\ ~sealed /\ Empty
    /\ content' = [f \in Files |-> Own]
    /\ UNCHANGED <<sealed, serving>>

Unpack(f, r) ==
    /\ ~sealed
    /\ content[f] = Nothing
    /\ \A g \in Files : content[g] \in {Nothing, r}
    /\ content' = [content EXCEPT ![f] = r]
    /\ UNCHANGED <<sealed, serving>>

Wipe ==
    /\ ~sealed
    /\ \A f \in Files : content[f] # Own
    /\ content' = [f \in Files |-> Nothing]
    /\ UNCHANGED <<sealed, serving>>

\* k3s may start at once.
Seal ==
    /\ ~sealed /\ Whole
    /\ sealed' = TRUE
    /\ serving' \in BOOLEAN
    /\ UNCHANGED content

Serve ==
    /\ sealed
    /\ serving' = TRUE
    /\ UNCHANGED <<content, sealed>>

Halt ==
    /\ serving' = FALSE
    /\ UNCHANGED <<content, sealed>>

\* The customer's workloads; those of an ungated appliance need no seal.
Use(f) ==
    /\ content' = [content EXCEPT ![f] = Own]
    /\ UNCHANGED <<sealed, serving>>

Next ==
    \/ Restore \/ Wipe \/ Seal \/ Serve \/ Halt
    \/ \E f \in Files : Use(f) \/ \E r \in Releases : Unpack(f, r)

Spec == Init /\ [][Next]_vars
================================================================================
