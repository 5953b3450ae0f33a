---------------------------- MODULE ApplianceBoot ----------------------------
(****************************************************************************)
(* The customer's machine: an appliance disk, a data volume, and the unit   *)
(* that seeds the volume before k3s may start (pkg/provision/qemu           *)
(* data_seed_check.sh, data_seed.service, k3s_data_seed.conf).  A power     *)
(* loss may come between any two steps.                                     *)
(****************************************************************************)
EXTENDS Naturals

CONSTANTS
    Nothing,        \* no file, no marker, no volume
    Torn,           \* a file cut off
    Files,          \* what a seed with data in it unpacks to
    BootFaults      \* subset of {"bypass", "damage", "kill", "latemount"}

ASSUME BootAssumption == Nothing \notin Nat /\ Torn \notin Nat /\ Torn # Nothing

\* Contents of a file: Nothing, cut off by a power loss, the customer's own
\* (Theirs), or as the seed of a release has it.  Markers: likewise, Theirs
\* for one the customer wrote by hand.
Theirs == 0

Fresh == [files |-> [f \in Files |-> Nothing], marker |-> Nothing, label |-> TRUE]

VARIABLES
    shelf,      \* the disk images delivered so far, by release
    machine,    \* the VM: pc, its boot disk, what is mounted, the bypass flag
    dir,        \* /data/yolean on the boot disk
    volume,     \* the data volume, mounted by its label, or Nothing
    ensure      \* ensureDataDisk has created the volume, and not formatted it

bootVars == <<shelf, machine, dir, volume, ensure>>

NoMachine == [pc |-> "off", image |-> Nothing, damaged |-> FALSE, first |-> TRUE,
              mounted |-> FALSE, bypass |-> FALSE, left |-> {}]

BootInit ==
    /\ shelf = <<>>
    /\ machine = NoMachine
    /\ dir = Fresh
    /\ volume = Nothing
    /\ ensure = FALSE

\* What /data/yolean is for the guest.
Here == IF machine.mounted THEN volume ELSE dir
SetHere(h) == IF machine.mounted THEN volume' = h /\ UNCHANGED dir
                                 ELSE dir' = h /\ UNCHANGED volume
Goto(pc) == machine' = [machine EXCEPT !.pc = pc]

Labelled == volume # Nothing /\ volume.label
Powered == machine.pc # "off"

\* Mutant: what an unpacking cut off has left is unpacked again.
MutNotTheirs(h) == \A f \in Files : h.files[f] # Theirs

IsEmpty(h) == \A f \in Files : h.files[f] = Nothing
Members(image) == IF image.seeded THEN Files ELSE {}

--------------------------------------------------------------------------------
(* The customer *)

\* Import an appliance disk: the first one, the next release, or the one
\* before.  A copy may be damaged.
InsertDisk(r) ==
    /\ ~Powered
    /\ r \in DOMAIN shelf
    /\ machine.image # Nothing => machine.image.release # shelf[r].release
    /\ \E d \in BOOLEAN :
         /\ d => "damage" \in BootFaults
         /\ machine' = [NoMachine EXCEPT !.image = shelf[r], !.damaged = d]
    /\ dir' = IF shelf[r].data
              THEN [Fresh EXCEPT !.files = [f \in Files |-> shelf[r].release]]
              ELSE Fresh
    /\ UNCHANGED <<shelf, volume, ensure>>

\* A volume formatted for the purpose, or one restored from a backup.
AttachVolume ==
    /\ ~Powered /\ ~ensure
    /\ volume = Nothing
    /\ volume' \in {Fresh, [Fresh EXCEPT !.files = [f \in Files |-> Theirs]]}
    /\ UNCHANGED <<shelf, machine, dir, ensure>>

\* On a y-cluster host: ensureDataDisk creates and formats the disk, removes
\* it if the format fails, and preserves whatever exists.
EnsureDataDisk ==
    /\ ~Powered /\ ~ensure
    /\ volume = Nothing
    /\ volume' = [Fresh EXCEPT !.label = FALSE]
    /\ ensure' = TRUE
    /\ UNCHANGED <<shelf, machine, dir>>

FormatDataDisk ==
    /\ ensure
    /\ volume' \in {Fresh, Nothing}
    /\ ensure' = FALSE
    /\ UNCHANGED <<shelf, machine, dir>>

EnsureKilled ==
    /\ ensure /\ "kill" \in BootFaults
    /\ ensure' = FALSE
    /\ UNCHANGED <<shelf, machine, dir, volume>>

\* Recipes (a) and (b) of the conflict message, which the unit prints for what
\* it finds where it may look: mark data that is right, wipe what is junk.
Conflict == machine.pc = "failed" /\ (machine.mounted \/ machine.bypass)

MarkByHand ==
    /\ Conflict
    /\ \A f \in Files : Here.files[f] = Theirs
    /\ SetHere([Here EXCEPT !.marker = Theirs])
    /\ UNCHANGED <<shelf, machine, ensure>>

Wipe ==
    /\ Conflict
    /\ Here.marker = Nothing
    /\ \A f \in Files : Here.files[f] # Theirs
    /\ SetHere(Fresh)
    /\ UNCHANGED <<shelf, machine, ensure>>

RestartUnit ==
    /\ machine.pc = "failed"
    /\ Goto("check")
    /\ UNCHANGED <<shelf, dir, volume, ensure>>

\* The workloads write over what the seed gave them.
Work(f) ==
    /\ machine.pc = "up"
    /\ Here.files[f] # Theirs
    /\ SetHere([Here EXCEPT !.files[f] = Theirs])
    /\ UNCHANGED <<shelf, machine, ensure>>

--------------------------------------------------------------------------------
(* Boot *)

\* fstab's nofail: boot goes on without a volume, or before it is mounted.
\* cloud-init writes the bypass flag on the first boot of a disk, at a host
\* where no volume is attached; /run forgets it.
Boot ==
    /\ ~Powered /\ ~ensure /\ machine.image # Nothing
    /\ \E b, m \in BOOLEAN :
         /\ b => "bypass" \in BootFaults /\ machine.first /\ volume = Nothing
         /\ m => Labelled
         /\ ~m => ~Labelled \/ "latemount" \in BootFaults
         /\ machine' = [machine EXCEPT !.pc = "unit", !.first = FALSE,
                                       !.mounted = m, !.bypass = b]
    /\ UNCHANGED <<shelf, dir, volume, ensure>>

Mount ==
    /\ Powered
    /\ Labelled /\ ~machine.mounted
    /\ machine' = [machine EXCEPT !.mounted = TRUE]
    /\ UNCHANGED <<shelf, dir, volume, ensure>>

\* The unit's ConditionPathExists: without a seed it is skipped, and k3s'
\* Requires is met.  Without the unit there is nothing to require.
StartUnit ==
    /\ machine.pc = "unit"
    /\ Goto(IF machine.image.unit /\ machine.image.seed THEN "check" ELSE "up")
    /\ UNCHANGED <<shelf, dir, volume, ensure>>

\* Mutant: data without a marker does not stop it.
MutDecideByMarker(h) ==
    IF ~machine.bypass /\ ~machine.mounted THEN "failed"
    ELSE IF h.marker # Nothing THEN "up" ELSE "extract"

\* The decision table, in its order: what comes after "check".
Decision(h) ==
    IF ~machine.bypass /\ ~machine.mounted THEN "failed"
    ELSE IF h.marker # Nothing THEN "up"
    ELSE IF ~IsEmpty(h) THEN "failed"
    ELSE "extract"

\* zstd -tq before anything is unpacked.
SeedIsWhole == ~machine.damaged

\* Mutant: Restart=on-failure.
MutCheckRestarts ==
    /\ machine.pc = "check"
    /\ LET d == Decision(Here)
       IN machine' = [machine EXCEPT !.pc = IF d = "failed" THEN "unit" ELSE d,
                        !.left = IF d = "extract" THEN Members(machine.image) ELSE {}]
    /\ UNCHANGED <<shelf, dir, volume, ensure>>

Check ==
    /\ machine.pc = "check"
    /\ LET d == Decision(Here)
           next == IF d = "extract" /\ ~SeedIsWhole THEN "failed" ELSE d
       IN machine' = [machine EXCEPT !.pc = next,
                        !.left = IF next = "extract" THEN Members(machine.image) ELSE {}]
    /\ UNCHANGED <<shelf, dir, volume, ensure>>

Extract ==
    /\ machine.pc = "extract"
    /\ \E f \in machine.left :
         /\ SetHere([Here EXCEPT !.files[f] = machine.image.release])
         /\ machine' = [machine EXCEPT !.left = @ \ {f}]
    /\ UNCHANGED <<shelf, ensure>>

\* Mutant: the marker does not wait for tar.
MutMarkFirst ==
    /\ machine.pc = "extract"
    /\ SetHere([Here EXCEPT !.marker = machine.image.release])
    /\ Goto("up")
    /\ UNCHANGED <<shelf, ensure>>

\* The marker comes last; k3s may start.
MarkSeeded ==
    /\ machine.pc = "extract" /\ machine.left = {}
    /\ SetHere([Here EXCEPT !.marker = machine.image.release])
    /\ Goto("up")
    /\ UNCHANGED <<shelf, ensure>>

\* Power is lost, or the machine is shut down; a file being unpacked is torn.
PowerOff ==
    /\ Powered
    /\ \/ UNCHANGED <<dir, volume>>
       \/ /\ machine.pc = "extract"
          /\ \E f \in machine.left : SetHere([Here EXCEPT !.files[f] = Torn])
    /\ machine' = [machine EXCEPT !.pc = "off", !.mounted = FALSE,
                                  !.bypass = FALSE, !.left = {}]
    /\ UNCHANGED <<shelf, ensure>>

Customer == \/ \E r \in DOMAIN shelf : InsertDisk(r)
            \/ AttachVolume \/ EnsureDataDisk \/ FormatDataDisk \/ EnsureKilled
            \/ MarkByHand \/ Wipe \/ RestartUnit
            \/ \E f \in Files : Work(f)
BootUnit == StartUnit \/ Check \/ Extract \/ MarkSeeded
BootNext == Customer \/ Boot \/ Mount \/ BootUnit \/ PowerOff
================================================================================
