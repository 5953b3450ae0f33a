--------------------------- MODULE ApplianceBuild ---------------------------
(****************************************************************************)
(* The supplier's host: staging manifests on a qemu cluster, prepare-export *)
(* and export, release after release (pkg/provision/qemu prepare_export.go, *)
(* data_seed.go, export.go; cmd/y-cluster/manifests.go).                    *)
(*                                                                          *)
(* A disk image is a record: what /data/yolean holds (a count of writes),   *)
(* the seed and the unit that gates k3s on it, the GatewayClasses with a    *)
(* dns-hint-ip, the Gateway objects (a count of edits), the manifests       *)
(* staged and the manifests k3s applies.  wanted is what the last manifests *)
(* command left of each, writes what the workloads wrote since provision.   *)
(****************************************************************************)
EXTENDS Naturals, FiniteSets

CONSTANTS
    None,           \* no file, no content
    Classes,        \* GatewayClasses that carry the hint after provision
    Manifests,      \* names of manifests
    Contents,       \* what a manifest may contain
    Half,           \* a manifest of which only a part came through
    Stagers,        \* the manifests commands that may run at the same time
    MaxRelease,     \* clusters the supplier builds, one after the other
    MaxWrites,      \* writes of the workloads to /data/yolean
    MaxEdits,       \* edits of Gateway objects
    MaxRuns,        \* prepare-exports of one cluster
    Formats,        \* subset of {"qcow2", "raw", "vmdk", "ova", "gcp-tar"}
    BuildFaults     \* subset of {"kill", "seed", "customize", "convert", "ssh"}

ASSUME BuildAssumption ==
    /\ IsFiniteSet(Classes)
    /\ Half \notin Contents \cup {None}
    /\ MaxRelease \in Nat /\ MaxWrites \in Nat /\ MaxEdits \in Nat /\ MaxRuns \in Nat

NoDir == 0              \* /data/yolean is not there; n + 1: it holds n writes
Empty == 1

VARIABLES
    release,    \* the cluster on the host: the release it is built for
    vm,         \* "up" | "off" | "gone": before the first provision
    disk,       \* the boot disk <name>.qcow2
    record,     \* <name>-gateway-state.json in the cache
    prep,       \* prepare-export in progress
    prepared,   \* prepare-export returned nil and the VM was not started since
    staging,    \* the manifests commands that have read what is staged
    bundle      \* the bundle directory

buildVars == <<release, vm, disk, record, prep, prepared, staging, bundle>>

\* seen: the edit the Gateways were read at; from: the one the run began at.
Idle == [pc |-> "idle", todo |-> {}, seed |-> NoDir, seen |-> 0, from |-> 0, runs |-> 0]
NoCommand == [verb |-> "none", name |-> None, data |-> None]
NoneStaging == [s \in Stagers |-> NoCommand]
NoManifests == [m \in Manifests |-> None]

NewDisk(r, api) ==
    [release |-> r, api |-> api, data |-> NoDir, seed |-> NoDir, unit |-> FALSE,
     hints |-> IF api THEN Classes ELSE {}, edits |-> 0,
     staged |-> NoManifests, live |-> NoManifests,
     wanted |-> NoManifests, writes |-> 0]

BuildInit ==
    /\ release = 0
    /\ vm = "gone"
    /\ disk = NewDisk(0, FALSE)
    /\ record = None
    /\ prep = Idle
    /\ prepared = FALSE
    /\ staging = NoneStaging
    /\ bundle = None

Customizing == prep.pc \in {"upload", "enable", "wipe", "move"}

Exporting(pc) == bundle # None /\ bundle.pc = pc

\* The apiserver answers: k3s requires the seed unit, which refuses to pass
\* without a volume at /data/yolean.
Answers == vm = "up" /\ ~disk.unit

At(pc) == prep.pc = pc
Step(pc) == prep' = [prep EXCEPT !.pc = pc]

--------------------------------------------------------------------------------
(* The build cluster *)

\* Provision, with the Gateway API or with gateway.skip.
Build(api) ==
    /\ vm = "gone" /\ bundle = None
    /\ release < MaxRelease
    /\ release' = release + 1
    /\ vm' = "up"
    /\ disk' = NewDisk(release + 1, api)
    /\ UNCHANGED <<record, prep, prepared, staging, bundle>>

\* Mutant: the record is not among the per-VM artefacts.
MutTeardownKeepsRecord ==
    /\ vm # "gone"
    /\ prep.pc = "idle" /\ staging = NoneStaging
    /\ bundle # None => bundle.pc \in {"done", "partial"}
    /\ vm' = "gone"
    /\ disk' = NewDisk(release, FALSE)
    /\ prep' = Idle
    /\ prepared' = FALSE
    /\ UNCHANGED <<release, record, staging, bundle>>

\* teardown removes the per-VM artefacts, the record among them.
TeardownBuild ==
    /\ vm # "gone"
    /\ prep.pc = "idle" /\ staging = NoneStaging
    /\ bundle # None => bundle.pc \in {"done", "partial"}
    /\ vm' = "gone"
    /\ disk' = NewDisk(release, FALSE)
    /\ record' = None
    /\ prep' = Idle
    /\ prepared' = FALSE
    /\ UNCHANGED <<release, staging, bundle>>

\* One lifecycle verb at a time.  A bundle that is there is only ever read, so
\* the operator may as well take it away before going on.
StartVM ==
    /\ vm = "off"
    /\ prep.pc = "idle" /\ bundle = None
    /\ vm' = "up"
    /\ prepared' = FALSE
    /\ UNCHANGED <<release, disk, record, prep, staging, bundle>>

StopVM ==
    /\ vm = "up"
    /\ prep.pc = "idle"
    /\ vm' = "off"
    /\ UNCHANGED <<release, disk, record, prep, prepared, staging, bundle>>

\* A workload writes to its volume; the provisioner creates the directory.
Write ==
    /\ Answers
    /\ disk.writes < MaxWrites
    /\ disk' = [disk EXCEPT !.data = IF @ = NoDir THEN Empty + 1 ELSE @ + 1,
                            !.writes = @ + 1]
    /\ UNCHANGED <<release, vm, record, prep, prepared, staging, bundle>>

EditGateway ==
    /\ Answers /\ disk.api
    /\ disk.edits < MaxEdits
    /\ disk' = [disk EXCEPT !.edits = @ + 1]
    /\ UNCHANGED <<release, vm, record, prep, prepared, staging, bundle>>

\* platform install applies the GatewayClass with its hint again.
InstallPlatform ==
    /\ Answers /\ disk.api
    /\ prep.pc = "idle"
    /\ disk' = [disk EXCEPT !.hints = Classes]
    /\ UNCHANGED <<release, vm, record, prep, prepared, staging, bundle>>

--------------------------------------------------------------------------------
(* manifests add, replace, rm *)

\* Mutant: a failed ssh reads as "absent".
MutAskFailsAbsent(m) == {disk.staged[m], None}

\* What the node says is staged; a failure to ask is an error, never "absent",
\* and ends the command.
readStagedManifest(m) == {disk.staged[m]}

\* add wants a name that is not staged, replace and rm one that is.  The same
\* content again changes nothing.
Stages(v, saw, c) == (saw = None) = (v = "add") /\ saw # c

ReadStaged(s, v, m, c) ==
    /\ vm = "up"
    /\ staging[s] = NoCommand
    /\ \E saw \in readStagedManifest(m) :
         /\ Stages(v, saw, c)
         /\ staging' = [staging EXCEPT ![s] = [verb |-> v, name |-> m, data |-> c]]
    /\ UNCHANGED <<release, vm, disk, record, prep, prepared, bundle>>

\* The connection may break, the command be killed, or another one write to the
\* same temporary name.
Breaks(s) ==
    \/ {"ssh", "kill"} \cap BuildFaults # {}
    \/ \E other \in Stagers \ {s} : staging[other].name = staging[s].name

\* cat > tmp && mv: when the input ends early cat is content, and what has come
\* through is renamed into place.
Lands(s) == {staging[s].data}
            \cup (IF Breaks(s) /\ staging[s].data # None THEN {Half} ELSE {})

Holding(m, c) == [disk EXCEPT !.staged[m] = c,
                              !.wanted[m] = IF c = None THEN disk.live[m] ELSE c]

WriteStaged(s) ==
    /\ staging[s] # NoCommand
    /\ \/ vm = "up" /\ \E c \in Lands(s) : disk' = Holding(staging[s].name, c)
       \/ (vm # "up" \/ Breaks(s)) /\ UNCHANGED disk
    /\ staging' = [staging EXCEPT ![s] = NoCommand]
    /\ UNCHANGED <<release, vm, record, prep, prepared, bundle>>

--------------------------------------------------------------------------------
(* prepare-export *)

\* The preflight: a running VM with a disk.
Begin ==
    /\ prep.pc = "idle" /\ vm = "up"
    /\ prep.runs < MaxRuns
    /\ prep' = [Idle EXCEPT !.pc = "list", !.runs = prep.runs + 1,
                              !.from = disk.edits]
    /\ prepared' = FALSE
    /\ UNCHANGED <<release, vm, disk, record, staging, bundle>>

Ends == prep' = [Idle EXCEPT !.runs = prep.runs, !.from = prep.from]

\* ClearDNSHintIPAnnotations lists the classes that carry the hint; without a
\* Gateway API there is nothing to clear and nothing to record.
ListHints ==
    /\ At("list")
    /\ IF ~Answers THEN Ends
       ELSE IF ~disk.api THEN Step("stop")
       ELSE prep' = [prep EXCEPT !.pc = "patch", !.todo = disk.hints]
    /\ UNCHANGED <<release, vm, disk, record, prepared, staging, bundle>>

\* One JSON patch per class; removing what is not there is an error.
PatchHint ==
    /\ At("patch")
    /\ \E c \in prep.todo :
         IF Answers /\ c \in disk.hints
         THEN /\ disk' = [disk EXCEPT !.hints = @ \ {c}]
              /\ prep' = [prep EXCEPT !.todo = @ \ {c}]
         ELSE Ends /\ UNCHANGED disk
    /\ UNCHANGED <<release, vm, record, prepared, staging, bundle>>

\* gateway.Fetch: classes and Gateways first, routes and policies later.
FetchGateways ==
    /\ At("patch") /\ prep.todo = {}
    /\ IF Answers THEN prep' = [prep EXCEPT !.pc = "fetch", !.seen = disk.edits]
                  ELSE Ends
    /\ UNCHANGED <<release, vm, disk, record, prepared, staging, bundle>>

FetchRoutes ==
    /\ At("fetch")
    /\ IF Answers
       THEN /\ record' = [release |-> disk.release, hints |-> disk.hints,
                          gateways |-> prep.seen, routes |-> disk.edits]
            /\ Step("stop")
       ELSE Ends /\ UNCHANGED record
    /\ UNCHANGED <<release, vm, disk, prepared, staging, bundle>>

\* Stop: the offline phase needs the image.
StopForOffline ==
    /\ At("stop")
    /\ vm' = "off"
    /\ Step("seed")
    /\ UNCHANGED <<release, disk, record, prepared, staging, bundle>>

\* BuildSeedAssets: no /data/yolean means no seed and no unit, any other
\* failure to read it ends the command.
BuildSeed ==
    /\ At("seed")
    /\ prep' = [prep EXCEPT !.pc = IF disk.data = NoDir THEN "wipe" ELSE "upload",
                            !.seed = disk.data]
    /\ UNCHANGED <<release, vm, disk, record, prepared, staging, bundle>>

SeedFails ==
    /\ At("seed")
    /\ "seed" \in BuildFaults
    /\ Ends
    /\ UNCHANGED <<release, vm, disk, record, prepared, staging, bundle>>

\* Mutant: a seed that is on the disk already is left alone.
MutUploadOnce ==
    /\ At("upload")
    /\ disk' = [disk EXCEPT !.seed = IF @ = NoDir THEN prep.seed ELSE @]
    /\ Step("enable")
    /\ UNCHANGED <<release, vm, record, prepared, staging, bundle>>

\* virt-customize, flag by flag: the seed and its metadata, the unit, then
\* prepare_inguest.sh.
Upload ==
    /\ At("upload")
    /\ disk' = [disk EXCEPT !.seed = prep.seed]
    /\ Step("enable")
    /\ UNCHANGED <<release, vm, record, prepared, staging, bundle>>

EnableUnit ==
    /\ At("enable")
    /\ disk' = [disk EXCEPT !.unit = TRUE]
    /\ Step("wipe")
    /\ UNCHANGED <<release, vm, record, prepared, staging, bundle>>

WipeData ==
    /\ At("wipe")
    /\ disk' = [disk EXCEPT !.data = Empty]
    /\ Step("move")
    /\ UNCHANGED <<release, vm, record, prepared, staging, bundle>>

\* Mutant: mv -n.
MutMoveNoClobber ==
    /\ At("move")
    /\ disk' = [disk EXCEPT !.live = [m \in Manifests |->
                                         IF @[m] = None THEN disk.staged[m] ELSE @[m]],
                            !.staged = [m \in Manifests |->
                                         IF disk.live[m] = None THEN None ELSE @[m]]]
    /\ Ends
    /\ prepared' = TRUE
    /\ UNCHANGED <<release, vm, record, staging, bundle>>

MoveManifests ==
    /\ At("move")
    /\ disk' = [disk EXCEPT !.staged = NoManifests,
                  !.live = [m \in Manifests |->
                              IF disk.staged[m] = None THEN @[m] ELSE disk.staged[m]]]
    /\ Ends
    /\ prepared' = TRUE
    /\ UNCHANGED <<release, vm, record, staging, bundle>>

\* prepare-export is killed, or virt-customize fails, between two steps.
PrepareEnds ==
    /\ prep.pc # "idle"
    /\ "kill" \in BuildFaults \/ (Customizing /\ "customize" \in BuildFaults)
    /\ Ends
    /\ UNCHANGED <<release, vm, disk, record, prepared, staging, bundle>>

--------------------------------------------------------------------------------
(* export *)

\* Refuses a running VM and a directory that is not empty.
ExportBegins ==
    /\ vm = "off" /\ ~Customizing
    /\ bundle = None
    /\ bundle' = [pc |-> "convert", disk |-> None, record |-> None, prepared |-> FALSE]
    /\ UNCHANGED <<release, vm, disk, record, prep, prepared, staging>>

\* An .ova and a .tar.gz are packed from a conversion in a temporary directory
\* beside them.
Packs(f) == f \in {"ova", "gcp-tar"}

ConvertDisk(f) ==
    /\ Exporting("convert")
    /\ bundle' = [bundle EXCEPT !.pc = IF Packs(f) THEN f ELSE "keys",
                                !.disk = disk, !.prepared = prepared]
    /\ UNCHANGED <<release, vm, disk, record, prep, prepared, staging>>

Packed(f) ==
    /\ Exporting(f)
    /\ bundle' = [bundle EXCEPT !.pc = "keys"]
    /\ UNCHANGED <<release, vm, disk, record, prep, prepared, staging>>

writeOVA    == Packed("ova")
writeGCPTar == Packed("gcp-tar")

\* The keypair, then the record of prepare-export if there is one, then the
\* README.
CopyFiles ==
    /\ Exporting("keys")
    /\ bundle' = [bundle EXCEPT !.pc = "done", !.record = record]
    /\ UNCHANGED <<release, vm, disk, record, prep, prepared, staging>>

\* A temporary directory goes when the conversion into it fails, and stays when
\* the command is killed; anything left keeps the next export from writing.
ExportFails ==
    /\ bundle # None /\ bundle.pc \notin {"done", "partial"}
    /\ \/ /\ "convert" \in BuildFaults
          /\ \E f \in Formats :
               bundle' = IF Exporting("convert") /\ Packs(f) THEN None
                         ELSE [bundle EXCEPT !.pc = "partial"]
       \/ /\ "kill" \in BuildFaults
          /\ bundle' = [bundle EXCEPT !.pc = "partial"]
    /\ UNCHANGED <<release, vm, disk, record, prep, prepared, staging>>

\* The operator removes the directory.
RemoveBundle ==
    /\ bundle # None /\ bundle.pc \in {"done", "partial"}
    /\ bundle' = None
    /\ UNCHANGED <<release, vm, disk, record, prep, prepared, staging>>

Cluster == \/ \E api \in BOOLEAN : Build(api)
           \/ TeardownBuild
           \/ StartVM \/ StopVM \/ Write \/ EditGateway \/ InstallPlatform
Stage == \E s \in Stagers :
            \/ \E m \in Manifests :
                 \/ \E v \in {"add", "replace"}, c \in Contents : ReadStaged(s, v, m, c)
                 \/ ReadStaged(s, "rm", m, None)
            \/ WriteStaged(s)
Prepare == \/ Begin \/ ListHints \/ PatchHint \/ FetchGateways \/ FetchRoutes
           \/ StopForOffline \/ BuildSeed \/ SeedFails \/ Upload \/ EnableUnit
           \/ WipeData \/ MoveManifests \/ PrepareEnds
Export == \/ ExportBegins
          \/ \E f \in Formats : ConvertDisk(f)
          \/ writeOVA \/ writeGCPTar \/ CopyFiles
          \/ ExportFails \/ RemoveBundle

BuildNext == Cluster \/ Stage \/ Prepare \/ Export
================================================================================
