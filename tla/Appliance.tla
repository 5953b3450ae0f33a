------------------------------ MODULE Appliance ------------------------------
(****************************************************************************)
(* An appliance from the supplier's build cluster to the customer's volume: *)
(* ApplianceBuild and ApplianceBoot, which share only the bundles.          *)
(****************************************************************************)
EXTENDS ApplianceBuild, ApplianceBoot, Sequences

vars == <<buildVars, bootVars>>

\* Of a disk image, what the customer's machine can tell.
ImageOf(d) ==
    [release |-> d.release, seed |-> d.seed # NoDir, seeded |-> d.seed \notin {NoDir, Empty},
     unit |-> d.unit, data |-> d.data \notin {NoDir, Empty}]

\* The finished bundle goes to the customer and the build cluster goes away.
Deliver ==
    /\ bundle # None /\ bundle.pc = "done"
    /\ vm = "gone"
    /\ shelf' = Append(shelf, ImageOf(bundle.disk))
    /\ bundle' = None
    /\ UNCHANGED <<release, vm, disk, record, prep, prepared, staging, machine, dir, volume, ensure>>

Init == BuildInit /\ BootInit

\* Nothing the customer does reaches the supplier: the customer may as well
\* wait for every release.
AllBuilt == vm = "gone" /\ release = MaxRelease /\ bundle = None

Next ==
    \/ BuildNext /\ UNCHANGED bootVars
    \/ Deliver
    \/ AllBuilt /\ BootNext /\ UNCHANGED buildVars

Spec == Init /\ [][Next]_vars

\* systemd runs the unit it has started; nothing else is bound to happen.
FairSpec == Spec /\ WF_vars(AllBuilt /\ BootUnit /\ UNCHANGED buildVars)

--------------------------------------------------------------------------------
(* Properties *)

Manifest == [Manifests -> Contents \cup {None, Half}]

Disk == [release : 0..MaxRelease, api : BOOLEAN, data : 0..MaxWrites + 1,
         seed : 0..MaxWrites + 1, unit : BOOLEAN, hints : SUBSET Classes,
         edits : 0..MaxEdits, staged : Manifest, live : Manifest,
         wanted : Manifest, writes : 0..MaxWrites]

\* What <name>-gateway-state.json holds: the edits its two reads were made at.
Record == [release : 1..MaxRelease, hints : SUBSET Classes,
           gateways : 0..MaxEdits, routes : 0..MaxEdits]

Preparation == [pc : {"idle", "list", "patch", "fetch", "stop", "seed", "upload",
                      "enable", "wipe", "move"},
                todo : SUBSET Classes, seed : 0..MaxWrites + 1,
                seen : 0..MaxEdits, from : 0..MaxEdits, runs : 0..MaxRuns]

Command == [verb : {"add", "replace", "rm"}, name : Manifests, data : Contents \cup {None}]

Bundle == [pc : {"convert", "keys", "done", "partial"} \cup (Formats \cap {"ova", "gcp-tar"}),
           disk : Disk \cup {None}, record : Record \cup {None}, prepared : BOOLEAN]

ASSUME RecordAssumption == None \notin Record

Origin == {Nothing, Torn} \cup 0..MaxRelease

Place == [files : [Files -> Origin],
          marker : {Nothing} \cup 0..MaxRelease, label : BOOLEAN]

ASSUME PlaceAssumption == Nothing \notin Place

BuildTypes ==
    /\ release \in 0..MaxRelease /\ vm \in {"up", "off", "gone"}
    /\ disk \in Disk
    /\ record \in Record \cup {None}
    /\ prep \in Preparation
    /\ prepared \in BOOLEAN
    /\ staging \in [Stagers -> Command \cup {NoCommand}]
    /\ bundle \in Bundle \cup {None}

\* Every image, bundle and volume is one the code can make: data_seed.go,
\* export.go and data_seed_check.sh write nothing else.
TypeOK ==
    /\ BuildTypes
    /\ machine.pc \in {"off", "unit", "check", "extract", "failed", "up"}
    /\ machine.pc = "extract" => machine.left \subseteq Files
    /\ dir \in Place /\ (volume = Nothing \/ volume \in Place)

Shipped == bundle # None /\ bundle.pc = "done" /\ bundle.prepared

Clean(d) == /\ d.hints = {}
            /\ d.data = Empty
            /\ d.staged = NoManifests
            /\ d.live = d.wanted

SeedWhole(d) == IF d.seed = NoDir THEN d.writes = 0 /\ ~d.unit
                                  ELSE d.unit /\ d.seed = Empty + d.writes

\* What a prepared bundle carries: no dns-hint-ip of the build host, no build
\* data beside the seed, and every manifest as the last command left it, where
\* k3s applies it -- also when earlier prepare-exports of the same cluster
\* failed half way or were followed by more work (prepare_export.go,
\* prepare_inguest.sh).  A command that was cut off may have left half of one.
ShippedClean == Shipped => Clean(bundle.disk)

\* The seed of a prepared bundle is everything the workloads wrote until the
\* stop, never what an earlier prepare-export uploaded, and it is gated; only a
\* cluster that never wrote ships without (data_seed.go, BuildSeedAssets:
\* "a snapshot that is missing or partial must not ship").
SeedIsData == Shipped => SeedWhole(bundle.disk)

\* The record beside a prepared disk is of this cluster, without hints, and
\* taken during the prepare-export that succeeded (qemu.go, perVMArtefacts:
\* "a stale dump from a prior export doesn't ship in the next bundle").
RecordCurrent ==
    /\ prepared /\ disk.api =>
         /\ record # None
         /\ record.release = release /\ record.hints = {}
         /\ prep.from <= record.gateways
         /\ record.gateways <= record.routes /\ record.routes <= disk.edits
    /\ Shipped /\ bundle.record # None => bundle.record.release = bundle.disk.release

\* Of commands given one at a time, add never writes over a different manifest:
\* one it could not see because the connection failed, or that prepare-export
\* moved in between (manifests.go, readStagedManifest: "A transport failure must
\* never read as absent").
StagingStrict ==
    [][\A m \in Manifests :
         /\ disk.staged[m] # None
         /\ disk'.staged[m] \notin {None, disk.staged[m]}
         => \E s \in Stagers : staging[s].verb = "replace" /\ staging[s].name = m]_vars

\* On the customer's volume nothing of theirs is ever written over: seeding,
\* upgrade, rollback, and a boot that was cut off at any point
\* (APPLIANCE_MAINTENANCE.md, "Never overwrites actual data").
CustomerDataKept ==
    [][\A f \in Files : volume # Nothing /\ volume.files[f] = Theirs
                          => volume'.files[f] = Theirs]_vars

\* k3s of a gated appliance runs on a whole volume: everything from the seed of
\* one release, or already the customer's (data_seed_check.sh, marker last).
RunsOnWholeData ==
    machine.pc = "up" /\ machine.image.unit /\ machine.image.seed =>
      /\ Here.marker # Nothing
      /\ \A f \in Files :
           \/ Here.files[f] \in {Theirs, Here.marker}
           \/ Here.files[f] = Nothing /\ \E r \in DOMAIN shelf :
                shelf[r].release = Here.marker /\ ~shelf[r].seeded

\* The unit always comes to an end: k3s starts, or the journal says why not.
BootSettles == machine.pc \in {"unit", "check", "extract"}
                 ~> machine.pc \in {"up", "failed", "off"}

--------------------------------------------------------------------------------
(* The volume as DataVolume has it; a file cut off is not there yet. *)

Gated == machine.image # Nothing /\ machine.image.unit /\ machine.image.seed

Content == [f \in Files |-> IF volume = Nothing THEN Nothing
                            ELSE IF volume.files[f] = Torn THEN Nothing
                            ELSE volume.files[f]]
Sealed  == volume # Nothing /\ volume.marker # Nothing
Serving == machine.pc = "up" /\ machine.mounted /\ Gated

Promise == INSTANCE DataVolume WITH
    Releases <- 1..MaxRelease, Own <- Theirs,
    content <- Content, sealed <- Sealed, serving <- Serving

\* The unit, the recipes of its conflict message, ensureDataDisk and whatever
\* boots and power losses come between keep the promise about the volume: no
\* seed is unpacked onto a volume that is marked, or has anything on it from
\* elsewhere, no half of one is ever marked, and k3s starts on marked volumes
\* only (data_seed_check.sh; APPLIANCE_MAINTENANCE.md).
KeepsPromise == Promise!Spec

--------------------------------------------------------------------------------
(* The inductive invariant of the proofs, by part. *)

Image == [release : 1..MaxRelease, seed : BOOLEAN, seeded : BOOLEAN,
          unit : BOOLEAN, data : BOOLEAN]

Points == {"off", "unit", "check", "extract", "failed", "up"}

Machine == [pc : Points,
            image : {Nothing} \cup Image, damaged : BOOLEAN, first : BOOLEAN,
            mounted : BOOLEAN, bypass : BOOLEAN, left : SUBSET Files]

\* Every bundle, and so every image delivered, is of a cluster that was built.
SupplyInv ==
    /\ release \in 0..MaxRelease
    /\ {"release", "unit"} \subseteq DOMAIN disk
    /\ disk.unit \in BOOLEAN /\ disk.release \in 0..MaxRelease
    /\ vm # "gone" => disk.release \in 1..MaxRelease
    /\ "pc" \in DOMAIN prep
    /\ prep.pc # "idle" => vm # "gone"
    /\ bundle # None =>
         /\ {"pc", "disk"} \subseteq DOMAIN bundle
         /\ bundle.pc \notin {"done", "partial"} => vm # "gone"
         /\ bundle.pc \notin {"convert", "partial"} => ImageOf(bundle.disk) \in Image

BootTypes ==
    /\ shelf \in Seq(Image)
    /\ machine \in Machine
    /\ dir \in Place /\ volume \in {Nothing} \cup Place
    /\ ensure \in BOOLEAN

\* What is mounted, and how it came to be, at each point of a boot.
BootOrder ==
    /\ machine.image # Nothing => \E r \in DOMAIN shelf : machine.image = shelf[r]
    /\ Powered => machine.image # Nothing
    /\ ~Powered => ~machine.mounted /\ ~machine.bypass
    /\ machine.mounted => Labelled
    /\ machine.bypass => volume = Nothing
    /\ ensure => ~Powered /\ volume = [Fresh EXCEPT !.label = FALSE]

\* Past the unit, and while it unpacks, a gated machine stays where it is.
GateHolds ==
    /\ machine.pc = "extract" \/ (machine.pc = "up" /\ Gated)
         => machine.mounted \/ machine.bypass
    /\ machine.pc = "up" /\ Gated => Here.marker # Nothing

\* An unpacking began on an empty place and is where left says.
Unpacking ==
    machine.pc = "extract" =>
      /\ Here.marker = Nothing
      /\ IF machine.image.seeded
         THEN \A f \in Files : Here.files[f] = IF f \in machine.left THEN Nothing
                                                ELSE machine.image.release
         ELSE machine.left = {} /\ IsEmpty(Here)

\* What has a marker is whole, or the customer's.
MarkedWhole(p) ==
    p.marker # Nothing =>
      \A f \in Files :
         \/ p.files[f] \in {Theirs, p.marker}
         \/ p.files[f] = Nothing /\ \E r \in DOMAIN shelf :
              shelf[r].release = p.marker /\ ~shelf[r].seeded

MarkersTrue == MarkedWhole(dir) /\ (volume # Nothing => MarkedWhole(volume))

\* At every step of every boot the place k3s will run on is known: mounted or
\* bypassed for good, unmarked until it is whole, and whole or the customer's
\* once it is marked (data_seed_check.sh).
VolumeInv ==
    SupplyInv /\ BootTypes /\ BootOrder /\ GateHolds /\ Unpacking /\ MarkersTrue

\* The supplier's side.  A prepare-export is in its online half with the VM up,
\* in its offline half with the VM off, and what it prepared is off and idle.
PrepareOrder ==
    /\ disk.release = release /\ (vm # "gone" => release # 0)
    /\ prep.pc \in {"list", "patch", "fetch", "stop"} => vm = "up"
    /\ prep.pc = "seed" \/ Customizing => vm = "off"
    /\ prepared => vm = "off" /\ prep.pc = "idle"
    /\ bundle # None => \/ vm # "gone" \/ bundle.pc \in {"done", "partial"}

\* manifests.go takes no lock: that commands do not meet, nor what one that was
\* killed left running on the node, is up to the operator.
OneAtATime == \A s, other \in Stagers : s = other

\* What a command read is still so when it writes: a prepare-export in between
\* only ever empties the staging directory.
StagedAsRead ==
    OneAtATime =>
       \A s \in Stagers :
          /\ staging[s].verb = "add" => disk.staged[staging[s].name] = None
          /\ staging[s].verb = "rm" => staging[s].data = None

\* What the last command left is staged, or else it is live; of what was
\* prepared it is live.
WantedKept ==
    /\ \A m \in Manifests :
         disk.wanted[m] = IF disk.staged[m] = None THEN disk.live[m] ELSE disk.staged[m]
    /\ prepared => disk.staged = NoManifests

\* No class gets its hint back between the listing and the end.
HintsCleared ==
    /\ ~disk.api => disk.hints = {}
    /\ prep.pc = "patch" => disk.hints \subseteq prep.todo
    /\ prep.pc \in {"fetch", "stop", "seed"} \/ Customizing \/ prepared => disk.hints = {}

\* Nothing is written once the unit is in, so the seed it gates stays whole; a
\* seed without the unit is of an upload that went no further.
SeedKept ==
    /\ disk.data <= Empty + disk.writes
    /\ IF disk.unit THEN disk.seed = Empty + disk.writes
       ELSE /\ disk.data = NoDir => disk.writes = 0 /\ disk.seed = NoDir
            /\ disk.data # NoDir => disk.data = Empty + disk.writes
    /\ prep.pc \in {"patch", "fetch", "stop", "seed", "upload", "enable"} => ~disk.unit
    /\ prep.pc \in {"upload", "enable"} => prep.seed = disk.data /\ disk.data # NoDir
    /\ prep.pc = "enable" => disk.seed = prep.seed
    /\ prep.pc \in {"wipe", "move"} \/ prepared => SeedWhole(disk)
    /\ prep.pc = "wipe" /\ ~disk.unit => disk.data = NoDir
    /\ prep.pc = "move" \/ prepared => disk.data = Empty

\* The two reads of the Gateway state are of this run and of this cluster.
Recorded == /\ record # None
            /\ record.hints = {}
            /\ prep.from <= record.gateways
            /\ record.gateways <= record.routes /\ record.routes <= disk.edits

RecordOfRun ==
    /\ vm = "gone" => record = None
    /\ record # None => record.release = release
    /\ prep.pc # "idle" => prep.from <= disk.edits
    /\ prep.pc = "fetch" => disk.api /\ prep.from <= prep.seen /\ prep.seen <= disk.edits
    /\ prep.pc = "patch" => disk.api
    /\ disk.api /\ (prep.pc \in {"stop", "seed"} \/ Customizing \/ prepared) => Recorded

\* Once it is converted, the bundle has the disk as it was prepared, beside the
\* record of the same cluster.
BundleTrue ==
    bundle # None /\ bundle.pc \notin {"convert", "partial"} =>
      /\ bundle.disk \in Disk
      /\ bundle.prepared => Clean(bundle.disk) /\ SeedWhole(bundle.disk)
      /\ bundle.pc # "done" => bundle.disk.release = release
      /\ bundle.pc = "done" /\ bundle.record # None
           => bundle.record.release = bundle.disk.release

\* At every step of every prepare-export, however it ends: the disk is as the
\* steps so far have it, and a second run makes good what the first left undone
\* (prepare_export.go, data_seed.go, export.go).
BuildInv ==
    PrepareOrder /\ StagedAsRead /\ WantedKept /\ HintsCleared /\ SeedKept
    /\ RecordOfRun /\ BundleTrue
================================================================================
