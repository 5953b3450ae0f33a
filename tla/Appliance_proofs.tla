--------------------------- MODULE Appliance_proofs ---------------------------
(****************************************************************************)
(* Proofs about Appliance, for any number of releases, files, classes,      *)
(* manifests and contents, however often a prepare-export is repeated,      *)
(* wherever it is cut off and whatever fails.                               *)
(*                                                                          *)
(* The customer's machine and the data volume:                              *)
(*                                                                          *)
(*   VolumeIsAccounted     VolumeInv, the inductive invariant of this side  *)
(*   K3sRunsOnWholeData    RunsOnWholeData                                  *)
(*   CustomerDataIsKept    CustomerDataKept                                 *)
(*   VolumeKeepsPromise    Spec implements DataVolume                       *)
(*                                                                          *)
(* The supplier's side:                                                     *)
(*                                                                          *)
(*   TypeCorrect           TypeOK                                           *)
(*   SupplyIsAccounted     BuildInv, the inductive invariant of this side   *)
(*   ShipsClean            ShippedClean                                     *)
(*   ShipsTheData          SeedIsData                                       *)
(*   RecordIsOfThisRun     RecordCurrent                                    *)
(*   StagesOnce            StagingStrict                                    *)
(*                                                                          *)
(* Of the supplier's side the customer's needs SupplyInv only. Each part of *)
(* VolumeInv and of BuildInv has a lemma, with one step per action.         *)
(****************************************************************************)
EXTENDS Appliance, TLAPS

\* The supplier's side: a cluster that is there was built, and exports itself.
LEMMA SupplyStep == SupplyInv /\ [Next]_vars => SupplyInv'
<1> SUFFICES ASSUME SupplyInv, [Next]_vars PROVE SupplyInv'
  OBVIOUS
<1> USE BuildAssumption DEF SupplyInv
<1>1. ASSUME NEW api \in BOOLEAN, Build(api) PROVE SupplyInv'
  BY <1>1 DEF Build, NewDisk
<1>2. CASE TeardownBuild
  BY <1>2 DEF TeardownBuild, NewDisk, Idle
<1>3. CASE StartVM \/ StopVM
  BY <1>3 DEF StartVM, StopVM
<1>4. CASE Write \/ EditGateway \/ InstallPlatform
  BY <1>4 DEF Write, EditGateway, InstallPlatform, Answers
<1>5. ASSUME NEW s \in Stagers, NEW v, NEW m, NEW c, ReadStaged(s, v, m, c) PROVE SupplyInv'
  BY <1>5 DEF ReadStaged
<1>6. ASSUME NEW s \in Stagers, WriteStaged(s) PROVE SupplyInv'
  BY <1>6 DEF WriteStaged, Holding
<1>7. CASE Begin \/ SeedFails \/ PrepareEnds
  BY <1>7 DEF Begin, SeedFails, PrepareEnds, Ends, Idle
<1>8. CASE ListHints \/ PatchHint \/ FetchGateways \/ FetchRoutes \/ BuildSeed
  BY <1>8 DEF ListHints, PatchHint, FetchGateways, FetchRoutes, BuildSeed, At, Step, Ends,
              Idle
<1>9. CASE StopForOffline
  BY <1>9 DEF StopForOffline, At, Step
<1>10. CASE Upload \/ EnableUnit \/ WipeData \/ MoveManifests
  BY <1>10 DEF Upload, EnableUnit, WipeData, MoveManifests, At, Step, Ends, Idle
<1>11. CASE ExportBegins
  BY <1>11 DEF ExportBegins
<1>12. ASSUME NEW f \in Formats, ConvertDisk(f) PROVE SupplyInv'
  BY <1>12 DEF ConvertDisk, Exporting, ImageOf, Image
<1>13. CASE writeOVA \/ writeGCPTar
  BY <1>13 DEF writeOVA, writeGCPTar, Packed, Exporting
<1>14. CASE CopyFiles
  BY <1>14 DEF CopyFiles, Exporting
<1>15. CASE ExportFails
  BY <1>15 DEF ExportFails
<1>16. CASE RemoveBundle \/ Deliver
  BY <1>16 DEF RemoveBundle, Deliver
<1>17. CASE UNCHANGED buildVars
  BY <1>17 DEF buildVars
<1> QED
  BY <1>1, <1>2, <1>3, <1>4, <1>5, <1>6, <1>7, <1>8, <1>9, <1>10, <1>11, <1>12, <1>13,
     <1>14, <1>15, <1>16, <1>17
     DEF Next, BuildNext, Cluster, Stage, Prepare, Export, vars

--------------------------------------------------------------------------------
(* The customer's side: types. *)

LEMMA MachineGoto ==
    ASSUME machine \in Machine, NEW l \in Points, NEW left \in SUBSET Files,
           machine' = [machine EXCEPT !.pc = l, !.left = left] PROVE machine' \in Machine
  BY DEF Machine

LEMMA MachinePc ==
    ASSUME machine \in Machine, NEW l \in Points, Goto(l) PROVE machine' \in Machine
  BY DEF Machine, Goto

LEMMA FreshPlace == Fresh \in Place
  BY DEF Place, Origin, Fresh

LEMMA PlaceFile ==
    ASSUME NEW p \in Place, NEW f \in Files, NEW v \in Origin
    PROVE  [p EXCEPT !.files[f] = v] \in Place
  BY DEF Place

LEMMA PlaceMark ==
    ASSUME NEW p \in Place, NEW v \in {Nothing} \cup 0..MaxRelease
    PROVE  [p EXCEPT !.marker = v] \in Place
  BY DEF Place

LEMMA HerePlace == BootTypes /\ BootOrder => Here \in Place
  BY DEF BootTypes, BootOrder, Here, Labelled

LEMMA SetHerePlace ==
    ASSUME BootTypes, NEW h \in Place, SetHere(h)
    PROVE  dir' \in Place /\ volume' \in {Nothing} \cup Place
  BY DEF BootTypes, SetHere

LEMMA Numbers == Theirs \in 0..MaxRelease /\ 1..MaxRelease \subseteq 0..MaxRelease
  BY BuildAssumption DEF Theirs

LEMMA Delivered ==
    ASSUME BootTypes, NEW r \in DOMAIN shelf
    PROVE  shelf[r] \in Image /\ shelf[r].release \in 1..MaxRelease
<1>1. shelf[r] \in Image
  BY DEF BootTypes
<1> QED
  BY <1>1 DEF Image

\* A powered machine has one of the images delivered.
LEMMA PoweredImage ==
    ASSUME BootTypes, BootOrder, Powered
    PROVE  machine.image \in Image /\ machine.image.release \in 1..MaxRelease
<1>1. PICK r \in DOMAIN shelf : machine.image = shelf[r]
  BY DEF BootOrder
<1> QED
  BY <1>1, Delivered

\* One step per action, here and in the lemmas of the other parts.
LEMMA TypesStep == SupplyInv /\ BootTypes /\ BootOrder /\ [Next]_vars => BootTypes'
<1> SUFFICES ASSUME SupplyInv, BootTypes, BootOrder, [Next]_vars PROVE BootTypes'
  OBVIOUS
<1>1. ASSUME NEW r \in DOMAIN shelf, InsertDisk(r) PROVE BootTypes'
  <2>1. shelf[r] \in Image /\ shelf[r].release \in Origin
    BY <1>1, Delivered, Numbers DEF Origin
  <2>2. dir' \in Place
    <3>1. [Fresh EXCEPT !.files = [f \in Files |-> shelf[r].release]] \in Place
      BY <2>1 DEF Fresh, Place
    <3> QED
      BY <1>1, <3>1, FreshPlace DEF InsertDisk
  <2>3. machine' \in Machine
    <3>1. PICK d \in BOOLEAN : machine' = [NoMachine EXCEPT !.image = shelf[r], !.damaged = d]
      BY <1>1 DEF InsertDisk
    <3> QED
      BY <2>1, <3>1 DEF NoMachine, Machine, Points
  <2> QED
    BY <1>1, <2>2, <2>3 DEF InsertDisk, BootTypes
<1>2. CASE AttachVolume
  <2>1. [Fresh EXCEPT !.files = [f \in Files |-> Theirs]] \in Place
    BY Numbers DEF Fresh, Place, Origin
  <2> QED
    BY <1>2, <2>1, FreshPlace DEF AttachVolume, BootTypes
<1>3. CASE EnsureDataDisk
  <2>1. [Fresh EXCEPT !.label = FALSE] \in Place
    BY FreshPlace DEF Place
  <2> QED
    BY <1>3, <2>1 DEF EnsureDataDisk, BootTypes
<1>4. CASE FormatDataDisk
  BY <1>4, FreshPlace DEF FormatDataDisk, BootTypes
<1>5. CASE EnsureKilled
  BY <1>5 DEF EnsureKilled, BootTypes
<1>6. CASE MarkByHand
  <2>1. [Here EXCEPT !.marker = Theirs] \in Place
    BY HerePlace, PlaceMark, Numbers
  <2> QED
    BY <1>6, <2>1, SetHerePlace DEF MarkByHand, BootTypes
<1>7. CASE Wipe
  BY <1>7, FreshPlace, SetHerePlace DEF Wipe, BootTypes
<1>8. CASE RestartUnit
  BY <1>8, MachinePc DEF RestartUnit, BootTypes, Points
<1>9. ASSUME NEW f \in Files, Work(f) PROVE BootTypes'
  <2>1. [Here EXCEPT !.files[f] = Theirs] \in Place
    BY HerePlace, PlaceFile, Numbers DEF Origin
  <2> QED
    BY <1>9, <2>1, SetHerePlace DEF Work, BootTypes
<1>10. CASE Boot
  <2>1. machine' \in Machine
    BY <1>10 DEF Boot, BootTypes, Machine, Points, Labelled, Place
  <2> QED
    BY <1>10, <2>1 DEF Boot, BootTypes
<1>11. CASE Mount
  <2>1. machine' \in Machine
    BY <1>11 DEF Mount, BootTypes, Machine
  <2> QED
    BY <1>11, <2>1 DEF Mount, BootTypes
<1>12. CASE StartUnit
  BY <1>12, MachinePc DEF StartUnit, BootTypes, Points
<1>13. CASE Check
  <2>1. Members(machine.image) \in SUBSET Files
    BY DEF Members
  <2>2. Decision(Here) \in Points
    BY DEF Decision, Points
  <2>3. \E l \in Points, left \in SUBSET Files :
            machine' = [machine EXCEPT !.pc = l, !.left = left]
    BY <1>13, <2>1, <2>2 DEF Check, Points
  <2> QED
    BY <1>13, <2>3, MachineGoto DEF Check, BootTypes
<1>14. CASE Extract
  <2>1. PICK f \in machine.left :
           /\ SetHere([Here EXCEPT !.files[f] = machine.image.release])
           /\ machine' = [machine EXCEPT !.left = @ \ {f}]
    BY <1>14 DEF Extract, SetHere
  <2>2. f \in Files /\ machine' \in Machine
    <3>1. machine \in Machine
      BY DEF BootTypes
    <3> QED
      BY <2>1, <3>1 DEF Machine
  <2>3. [Here EXCEPT !.files[f] = machine.image.release] \in Place
    BY <1>14, <2>2, HerePlace, PlaceFile, PoweredImage, Numbers DEF Extract, Powered,
     Origin
  <2> QED
    BY <1>14, <2>1, <2>2, <2>3, SetHerePlace DEF Extract, BootTypes
<1>15. CASE MarkSeeded
  <2>1. [Here EXCEPT !.marker = machine.image.release] \in Place
    BY <1>15, HerePlace, PlaceMark, PoweredImage, Numbers DEF MarkSeeded, Powered
  <2> QED
    BY <1>15, <2>1, MachinePc, SetHerePlace DEF MarkSeeded, BootTypes, Points
<1>16. CASE PowerOff
  <2>1. machine' \in Machine
    BY <1>16 DEF PowerOff, BootTypes, Machine, Points
  <2>2. ASSUME NEW f \in machine.left PROVE [Here EXCEPT !.files[f] = Torn] \in Place
    BY <2>2, HerePlace, PlaceFile DEF BootTypes, Machine, Origin
  <2>3. dir' \in Place /\ volume' \in {Nothing} \cup Place
    BY <1>16, <2>2, SetHerePlace DEF PowerOff, BootTypes
  <2> QED
    BY <1>16, <2>1, <2>3 DEF PowerOff, BootTypes
<1>17. CASE Deliver
  <2>1. ImageOf(bundle.disk) \in Image
    BY <1>17 DEF Deliver, SupplyInv
  <2> QED
    BY <1>17, <2>1 DEF Deliver, BootTypes
<1>18. CASE UNCHANGED bootVars
  BY <1>18 DEF bootVars, BootTypes
<1> QED
  BY <1>1, <1>2, <1>3, <1>4, <1>5, <1>6, <1>7, <1>8, <1>9, <1>10, <1>11, <1>12, <1>13,
     <1>14, <1>15, <1>16, <1>17, <1>18
     DEF Next, BootNext, Customer, BootUnit, vars

--------------------------------------------------------------------------------
(* The customer's side: the parts of the invariant. *)

LEMMA SetHereLabelled ==
    ASSUME NEW h \in Place, SetHere(h), machine.mounted => h.label
    PROVE  /\ machine.mounted => Labelled' /\ volume' = h
           /\ ~machine.mounted => volume' = volume
  BY PlaceAssumption DEF SetHere, Labelled

\* A file written or a marker set leaves the label.
LEMMA HereLabelled ==
    ASSUME BootTypes, BootOrder, machine.mounted, NEW f, NEW v
    PROVE  [Here EXCEPT !.files[f] = v].label /\ [Here EXCEPT !.marker = v].label
  BY DEF BootTypes, BootOrder, Here, Labelled, Place

\* Mounting needs a label, and the bypass a host without a volume.
LEMMA OrderStep == BootTypes /\ BootOrder /\ BootTypes' /\ [Next]_vars => BootOrder'
<1> SUFFICES ASSUME BootTypes, BootOrder, BootTypes', [Next]_vars PROVE BootOrder'
  OBVIOUS
<1> USE BootAssumption, PlaceAssumption, FreshPlace DEF BootTypes, BootOrder, Powered, Labelled
<1>1. ASSUME NEW r \in DOMAIN shelf, InsertDisk(r) PROVE BootOrder'
  BY <1>1 DEF InsertDisk, NoMachine
<1>2. CASE AttachVolume
  BY <1>2 DEF AttachVolume
<1>3. CASE EnsureDataDisk
  BY <1>3 DEF EnsureDataDisk
<1>4. CASE FormatDataDisk
  BY <1>4 DEF FormatDataDisk
<1>5. CASE EnsureKilled
  BY <1>5 DEF EnsureKilled
<1>6. CASE MarkByHand
  <2>1. PICK h \in Place : SetHere(h) /\ (machine.mounted => h.label)
    BY <1>6, HerePlace, HereLabelled, PlaceMark, Numbers DEF MarkByHand
  <2> QED
    BY <1>6, <2>1, SetHereLabelled DEF MarkByHand
<1>7. CASE Wipe
  <2>1. PICK h \in Place : SetHere(h) /\ (machine.mounted => h.label)
    BY <1>7, HerePlace, HereLabelled, FreshPlace DEF Wipe, Fresh
  <2> QED
    BY <1>7, <2>1, SetHereLabelled DEF Wipe, Conflict
<1>8. CASE RestartUnit
  BY <1>8 DEF RestartUnit, Goto
<1>9. ASSUME NEW f \in Files, Work(f) PROVE BootOrder'
  <2>1. PICK h \in Place : SetHere(h) /\ (machine.mounted => h.label)
    BY <1>9, HerePlace, HereLabelled, PlaceFile, Numbers DEF Work, Origin
  <2> QED
    BY <1>9, <2>1, SetHereLabelled DEF Work
<1>10. CASE Boot
  BY <1>10 DEF Boot
<1>11. CASE Mount
  BY <1>11 DEF Mount
<1>12. CASE StartUnit
  BY <1>12 DEF StartUnit, Goto
<1>13. CASE Check
  BY <1>13 DEF Check, Decision, SeedIsWhole
<1>14. CASE Extract
  <2>1. PICK f \in machine.left :
           /\ SetHere([Here EXCEPT !.files[f] = machine.image.release])
           /\ machine' = [machine EXCEPT !.left = @ \ {f}]
    BY <1>14 DEF Extract, SetHere
  <2>2. f \in Files /\ machine.image.release \in Origin
    BY <1>14, PoweredImage, Numbers DEF Extract, Machine, Origin
  <2>3. PICK h \in Place : SetHere(h) /\ (machine.mounted => h.label)
    BY <2>1, <2>2, HerePlace, HereLabelled, PlaceFile
  <2> QED
    BY <1>14, <2>1, <2>3, SetHereLabelled DEF Extract, Machine
<1>15. CASE MarkSeeded
  <2>1. PICK h \in Place : SetHere(h) /\ (machine.mounted => h.label)
    BY <1>15, HerePlace, HereLabelled, PlaceMark, PoweredImage, Numbers DEF MarkSeeded,
     Powered
  <2> QED
    BY <1>15, <2>1, SetHereLabelled DEF MarkSeeded, Goto
<1>16. CASE PowerOff
  BY <1>16 DEF PowerOff, SetHere, Here
<1>17. CASE Deliver
  BY <1>17 DEF Deliver
<1>18. CASE UNCHANGED bootVars
  BY <1>18 DEF bootVars
<1> QED
  BY <1>1, <1>2, <1>3, <1>4, <1>5, <1>6, <1>7, <1>8, <1>9, <1>10, <1>11, <1>12, <1>13,
     <1>14, <1>15, <1>16, <1>17, <1>18
     DEF Next, BootNext, Customer, BootUnit, vars

\* What SetHere does to the place, and a write to its other fields.
LEMMA HereNext ==
    ASSUME NEW h, SetHere(h), machine'.mounted = machine.mounted
    PROVE  Here' = h
  BY DEF SetHere, Here

LEMMA HereSame ==
    ASSUME UNCHANGED <<dir, volume>>, machine'.mounted = machine.mounted
    PROVE  Here' = Here
  BY DEF Here

LEMMA FileWritten ==
    ASSUME NEW p \in Place, NEW f \in Files, NEW v
    PROVE  /\ [p EXCEPT !.files[f] = v].marker = p.marker
           /\ \A g \in Files : [p EXCEPT !.files[f] = v].files[g] = IF g = f THEN v ELSE p.files[g]
  BY DEF Place

LEMMA Marked ==
    ASSUME NEW p \in Place, NEW v
    PROVE  /\ [p EXCEPT !.marker = v].marker = v
           /\ [p EXCEPT !.marker = v].files = p.files
  BY DEF Place

\* Past the unit: from Decision, and Mount cannot come between.
LEMMA GateStep == BootTypes /\ BootOrder /\ GateHolds /\ [Next]_vars => GateHolds'
<1> SUFFICES ASSUME BootTypes, BootOrder, GateHolds, [Next]_vars PROVE GateHolds'
  OBVIOUS
<1> USE DEF GateHolds, Gated
<1>1. ASSUME NEW r \in DOMAIN shelf, InsertDisk(r) PROVE GateHolds'
  BY <1>1 DEF InsertDisk, Powered, NoMachine
<1>2. CASE AttachVolume
  BY <1>2 DEF AttachVolume, Powered
<1>3. CASE EnsureDataDisk
  BY <1>3 DEF EnsureDataDisk, Powered
<1>4. CASE FormatDataDisk
  BY <1>4 DEF FormatDataDisk, BootOrder, Powered
<1>5. CASE EnsureKilled
  BY <1>5, HereSame DEF EnsureKilled
<1>6. CASE MarkByHand
  BY <1>6 DEF MarkByHand, Conflict
<1>7. CASE Wipe
  BY <1>7 DEF Wipe, Conflict
<1>8. CASE RestartUnit
  BY <1>8 DEF RestartUnit, Goto, BootTypes, Machine
<1>9. ASSUME NEW f \in Files, Work(f) PROVE GateHolds'
  <2>1. Here' = [Here EXCEPT !.files[f] = Theirs]
    BY <1>9, HereNext DEF Work
  <2>2. Here'.marker = Here.marker
    BY <2>1, HerePlace, FileWritten
  <2> QED
    BY <1>9, <2>2 DEF Work
<1>10. CASE Boot
  BY <1>10 DEF Boot, BootTypes, Machine
<1>11. CASE Mount
  BY <1>11 DEF Mount, BootOrder, Powered, Labelled, BootTypes, Machine
<1>12. CASE StartUnit
  BY <1>12 DEF StartUnit, Goto, BootTypes, BootOrder, Powered, Machine
<1>13. CASE Check
  <2>1. Here' = Here
    BY <1>13, HereSame DEF Check, BootTypes, Machine
  <2> QED
    BY <1>13, <2>1 DEF Check, Decision, SeedIsWhole, BootTypes, Machine
<1>14. CASE Extract
  <2> QED
    BY <1>14 DEF Extract, BootTypes, Machine
<1>15. CASE MarkSeeded
  <2>1. machine'.mounted = machine.mounted
    BY <1>15 DEF MarkSeeded, Goto, BootTypes, Machine
  <2>2. Here' = [Here EXCEPT !.marker = machine.image.release]
    BY <1>15, <2>1, HereNext DEF MarkSeeded
  <2>3. Here'.marker \in Nat
    BY <1>15, <2>2, HerePlace, Marked, PoweredImage, BuildAssumption DEF MarkSeeded,
     Powered
  <2>4. machine'.pc = "up" /\ machine'.bypass = machine.bypass
    BY <1>15 DEF MarkSeeded, Goto, BootTypes, Machine
  <2> QED
    BY <1>15, <2>1, <2>3, <2>4, BootAssumption DEF MarkSeeded
<1>16. CASE PowerOff
  BY <1>16 DEF PowerOff, BootTypes, Machine
<1>17. CASE Deliver
  BY <1>17, HereSame DEF Deliver
<1>18. CASE UNCHANGED bootVars
  BY <1>18, HereSame DEF bootVars
<1> QED
  BY <1>1, <1>2, <1>3, <1>4, <1>5, <1>6, <1>7, <1>8, <1>9, <1>10, <1>11, <1>12, <1>13,
     <1>14, <1>15, <1>16, <1>17, <1>18
     DEF Next, BootNext, Customer, BootUnit, vars

\* From an empty place, one file at a time.
LEMMA UnpackingStep == BootTypes /\ BootOrder /\ GateHolds /\ Unpacking /\ [Next]_vars => Unpacking'
<1> SUFFICES ASSUME BootTypes, BootOrder, GateHolds, Unpacking, [Next]_vars PROVE Unpacking'
  OBVIOUS
<1> USE DEF Unpacking
<1>1. ASSUME NEW r \in DOMAIN shelf, InsertDisk(r) PROVE Unpacking'
  BY <1>1 DEF InsertDisk, Powered, NoMachine
<1>2. CASE AttachVolume
  BY <1>2 DEF AttachVolume, Powered
<1>3. CASE EnsureDataDisk
  BY <1>3 DEF EnsureDataDisk, Powered
<1>4. CASE FormatDataDisk
  BY <1>4 DEF FormatDataDisk, BootOrder, Powered
<1>5. CASE EnsureKilled
  BY <1>5, HereSame DEF EnsureKilled
<1>6. CASE MarkByHand
  BY <1>6 DEF MarkByHand, Conflict
<1>7. CASE Wipe
  BY <1>7 DEF Wipe, Conflict
<1>8. CASE RestartUnit
  BY <1>8 DEF RestartUnit, Goto, BootTypes, Machine
<1>9. ASSUME NEW f \in Files, Work(f) PROVE Unpacking'
  BY <1>9 DEF Work
<1>10. CASE Boot
  BY <1>10 DEF Boot, BootTypes, Machine
<1>11. CASE Mount
  BY <1>11 DEF Mount, GateHolds, BootOrder, Powered, Labelled, BootTypes, Machine
<1>12. CASE StartUnit
  BY <1>12 DEF StartUnit, Goto, BootTypes, Machine
<1>13. CASE Check
  <2>1. Here' = Here
    BY <1>13, HereSame DEF Check, BootTypes, Machine
  <2>2. CASE machine'.pc = "extract"
    <3>1. Here.marker = Nothing /\ IsEmpty(Here) /\ machine'.left = Members(machine.image)
      BY <1>13, <2>2 DEF Check, Decision, BootTypes, Machine
    <3>2. machine'.image = machine.image
      BY <1>13 DEF Check, BootTypes, Machine
    <3> QED
      BY <2>1, <3>1, <3>2 DEF IsEmpty, Members
  <2> QED
    BY <2>2
<1>14. CASE Extract
  <2>1. PICK f \in machine.left :
           /\ SetHere([Here EXCEPT !.files[f] = machine.image.release])
           /\ machine' = [machine EXCEPT !.left = @ \ {f}]
    BY <1>14 DEF Extract, SetHere
  <2>2. /\ machine'.left = machine.left \ {f}
        /\ machine'.image = machine.image /\ machine'.mounted = machine.mounted
    BY <2>1 DEF BootTypes, Machine
  <2>3. f \in Files /\ Here' = [Here EXCEPT !.files[f] = machine.image.release]
    BY <2>1, <2>2, HereNext DEF BootTypes, Machine
  <2>4. /\ Here'.marker = Here.marker
        /\ \A g \in Files : Here'.files[g] = IF g = f THEN machine.image.release
                                                      ELSE Here.files[g]
    BY <2>3, HerePlace, FileWritten
  <2>5. machine.pc = "extract" /\ machine.image.seeded
    BY <1>14, <2>1 DEF Extract
  <2> QED
    BY <2>2, <2>4, <2>5
<1>15. CASE MarkSeeded
  BY <1>15 DEF MarkSeeded, Goto, BootTypes, Machine
<1>16. CASE PowerOff
  BY <1>16 DEF PowerOff, BootTypes, Machine
<1>17. CASE Deliver
  BY <1>17, HereSame DEF Deliver
<1>18. CASE UNCHANGED bootVars
  BY <1>18, HereSame DEF bootVars
<1> QED
  BY <1>1, <1>2, <1>3, <1>4, <1>5, <1>6, <1>7, <1>8, <1>9, <1>10, <1>11, <1>12, <1>13,
     <1>14, <1>15, <1>16, <1>17, <1>18
     DEF Next, BootNext, Customer, BootUnit, vars

LEMMA WholeSame ==
    ASSUME MarkersTrue, UNCHANGED <<shelf, dir, volume>>
    PROVE  MarkersTrue'
  BY DEF MarkersTrue, MarkedWhole

\* A place written to, whole again.
LEMMA WholeSet ==
    ASSUME MarkersTrue, NEW h, SetHere(h), MarkedWhole(h), UNCHANGED shelf
    PROVE  MarkersTrue'
  BY DEF MarkersTrue, MarkedWhole, SetHere

LEMMA Unmarked == ASSUME NEW h, h.marker = Nothing PROVE MarkedWhole(h)
  BY DEF MarkedWhole

LEMMA HereWhole == BootOrder /\ MarkersTrue => MarkedWhole(Here)
  BY DEF BootOrder, MarkersTrue, Here, Labelled

LEMMA FreshUnmarked ==
    /\ Fresh.marker = Nothing
    /\ \A x : [Fresh EXCEPT !.files = x].marker = Nothing
    /\ [Fresh EXCEPT !.label = FALSE].marker = Nothing
  BY DEF Fresh

\* What has a marker was whole, and only the customer writes to it after.
LEMMA WholeStep == BootTypes /\ BootOrder /\ Unpacking /\ MarkersTrue /\ [Next]_vars => MarkersTrue'
<1> SUFFICES ASSUME BootTypes, BootOrder, Unpacking, MarkersTrue, [Next]_vars PROVE MarkersTrue'
  OBVIOUS
<1>1. ASSUME NEW r \in DOMAIN shelf, InsertDisk(r) PROVE MarkersTrue'
  <2>1. MarkedWhole(dir')
    BY <1>1, Unmarked, FreshUnmarked DEF InsertDisk
  <2> QED
    BY <1>1, <2>1 DEF InsertDisk, MarkersTrue, MarkedWhole
<1>2. CASE AttachVolume
  <2>1. MarkedWhole(volume')
    BY <1>2, Unmarked, FreshUnmarked DEF AttachVolume
  <2> QED
    BY <1>2, <2>1 DEF AttachVolume, MarkersTrue, MarkedWhole
<1>3. CASE EnsureDataDisk
  <2>1. MarkedWhole(volume')
    BY <1>3, Unmarked, FreshUnmarked DEF EnsureDataDisk
  <2> QED
    BY <1>3, <2>1 DEF EnsureDataDisk, MarkersTrue, MarkedWhole
<1>4. CASE FormatDataDisk
  <2>1. volume' # Nothing => MarkedWhole(volume')
    BY <1>4, Unmarked, FreshUnmarked DEF FormatDataDisk
  <2> QED
    BY <1>4, <2>1 DEF FormatDataDisk, MarkersTrue, MarkedWhole
<1>5. CASE EnsureKilled
  BY <1>5, WholeSame DEF EnsureKilled
<1>6. CASE MarkByHand
  <2>1. MarkedWhole([Here EXCEPT !.marker = Theirs])
    BY <1>6, HerePlace, Marked DEF MarkByHand, MarkedWhole
  <2> QED
    BY <1>6, <2>1, WholeSet DEF MarkByHand
<1>7. CASE Wipe
  BY <1>7, Unmarked, FreshUnmarked, WholeSet DEF Wipe
<1>8. CASE RestartUnit
  BY <1>8, WholeSame DEF RestartUnit
<1>9. ASSUME NEW f \in Files, Work(f) PROVE MarkersTrue'
  <2>1. MarkedWhole([Here EXCEPT !.files[f] = Theirs])
    BY HerePlace, FileWritten, HereWhole DEF MarkedWhole
  <2> QED
    BY <1>9, <2>1, WholeSet DEF Work
<1>10. CASE Boot
  BY <1>10, WholeSame DEF Boot
<1>11. CASE Mount
  BY <1>11, WholeSame DEF Mount
<1>12. CASE StartUnit
  BY <1>12, WholeSame DEF StartUnit
<1>13. CASE Check
  BY <1>13, WholeSame DEF Check
<1>14. CASE Extract
  <2>1. PICK f \in machine.left : SetHere([Here EXCEPT !.files[f] = machine.image.release])
    BY <1>14 DEF Extract, SetHere
  <2>2. f \in Files /\ Here.marker = Nothing
    BY <1>14, <2>1 DEF Extract, Unpacking, BootTypes, Machine
  <2>3. [Here EXCEPT !.files[f] = machine.image.release].marker = Nothing
    BY <2>2, HerePlace, FileWritten
  <2>4. MarkedWhole([Here EXCEPT !.files[f] = machine.image.release])
    BY <2>3, Unmarked
  <2> QED
    BY <1>14, <2>1, <2>4, WholeSet DEF Extract
<1>15. CASE MarkSeeded
  <2> DEFINE h == [Here EXCEPT !.marker = machine.image.release]
  <2>1. h.marker = machine.image.release /\ h.files = Here.files
    BY HerePlace, Marked
  <2>2. CASE machine.image.seeded
    <3>1. \A f \in Files : Here.files[f] = machine.image.release
      BY <1>15, <2>2 DEF MarkSeeded, Unpacking
    <3> QED
      BY <1>15, <2>1, <3>1, WholeSet DEF MarkSeeded, MarkedWhole
  <2>3. CASE ~machine.image.seeded
    <3>1. \A f \in Files : Here.files[f] = Nothing
      BY <1>15, <2>3 DEF MarkSeeded, Unpacking, IsEmpty
    <3>2. PICK r \in DOMAIN shelf : machine.image = shelf[r]
      BY <1>15 DEF MarkSeeded, BootOrder, Powered
    <3> QED
      BY <1>15, <2>1, <2>3, <3>1, <3>2, WholeSet DEF MarkSeeded, MarkedWhole
  <2> QED
    BY <2>2, <2>3
<1>16. CASE PowerOff
  <2>1. CASE UNCHANGED <<dir, volume>>
    BY <1>16, <2>1, WholeSame DEF PowerOff
  <2>2. ASSUME machine.pc = "extract", NEW f \in machine.left,
               SetHere([Here EXCEPT !.files[f] = Torn])
        PROVE  MarkersTrue'
    <3>1. f \in Files /\ Here.marker = Nothing
      BY <2>2 DEF Unpacking, BootTypes, Machine
    <3>2. [Here EXCEPT !.files[f] = Torn].marker = Nothing
      BY <3>1, HerePlace, FileWritten
    <3>3. MarkedWhole([Here EXCEPT !.files[f] = Torn])
      BY <3>2, Unmarked
    <3> QED
      BY <1>16, <2>2, <3>3, WholeSet DEF PowerOff
  <2> QED
    BY <1>16, <2>1, <2>2 DEF PowerOff
<1>17. CASE Deliver
  <2>1. \A r \in DOMAIN shelf : r \in DOMAIN shelf' /\ shelf'[r] = shelf[r]
    BY <1>17 DEF Deliver, BootTypes
  <2> QED
    BY <1>17, <2>1 DEF Deliver, MarkersTrue, MarkedWhole
<1>18. CASE UNCHANGED bootVars
  BY <1>18, WholeSame DEF bootVars
<1> QED
  BY <1>1, <1>2, <1>3, <1>4, <1>5, <1>6, <1>7, <1>8, <1>9, <1>10, <1>11, <1>12, <1>13,
     <1>14, <1>15, <1>16, <1>17, <1>18
     DEF Next, BootNext, Customer, BootUnit, vars

--------------------------------------------------------------------------------
(* The theorems. *)

LEMMA VolumeStep == VolumeInv /\ [Next]_vars => VolumeInv'
<1> SUFFICES ASSUME VolumeInv, [Next]_vars PROVE VolumeInv'
  OBVIOUS
<1> USE DEF VolumeInv
<1>1. SupplyInv'
  BY SupplyStep
<1>2. BootTypes'
  BY TypesStep
<1>3. BootOrder'
  BY <1>2, OrderStep
<1>4. GateHolds' /\ Unpacking' /\ MarkersTrue'
  BY GateStep, UnpackingStep, WholeStep
<1> QED
  BY <1>1, <1>2, <1>3, <1>4

LEMMA VolumeInit == Init => VolumeInv
<1> SUFFICES ASSUME BuildInit, BootInit PROVE VolumeInv
  BY DEF Init
<1>1. SupplyInv
  BY BuildAssumption DEF BuildInit, SupplyInv, NewDisk, Idle
<1>2. BootTypes
  <2>1. machine \in Machine
    BY DEF BootInit, NoMachine, Machine, Points
  <2>2. shelf \in Seq(Image)
    BY DEF BootInit
  <2>3. dir \in Place /\ volume = Nothing /\ ensure \in BOOLEAN
    BY FreshPlace DEF BootInit
  <2> QED
    BY <2>1, <2>2, <2>3 DEF BootTypes
<1>3. BootOrder /\ GateHolds /\ Unpacking
  BY DEF BootInit, NoMachine, BootOrder, GateHolds, Unpacking, Powered
<1>4. MarkersTrue
  BY Unmarked, FreshUnmarked DEF BootInit, MarkersTrue
<1> QED
  BY <1>1, <1>2, <1>3, <1>4 DEF VolumeInv

\* Whatever is built, imported, attached, wiped, marked, unplugged or booted, at
\* every step of the unit the place k3s will run on is known and unmarked until
\* it is whole (data_seed_check.sh).
THEOREM VolumeIsAccounted == Spec => []VolumeInv
  BY VolumeInit, VolumeStep, PTL DEF Spec

\* k3s of a gated appliance never starts on a place that is not whole: seeded to
\* the end by one release, or the customer's (data_seed_check.sh, the marker
\* comes last).
THEOREM K3sRunsOnWholeData == Spec => []RunsOnWholeData
<1>1. VolumeInv => RunsOnWholeData
  <2> SUFFICES ASSUME VolumeInv, machine.pc = "up", machine.image.unit, machine.image.seed
               PROVE  Here.marker # Nothing /\ MarkedWhole(Here)
    BY DEF RunsOnWholeData, MarkedWhole
  <2>1. machine.image # Nothing
    BY DEF VolumeInv, BootOrder, Powered
  <2> QED
    BY <2>1, HereWhole DEF VolumeInv, GateHolds, Gated
<1> QED
  BY <1>1, VolumeIsAccounted, PTL

--------------------------------------------------------------------------------
(* The volume does what DataVolume promises. *)

Promised == [Promise!Next]_(Promise!vars)

LEMMA ServingSealed == VolumeInv' /\ Serving' => Sealed'
  BY DEF VolumeInv, GateHolds, BootOrder, Serving, Sealed, Here, Labelled

\* Nothing of the volume changes, k3s may come or go.
LEMMA LooksSame ==
    ASSUME VolumeInv', Content' = Content, Sealed' <=> Sealed
    PROVE  Promised
<1>1. CASE Serving'
  <2>1. Sealed'
    BY <1>1, ServingSealed
  <2>2. Promise!Serve
    BY <1>1, <2>1 DEF Promise!Serve, Serving, Sealed
  <2> QED
    BY <2>2 DEF Promised, Promise!Next
<1>2. CASE ~Serving'
  <2>1. Promise!Halt
    BY <1>2 DEF Promise!Halt, Serving, Sealed
  <2> QED
    BY <2>1 DEF Promised, Promise!Next
<1> QED
  BY <1>1, <1>2

LEMMA VolumeSame ==
    ASSUME VolumeInv', volume' = volume PROVE Promised
  BY LooksSame DEF Content, Sealed

\* A volume as it is made has nothing on it.
LEMMA FreshLooks ==
    /\ Fresh # Nothing /\ [Fresh EXCEPT !.label = FALSE] # Nothing
    /\ \A f \in Files : /\ Fresh.files[f] = Nothing
                        /\ [Fresh EXCEPT !.label = FALSE].files[f] = Nothing
<1>1. [Fresh EXCEPT !.label = FALSE] \in Place
  BY FreshPlace DEF Place
<1> QED
  BY <1>1, FreshPlace, PlaceAssumption DEF Fresh

\* A step that writes to the mounted volume and leaves the machine's place.
LEMMA MountedWrite ==
    ASSUME NEW h, SetHere(h), VolumeInv
    PROVE  /\ machine.mounted => Here = volume /\ volume \in Place /\ volume' = h
           /\ ~machine.mounted => volume' = volume
  BY DEF SetHere, Here, VolumeInv, BootTypes, BootOrder, Labelled

\* Every step that leaves the volume alone looks the same or is Serve or Halt.
LEMMA PromiseStep == VolumeInv /\ VolumeInv' /\ [Next]_vars => Promised
<1> SUFFICES ASSUME VolumeInv, VolumeInv', [Next]_vars PROVE Promised
  OBVIOUS
<1>t. BootTypes /\ BootOrder
  BY DEF VolumeInv
<1>1. ASSUME NEW r \in DOMAIN shelf, InsertDisk(r) PROVE Promised
  BY <1>1, VolumeSame DEF InsertDisk
<1>2. CASE AttachVolume
  <2>1. volume = Nothing /\ UNCHANGED machine
    BY <1>2 DEF AttachVolume
  <2>2. CASE volume' = Fresh
    BY <2>1, <2>2, FreshLooks, FreshUnmarked, LooksSame DEF Content, Sealed
  <2>3. CASE volume' = [Fresh EXCEPT !.files = [f \in Files |-> Theirs]]
    <3>0. [Fresh EXCEPT !.files = [f \in Files |-> Theirs]] \in Place
      BY Numbers DEF Fresh, Place, Origin
    <3>1. volume' # Nothing /\ volume'.files = [f \in Files |-> Theirs]
      BY <2>3, <3>0, PlaceAssumption DEF Fresh
    <3>2. volume'.marker = Nothing
      BY <2>3, FreshUnmarked
    <3>3. Promise!Empty /\ Content' = [f \in Files |-> Theirs]
      BY <2>1, <3>1, BootAssumption DEF Promise!Empty, Content, Theirs
    <3>4. Promise!Restore
      BY <2>1, <3>2, <3>3 DEF Promise!Restore, Sealed, Serving, Gated
    <3> QED
      BY <3>4 DEF Promised, Promise!Next
  <2> QED
    BY <1>2, <2>2, <2>3 DEF AttachVolume
<1>3. CASE EnsureDataDisk
  <2>1. volume = Nothing /\ volume' = [Fresh EXCEPT !.label = FALSE]
    BY <1>3 DEF EnsureDataDisk
  <2> QED
    BY <2>1, FreshLooks, FreshUnmarked, LooksSame DEF Content, Sealed
<1>4. CASE FormatDataDisk
  <2>1. volume = [Fresh EXCEPT !.label = FALSE] /\ volume' \in {Fresh, Nothing}
    BY <1>4 DEF FormatDataDisk, VolumeInv, BootOrder
  <2> QED
    BY <2>1, FreshLooks, FreshUnmarked, LooksSame DEF Content, Sealed
<1>5. CASE EnsureKilled
  BY <1>5, VolumeSame DEF EnsureKilled
<1>6. CASE MarkByHand
  <2>1. /\ \A f \in Files : Here.files[f] = Theirs
        /\ UNCHANGED machine
        /\ SetHere([Here EXCEPT !.marker = Theirs])
    BY <1>6 DEF MarkByHand
  <2>2. CASE machine.mounted
    <3>1. Here = volume /\ volume \in Place /\ volume' = [volume EXCEPT !.marker = Theirs]
      BY <2>1, <2>2, MountedWrite
    <3>2. volume'.marker = Theirs /\ volume'.files = volume.files
      BY <3>1, Marked
    <3>3. volume # Nothing /\ volume' # Nothing
      BY <3>1, PlaceMark, Numbers, PlaceAssumption
    <3>4. Content' = Content /\ Promise!Whole /\ Sealed'
      BY <2>1, <3>1, <3>2, <3>3, BootAssumption DEF Content, Promise!Whole, Sealed,
     Theirs
    <3>5. CASE ~Sealed
      <4>1. Promise!Seal
        BY <3>4, <3>5 DEF Promise!Seal, Sealed, Serving
      <4> QED
        BY <4>1 DEF Promised, Promise!Next
    <3>6. CASE Sealed
      BY <3>4, <3>6, LooksSame
    <3> QED
      BY <3>5, <3>6
  <2> QED
    BY <2>1, <2>2, MountedWrite, VolumeSame
<1>7. CASE Wipe
  <2>1. /\ \A f \in Files : Here.files[f] # Theirs
        /\ Here.marker = Nothing
        /\ UNCHANGED machine
        /\ SetHere(Fresh)
    BY <1>7 DEF Wipe
  <2>2. CASE machine.mounted
    <3>1. Here = volume /\ volume' = Fresh
      BY <2>1, <2>2, MountedWrite
    <3>2. ~Sealed /\ ~Sealed' /\ \A f \in Files : Content[f] # Theirs
      BY <2>1, <3>1, BootAssumption, FreshUnmarked DEF Sealed, Content, Theirs
    <3>3. Content' = [f \in Files |-> Nothing]
      BY <3>1, FreshLooks DEF Content
    <3>4. Promise!Wipe
      BY <2>1, <3>2, <3>3 DEF Promise!Wipe, Sealed, Serving, Gated
    <3> QED
      BY <3>4 DEF Promised, Promise!Next
  <2> QED
    BY <2>1, <2>2, MountedWrite, VolumeSame
<1>8. CASE RestartUnit
  BY <1>8, VolumeSame DEF RestartUnit
<1>9. ASSUME NEW f \in Files, Work(f) PROVE Promised
  <2>1. UNCHANGED machine /\ SetHere([Here EXCEPT !.files[f] = Theirs])
    BY <1>9 DEF Work
  <2>2. CASE machine.mounted
    <3>1. Here = volume /\ volume \in Place /\ volume' = [volume EXCEPT !.files[f] = Theirs]
      BY <2>1, <2>2, MountedWrite
    <3>2. volume # Nothing /\ volume' # Nothing
      BY <3>1, PlaceFile, Numbers, PlaceAssumption DEF Origin
    <3>3. /\ volume'.marker = volume.marker
          /\ \A g \in Files : volume'.files[g] = IF g = f THEN Theirs ELSE volume.files[g]
      BY <3>1, FileWritten
    <3>4. Content' = [Content EXCEPT ![f] = Theirs]
      <4>1. Theirs # Torn
        BY BootAssumption DEF Theirs
      <4>2. \A g \in Files : Content'[g] = IF g = f THEN Theirs ELSE Content[g]
        BY <3>2, <3>3, <4>1 DEF Content
      <4> QED
        BY <4>2 DEF Content
    <3>5. Promise!Use(f)
      BY <2>1, <3>2, <3>3, <3>4 DEF Promise!Use, Sealed, Serving, Gated
    <3> QED
      BY <3>5 DEF Promised, Promise!Next
  <2> QED
    BY <2>1, <2>2, MountedWrite, VolumeSame
<1>10. CASE Boot
  BY <1>10, VolumeSame DEF Boot
<1>11. CASE Mount
  BY <1>11, VolumeSame DEF Mount
<1>12. CASE StartUnit
  BY <1>12, VolumeSame DEF StartUnit
<1>13. CASE Check
  BY <1>13, VolumeSame DEF Check
<1>14. CASE Extract
  <2> DEFINE r == machine.image.release
  <2>1. PICK f \in machine.left : /\ SetHere([Here EXCEPT !.files[f] = r])
                                  /\ machine' = [machine EXCEPT !.left = @ \ {f}]
    BY <1>14 DEF Extract, SetHere
  <2>2. f \in Files /\ r \in 1..MaxRelease /\ r \in Origin
    BY <1>14, <2>1, PoweredImage, Numbers
       DEF Extract, Powered, VolumeInv, BootTypes, Machine, Origin
  <2>3. CASE machine.mounted
    <3>1. Here = volume /\ volume \in Place /\ volume' = [volume EXCEPT !.files[f] = r]
      BY <2>1, <2>3, MountedWrite
    <3>2. volume # Nothing /\ volume' # Nothing
      BY <2>2, <3>1, PlaceFile, PlaceAssumption
    <3>3. /\ volume'.marker = volume.marker
          /\ \A g \in Files : volume'.files[g] = IF g = f THEN r ELSE volume.files[g]
      BY <2>2, <3>1, FileWritten
    <3>4. /\ volume.marker = Nothing /\ volume.files[f] = Nothing
          /\ \A g \in Files : volume.files[g] \in {Nothing, r}
      BY <1>14, <2>1, <2>2, <3>1 DEF Extract, VolumeInv, Unpacking
    <3>5. Content' = [Content EXCEPT ![f] = r]
      <4>1. r # Torn
        BY <2>2, BootAssumption
      <4>2. \A g \in Files : Content'[g] = IF g = f THEN r ELSE Content[g]
        BY <3>2, <3>3, <4>1 DEF Content
      <4> QED
        BY <4>2 DEF Content
    <3>6. /\ Content[f] = Nothing /\ ~Sealed /\ ~Sealed'
          /\ \A g \in Files : Content[g] \in {Nothing, r}
      BY <2>2, <3>2, <3>3, <3>4 DEF Content, Sealed
    <3>7. ~Serving /\ ~Serving'
      BY <1>14, <2>1 DEF Extract, Serving, VolumeInv, BootTypes, Machine
    <3>8. Promise!Unpack(f, r)
      BY <3>5, <3>6, <3>7 DEF Promise!Unpack, Sealed, Serving
    <3> QED
      BY <2>2, <3>8 DEF Promised, Promise!Next
  <2> QED
    BY <2>1, <2>3, MountedWrite, VolumeSame
<1>15. CASE MarkSeeded
  <2> DEFINE r == machine.image.release
  <2>1. SetHere([Here EXCEPT !.marker = r]) /\ r \in 1..MaxRelease
    BY <1>15, PoweredImage DEF MarkSeeded, Powered, VolumeInv
  <2>2. CASE machine.mounted
    <3>1. Here = volume /\ volume \in Place /\ volume' = [volume EXCEPT !.marker = r]
      BY <2>1, <2>2, MountedWrite
    <3>2. volume'.marker = r /\ volume'.files = volume.files
      BY <3>1, Marked
    <3>3. volume # Nothing /\ volume' # Nothing
      BY <2>1, <3>1, PlaceMark, Numbers, PlaceAssumption
    <3>4. volume.marker = Nothing /\ \A f, g \in Files : volume.files[f] = volume.files[g]
      BY <1>15, <3>1 DEF MarkSeeded, VolumeInv, Unpacking, IsEmpty
    <3>5. Content' = Content /\ Promise!Whole /\ ~Sealed /\ Sealed'
      BY <2>1, <3>2, <3>3, <3>4, BootAssumption, BuildAssumption
         DEF Content, Promise!Whole, Sealed
    <3>6. Promise!Seal
      BY <3>5 DEF Promise!Seal, Sealed, Serving
    <3> QED
      BY <3>6 DEF Promised, Promise!Next
  <2> QED
    BY <2>1, <2>2, MountedWrite, VolumeSame
<1>16. CASE PowerOff
  <2>1. CASE UNCHANGED <<dir, volume>>
    BY <2>1, VolumeSame
  <2>2. ASSUME machine.pc = "extract", NEW f \in machine.left,
               SetHere([Here EXCEPT !.files[f] = Torn]), machine.mounted
        PROVE  Promised
    <3>1. Here = volume /\ volume \in Place /\ volume' = [volume EXCEPT !.files[f] = Torn]
      BY <2>2, MountedWrite
    <3>2. f \in Files /\ volume.files[f] = Nothing
      BY <2>2, <3>1 DEF VolumeInv, BootTypes, Machine, Unpacking
    <3>3. volume # Nothing /\ volume' # Nothing
      BY <3>1, <3>2, PlaceFile, PlaceAssumption DEF Origin
    <3>4. /\ volume'.marker = volume.marker
          /\ \A g \in Files : volume'.files[g] = IF g = f THEN Torn ELSE volume.files[g]
      BY <3>1, <3>2, FileWritten
    <3>5. Content' = Content /\ (Sealed' <=> Sealed)
      BY <3>2, <3>3, <3>4 DEF Content, Sealed
    <3> QED
      BY <3>5, LooksSame
  <2> QED
    BY <1>16, <2>1, <2>2, MountedWrite, VolumeSame DEF PowerOff
<1>17. CASE Deliver
  BY <1>17, VolumeSame DEF Deliver
<1>18. CASE UNCHANGED bootVars
  BY <1>18, VolumeSame DEF bootVars
<1> QED
  BY <1>1, <1>2, <1>3, <1>4, <1>5, <1>6, <1>7, <1>8, <1>9, <1>10, <1>11, <1>12, <1>13,
     <1>14, <1>15, <1>16, <1>17, <1>18
     DEF Next, BootNext, Customer, BootUnit, vars

LEMMA PromiseInit == Init => Promise!Init
  BY DEF Init, BootInit, Promise!Init, Content, Sealed, Serving, NoMachine

\* The volume is never seeded over, wiped or marked but as DataVolume allows,
\* whatever disk is booted against it and whenever power is lost
\* (data_seed_check.sh, data_disk.go).
THEOREM VolumeKeepsPromise == Spec => KeepsPromise
<1>1. Init => Promise!Init
  BY PromiseInit
<1>2. VolumeInv /\ VolumeInv' /\ [Next]_vars => [Promise!Next]_(Promise!vars)
  BY PromiseStep DEF Promised
<1> QED
  BY <1>1, <1>2, VolumeIsAccounted, PTL DEF Spec, KeepsPromise, Promise!Spec

\* What DataVolume allows leaves the customer's files alone.
LEMMA KeptStep ==
    ASSUME VolumeInv, Promised, NEW f \in Files, volume # Nothing, volume.files[f] = Theirs
    PROVE  volume'.files[f] = Theirs
<1>1. Content[f] = Theirs
  BY BootAssumption DEF Content, Theirs
<1>2. Theirs # Nothing
  BY BootAssumption DEF Theirs
<1>3. Content'[f] = Theirs
  <2>1. CASE Promise!Restore
    BY <1>1, <1>2, <2>1 DEF Promise!Restore, Promise!Empty
  <2>2. CASE Promise!Wipe
    BY <1>1, <2>2 DEF Promise!Wipe
  <2>3. CASE Promise!Seal \/ Promise!Serve \/ Promise!Halt \/ UNCHANGED Promise!vars
    BY <1>1, <2>3 DEF Promise!Seal, Promise!Serve, Promise!Halt, Promise!vars
  <2>4. ASSUME NEW g \in Files, Promise!Use(g) PROVE Content'[f] = Theirs
    BY <1>1, <2>4 DEF Promise!Use, Content
  <2>5. ASSUME NEW g \in Files, NEW r \in 1..MaxRelease, Promise!Unpack(g, r)
        PROVE  Content'[f] = Theirs
    BY <1>1, <1>2, <2>5 DEF Promise!Unpack, Content
  <2> QED
    BY <2>1, <2>2, <2>3, <2>4, <2>5 DEF Promised, Promise!Next
<1> QED
  BY <1>2, <1>3 DEF Content

\* Of the customer's data on the volume no step of the appliance writes over
\* any: what DataVolume allows does not (APPLIANCE_MAINTENANCE.md, "Never
\* overwrites actual data").
THEOREM CustomerDataIsKept == Spec => CustomerDataKept
<1>1. VolumeInv /\ VolumeInv' /\ [Next]_vars =>
        [\A f \in Files : volume # Nothing /\ volume.files[f] = Theirs
                            => volume'.files[f] = Theirs]_vars
  BY PromiseStep, KeptStep
<1> QED
  BY <1>1, VolumeIsAccounted, PTL DEF Spec, CustomerDataKept

--------------------------------------------------------------------------------
(* The supplier's side *)

LEMMA IdleIsPreparation == Idle \in Preparation
<1>1. 0 \in 0..MaxEdits /\ 0 \in 0..MaxRuns /\ NoDir \in 0..MaxWrites + 1
  BY BuildAssumption DEF NoDir
<1> QED
  BY <1>1 DEF Idle, Preparation

LEMMA EndsPrepared ==
    ASSUME prep \in Preparation, Ends
    PROVE  /\ prep' \in Preparation
           /\ prep'.pc = "idle" /\ prep'.from = prep.from
  BY IdleIsPreparation DEF Ends, Preparation, Idle

LEMMA NewDiskIsDisk ==
    ASSUME NEW r \in 0..MaxRelease, NEW api \in BOOLEAN
    PROVE  NewDisk(r, api) \in Disk
<1>1. NoManifests \in Manifest
  BY DEF NoManifests, Manifest
<1>2. 0 \in 0..MaxEdits /\ 0 \in 0..MaxWrites /\ NoDir \in 0..MaxWrites + 1
  BY BuildAssumption DEF NoDir
<1> QED
  BY <1>1, <1>2 DEF NewDisk, Disk

\* The end of a manifests command: nothing is written, or the manifest it read
\* about is, whole or in part; the VM is up then.
LEMMA Written ==
    ASSUME BuildTypes, NEW s \in Stagers, WriteStaged(s)
    PROVE  /\ staging[s].name \in Manifests /\ staging[s].verb \in {"add", "replace", "rm"}
           /\ \/ disk' = disk
              \/ /\ vm = "up"
                 /\ \E c \in Contents \cup {None, Half} :
                      /\ disk' = Holding(staging[s].name, c)
                      /\ c = None <=> staging[s].data = None
<1>1. staging[s] \in Command
  BY DEF BuildTypes, WriteStaged
<1>2. staging[s].data \in Contents \cup {None}
  BY <1>1 DEF Command
<1>3. ASSUME NEW c \in Lands(s)
      PROVE  c \in Contents \cup {None, Half} /\ (c = None <=> staging[s].data = None)
  BY <1>2, BuildAssumption DEF Lands
<1>4. disk' = disk \/ (vm = "up" /\ \E c \in Lands(s) : disk' = Holding(staging[s].name, c))
  BY DEF WriteStaged
<1> QED
  BY <1>1, <1>3, <1>4 DEF Command

\* The values: data and seed stay within what the workloads may write.
LEMMA BuildTypesStep == BuildTypes /\ PrepareOrder /\ SeedKept /\ [Next]_vars => BuildTypes'
<1> SUFFICES ASSUME BuildTypes, PrepareOrder, SeedKept, [Next]_vars PROVE BuildTypes'
  OBVIOUS
<1> USE BuildAssumption DEF BuildTypes
<1>1. ASSUME NEW api \in BOOLEAN, Build(api) PROVE BuildTypes'
  BY <1>1, NewDiskIsDisk DEF Build
<1>2. CASE TeardownBuild
  BY <1>2, NewDiskIsDisk, IdleIsPreparation DEF TeardownBuild
<1>3. CASE StartVM \/ StopVM
  BY <1>3 DEF StartVM, StopVM
<1>4. CASE Write
  <2>1. disk.writes + 1 \in 0..MaxWrites /\ Empty + 1 \in 0..MaxWrites + 1
    BY <1>4 DEF Write, Disk, Empty
  <2>2. disk.data + 1 \in 0..MaxWrites + 1
    BY <1>4 DEF Write, Disk, Empty, SeedKept
  <2>3. PICK d \in 0..MaxWrites + 1 : disk' = [disk EXCEPT !.data = d, !.writes = @ + 1]
    BY <1>4, <2>1, <2>2 DEF Write
  <2> QED
    BY <1>4, <2>1, <2>3 DEF Write, Disk
<1>5. CASE EditGateway \/ InstallPlatform
  BY <1>5 DEF EditGateway, InstallPlatform, Disk
<1>6. ASSUME NEW s \in Stagers, NEW m \in Manifests, NEW c \in Contents,
             NEW v \in {"add", "replace"}, ReadStaged(s, v, m, c)
      PROVE BuildTypes'
  BY <1>6 DEF ReadStaged, Command
<1>7. ASSUME NEW s \in Stagers, NEW m \in Manifests, ReadStaged(s, "rm", m, None)
      PROVE BuildTypes'
  BY <1>7 DEF ReadStaged, Command
<1>8. ASSUME NEW s \in Stagers, WriteStaged(s) PROVE BuildTypes'
  <2>1. ASSUME NEW m \in Manifests, NEW c \in Contents \cup {None, Half},
               disk' = Holding(m, c)
        PROVE  disk' \in Disk
    BY <2>1 DEF Holding, Disk, Manifest
  <2>2. disk' \in Disk
    BY <1>8, <2>1, Written
  <2> QED
    BY <1>8, <2>2 DEF WriteStaged
<1>9. CASE Begin
  <2>1. prep.runs + 1 \in 0..MaxRuns /\ disk.edits \in 0..MaxEdits
    BY <1>9 DEF Begin, Preparation, Disk
  <2>2. prep' \in Preparation
    BY <1>9, <2>1, IdleIsPreparation DEF Begin, Preparation
  <2> QED
    BY <1>9, <2>2 DEF Begin
<1>10. CASE SeedFails \/ PrepareEnds
  BY <1>10, EndsPrepared DEF SeedFails, PrepareEnds
<1>11. CASE ListHints
  <2>1. prep' \in Preparation
    BY <1>11, EndsPrepared DEF ListHints, Step, Preparation, Disk
  <2> QED
    BY <1>11, <2>1 DEF ListHints
<1>12. CASE PatchHint
  <2>1. prep' \in Preparation
    BY <1>12, EndsPrepared DEF PatchHint, Preparation
  <2>2. disk' \in Disk
    BY <1>12 DEF PatchHint, Disk
  <2> QED
    BY <1>12, <2>1, <2>2 DEF PatchHint
<1>13. CASE FetchGateways
  <2>1. prep' \in Preparation
    BY <1>13, EndsPrepared DEF FetchGateways, Preparation, Disk
  <2> QED
    BY <1>13, <2>1 DEF FetchGateways
<1>14. CASE FetchRoutes
  <2>1. prep' \in Preparation
    BY <1>14, EndsPrepared DEF FetchRoutes, Step, Preparation
  <2>2. record' \in Record \cup {None}
    <3>1. CASE Answers
      <4>1. disk.release \in 1..MaxRelease
        BY <3>1 DEF Answers, PrepareOrder
      <4>2. disk.hints \subseteq Classes /\ prep.seen \in 0..MaxEdits /\ disk.edits \in 0..MaxEdits
        BY DEF Disk, Preparation
      <4> QED
        BY <1>14, <3>1, <4>1, <4>2 DEF FetchRoutes, Record
    <3> QED
      BY <1>14, <3>1 DEF FetchRoutes
  <2> QED
    BY <1>14, <2>1, <2>2 DEF FetchRoutes
<1>15. CASE StopForOffline
  BY <1>15 DEF StopForOffline, Step, Preparation
<1>16. CASE BuildSeed
  BY <1>16 DEF BuildSeed, Preparation, Disk
<1>17. CASE Upload \/ EnableUnit \/ WipeData
  <2>1. prep' \in Preparation
    BY <1>17 DEF Upload, EnableUnit, WipeData, Step, Preparation
  <2>2. Empty \in 0..MaxWrites + 1 /\ prep.seed \in 0..MaxWrites + 1
    BY DEF Preparation, Empty
  <2>3. disk' \in Disk
    BY <1>17, <2>2 DEF Upload, EnableUnit, WipeData, Disk
  <2> QED
    BY <1>17, <2>1, <2>3 DEF Upload, EnableUnit, WipeData
<1>18. CASE MoveManifests
  <2>1. NoManifests \in Manifest
    BY DEF NoManifests, Manifest
  <2>2. [m \in Manifests |-> IF disk.staged[m] = None THEN disk.live[m] ELSE disk.staged[m]]
          \in Manifest
    BY DEF Disk, Manifest
  <2>3. disk' \in Disk
    BY <1>18, <2>1, <2>2 DEF MoveManifests, Disk
  <2> QED
    BY <1>18, <2>3, EndsPrepared DEF MoveManifests
<1>19. CASE ExportBegins
  BY <1>19 DEF ExportBegins, Bundle
<1>20. ASSUME NEW f \in Formats, ConvertDisk(f) PROVE BuildTypes'
  BY <1>20 DEF ConvertDisk, Exporting, Packs, Bundle
<1>21. CASE writeOVA \/ writeGCPTar \/ CopyFiles
  BY <1>21 DEF writeOVA, writeGCPTar, Packed, CopyFiles, Exporting, Bundle
<1>22. CASE ExportFails
  BY <1>22 DEF ExportFails, Bundle
<1>23. CASE RemoveBundle \/ Deliver
  BY <1>23 DEF RemoveBundle, Deliver
<1>24. CASE UNCHANGED buildVars
  BY <1>24 DEF buildVars
<1> QED
  BY <1>1, <1>2, <1>3, <1>4, <1>5, <1>6, <1>7, <1>8, <1>9, <1>10, <1>11, <1>12, <1>13,
     <1>14, <1>15, <1>16, <1>17, <1>18, <1>19, <1>20, <1>21, <1>22, <1>23, <1>24
     DEF Next, BuildNext, Cluster, Stage, Prepare, Export, vars
--------------------------------------------------------------------------------
(* The parts of the invariant *)

\* StartVM and StopVM wait for a prepare-export, Begin for the VM, and the
\* offline half begins with the stop.
LEMMA PrepareOrderStep == BuildTypes /\ PrepareOrder /\ [Next]_vars => PrepareOrder'
<1> SUFFICES ASSUME BuildTypes, PrepareOrder, [Next]_vars PROVE PrepareOrder'
  OBVIOUS
<1> USE DEF BuildTypes, PrepareOrder, Customizing, Disk, Preparation
<1>1. ASSUME NEW api \in BOOLEAN, Build(api) PROVE PrepareOrder'
  BY <1>1 DEF Build, NewDisk
<1>2. CASE TeardownBuild
  BY <1>2 DEF TeardownBuild, NewDisk, Idle
<1>3. CASE StartVM
  BY <1>3 DEF StartVM
<1>4. CASE StopVM
  BY <1>4 DEF StopVM
<1>5. CASE Write
  BY <1>5 DEF Write, Answers
<1>6. CASE EditGateway
  BY <1>6 DEF EditGateway, Answers
<1>7. CASE InstallPlatform
  BY <1>7 DEF InstallPlatform, Answers
<1>8. ASSUME NEW s \in Stagers, NEW m \in Manifests, NEW c \in Contents,
             NEW v \in {"add", "replace"}, ReadStaged(s, v, m, c)
      PROVE PrepareOrder'
  BY <1>8 DEF ReadStaged
<1>9. ASSUME NEW s \in Stagers, NEW m \in Manifests, ReadStaged(s, "rm", m, None)
      PROVE PrepareOrder'
  BY <1>9 DEF ReadStaged
<1>10. ASSUME NEW s \in Stagers, WriteStaged(s) PROVE PrepareOrder'
  BY <1>10 DEF WriteStaged, Holding
<1>11. CASE Begin
  BY <1>11 DEF Begin, Idle
<1>12. CASE ListHints
  BY <1>12, EndsPrepared DEF ListHints, Answers, At, Step
<1>13. CASE PatchHint
  BY <1>13, EndsPrepared DEF PatchHint, Answers, At
<1>14. CASE FetchGateways
  BY <1>14, EndsPrepared DEF FetchGateways, Answers, At
<1>15. CASE FetchRoutes
  BY <1>15, EndsPrepared DEF FetchRoutes, Answers, At, Step
<1>16. CASE StopForOffline
  BY <1>16 DEF StopForOffline, At, Step
<1>17. CASE BuildSeed
  BY <1>17 DEF BuildSeed, At
<1>18. CASE SeedFails
  BY <1>18, EndsPrepared DEF SeedFails, At
<1>19. CASE Upload
  BY <1>19 DEF Upload, At, Step
<1>20. CASE EnableUnit
  BY <1>20 DEF EnableUnit, At, Step
<1>21. CASE WipeData
  BY <1>21 DEF WipeData, At, Step
<1>22. CASE MoveManifests
  BY <1>22, EndsPrepared DEF MoveManifests, At
<1>23. CASE PrepareEnds
  BY <1>23, EndsPrepared DEF PrepareEnds
<1>24. CASE ExportBegins
  BY <1>24 DEF ExportBegins
<1>25. ASSUME NEW f \in Formats, ConvertDisk(f) PROVE PrepareOrder'
  BY <1>25 DEF ConvertDisk, Exporting, Packs
<1>26. CASE writeOVA \/ writeGCPTar
  BY <1>26 DEF writeOVA, writeGCPTar, Packed, Exporting
<1>27. CASE CopyFiles
  BY <1>27 DEF CopyFiles, Exporting
<1>28. CASE ExportFails
  BY <1>28 DEF ExportFails
<1>29. CASE RemoveBundle
  BY <1>29 DEF RemoveBundle
<1>30. CASE Deliver
  BY <1>30 DEF Deliver
<1>31. CASE UNCHANGED buildVars
  BY <1>31 DEF buildVars
<1> QED
  BY <1>1, <1>2, <1>3, <1>4, <1>5, <1>6, <1>7, <1>8, <1>9, <1>10, <1>11, <1>12, <1>13,
     <1>14, <1>15, <1>16, <1>17, <1>18, <1>19, <1>20, <1>21, <1>22, <1>23, <1>24, <1>25, <1>26,
     <1>27, <1>28, <1>29, <1>30, <1>31
     DEF Next, BuildNext, Cluster, Stage, Prepare, Export, vars

\* WriteStaged is the only step that stages, and it ends its command.
LEMMA AsReadStep == BuildTypes /\ StagedAsRead /\ [Next]_vars => StagedAsRead'
<1> SUFFICES ASSUME BuildTypes, StagedAsRead, [Next]_vars PROVE StagedAsRead'
  OBVIOUS
<1> USE DEF BuildTypes, StagedAsRead, Disk, Command, Manifest, NoCommand, NoManifests
<1>1. ASSUME NEW api \in BOOLEAN, Build(api) PROVE StagedAsRead'
  BY <1>1 DEF Build, NewDisk
<1>2. CASE TeardownBuild
  BY <1>2 DEF TeardownBuild, NewDisk, Idle
<1>3. CASE StartVM
  BY <1>3 DEF StartVM
<1>4. CASE StopVM
  BY <1>4 DEF StopVM
<1>5. CASE Write
  BY <1>5 DEF Write, Answers
<1>6. CASE EditGateway
  BY <1>6 DEF EditGateway, Answers
<1>7. CASE InstallPlatform
  BY <1>7 DEF InstallPlatform, Answers
<1>8. ASSUME NEW s \in Stagers, NEW m \in Manifests, NEW c \in Contents,
             NEW v \in {"add", "replace"}, ReadStaged(s, v, m, c)
      PROVE StagedAsRead'
  <2> SUFFICES ASSUME OneAtATime PROVE StagedAsRead'
    BY DEF OneAtATime
  <2>1. /\ staging'[s].verb = v /\ staging'[s].name = m
        /\ v = "add" => disk.staged[m] = None
    BY <1>8 DEF ReadStaged, readStagedManifest, Stages
  <2>2. disk' = disk
    BY <1>8 DEF ReadStaged
  <2> QED
    BY <2>1, <2>2 DEF OneAtATime
<1>9. ASSUME NEW s \in Stagers, NEW m \in Manifests, ReadStaged(s, "rm", m, None)
      PROVE StagedAsRead'
  <2>1. staging'[s].verb = "rm" /\ staging'[s].data = None
    BY <1>9 DEF ReadStaged
  <2> QED
    BY <2>1 DEF OneAtATime
<1>10. ASSUME NEW s \in Stagers, WriteStaged(s) PROVE StagedAsRead'
  <2>1. staging'[s] = NoCommand
    BY <1>10 DEF WriteStaged
  <2> QED
    BY <2>1 DEF OneAtATime
<1>11. CASE Begin
  BY <1>11 DEF Begin, Idle
<1>12. CASE ListHints
  BY <1>12, EndsPrepared DEF ListHints, Answers, At, Step
<1>13. CASE PatchHint
  BY <1>13, EndsPrepared DEF PatchHint, Answers, At
<1>14. CASE FetchGateways
  BY <1>14, EndsPrepared DEF FetchGateways, Answers, At
<1>15. CASE FetchRoutes
  BY <1>15, EndsPrepared DEF FetchRoutes, Answers, At, Step
<1>16. CASE StopForOffline
  BY <1>16 DEF StopForOffline, At, Step
<1>17. CASE BuildSeed
  BY <1>17 DEF BuildSeed, At
<1>18. CASE SeedFails
  BY <1>18, EndsPrepared DEF SeedFails, At
<1>19. CASE Upload
  BY <1>19 DEF Upload, At, Step
<1>20. CASE EnableUnit
  BY <1>20 DEF EnableUnit, At, Step
<1>21. CASE WipeData
  BY <1>21 DEF WipeData, At, Step
<1>22. CASE MoveManifests
  BY <1>22, EndsPrepared DEF MoveManifests, At
<1>23. CASE PrepareEnds
  BY <1>23, EndsPrepared DEF PrepareEnds
<1>24. CASE ExportBegins
  BY <1>24 DEF ExportBegins
<1>25. ASSUME NEW f \in Formats, ConvertDisk(f) PROVE StagedAsRead'
  BY <1>25 DEF ConvertDisk, Exporting, Packs
<1>26. CASE writeOVA \/ writeGCPTar
  BY <1>26 DEF writeOVA, writeGCPTar, Packed, Exporting
<1>27. CASE CopyFiles
  BY <1>27 DEF CopyFiles, Exporting
<1>28. CASE ExportFails
  BY <1>28 DEF ExportFails
<1>29. CASE RemoveBundle
  BY <1>29 DEF RemoveBundle
<1>30. CASE Deliver
  BY <1>30 DEF Deliver
<1>31. CASE UNCHANGED buildVars
  BY <1>31 DEF buildVars
<1> QED
  BY <1>1, <1>2, <1>3, <1>4, <1>5, <1>6, <1>7, <1>8, <1>9, <1>10, <1>11, <1>12, <1>13,
     <1>14, <1>15, <1>16, <1>17, <1>18, <1>19, <1>20, <1>21, <1>22, <1>23, <1>24, <1>25, <1>26,
     <1>27, <1>28, <1>29, <1>30, <1>31
     DEF Next, BuildNext, Cluster, Stage, Prepare, Export, vars

\* WriteStaged and MoveManifests change what is staged, and both account for
\* what it was.
LEMMA WantedStep == BuildTypes /\ PrepareOrder /\ WantedKept /\ [Next]_vars => WantedKept'
<1> SUFFICES ASSUME BuildTypes, PrepareOrder, WantedKept, [Next]_vars PROVE WantedKept'
  OBVIOUS
<1> USE DEF BuildTypes, PrepareOrder, WantedKept, Disk, Command, Manifest, NoCommand, NoManifests
<1>1. ASSUME NEW api \in BOOLEAN, Build(api) PROVE WantedKept'
  BY <1>1 DEF Build, NewDisk
<1>2. CASE TeardownBuild
  BY <1>2 DEF TeardownBuild, NewDisk, Idle
<1>3. CASE StartVM
  BY <1>3 DEF StartVM
<1>4. CASE StopVM
  BY <1>4 DEF StopVM
<1>5. CASE Write
  BY <1>5 DEF Write, Answers
<1>6. CASE EditGateway
  BY <1>6 DEF EditGateway, Answers
<1>7. CASE InstallPlatform
  BY <1>7 DEF InstallPlatform, Answers
<1>8. ASSUME NEW s \in Stagers, NEW m \in Manifests, NEW c \in Contents,
             NEW v \in {"add", "replace"}, ReadStaged(s, v, m, c)
      PROVE WantedKept'
  BY <1>8 DEF ReadStaged
<1>9. ASSUME NEW s \in Stagers, NEW m \in Manifests, ReadStaged(s, "rm", m, None)
      PROVE WantedKept'
  BY <1>9 DEF ReadStaged
<1>10. ASSUME NEW s \in Stagers, WriteStaged(s) PROVE WantedKept'
  <2>1. CASE disk' = disk
    BY <1>10, <2>1 DEF WriteStaged
  <2>2. ASSUME NEW n \in Manifests, NEW c \in Contents \cup {None, Half}, vm = "up",
               disk' = Holding(n, c)
        PROVE  WantedKept'
    <3>1. disk'.live = disk.live
      BY <2>2 DEF Holding
    <3>2. ASSUME NEW m \in Manifests
          PROVE  /\ disk'.staged[m] = IF m = n THEN c ELSE disk.staged[m]
                 /\ disk'.wanted[m] = IF m # n THEN disk.wanted[m]
                                      ELSE IF c = None THEN disk.live[m] ELSE c
      BY <2>2 DEF Holding
    <3>3. ~prepared'
      BY <1>10, <2>2 DEF WriteStaged
    <3> QED
      BY <3>1, <3>2, <3>3
  <2> QED
    BY <1>10, <2>1, <2>2, Written
<1>11. CASE Begin
  BY <1>11 DEF Begin, Idle
<1>12. CASE ListHints
  BY <1>12, EndsPrepared DEF ListHints, Answers, At, Step
<1>13. CASE PatchHint
  BY <1>13, EndsPrepared DEF PatchHint, Answers, At
<1>14. CASE FetchGateways
  BY <1>14, EndsPrepared DEF FetchGateways, Answers, At
<1>15. CASE FetchRoutes
  BY <1>15, EndsPrepared DEF FetchRoutes, Answers, At, Step
<1>16. CASE StopForOffline
  BY <1>16 DEF StopForOffline, At, Step
<1>17. CASE BuildSeed
  BY <1>17 DEF BuildSeed, At
<1>18. CASE SeedFails
  BY <1>18, EndsPrepared DEF SeedFails, At
<1>19. CASE Upload
  BY <1>19 DEF Upload, At, Step
<1>20. CASE EnableUnit
  BY <1>20 DEF EnableUnit, At, Step
<1>21. CASE WipeData
  BY <1>21 DEF WipeData, At, Step
<1>22. CASE MoveManifests
  BY <1>22, EndsPrepared DEF MoveManifests, At
<1>23. CASE PrepareEnds
  BY <1>23, EndsPrepared DEF PrepareEnds
<1>24. CASE ExportBegins
  BY <1>24 DEF ExportBegins
<1>25. ASSUME NEW f \in Formats, ConvertDisk(f) PROVE WantedKept'
  BY <1>25 DEF ConvertDisk, Exporting, Packs
<1>26. CASE writeOVA \/ writeGCPTar
  BY <1>26 DEF writeOVA, writeGCPTar, Packed, Exporting
<1>27. CASE CopyFiles
  BY <1>27 DEF CopyFiles, Exporting
<1>28. CASE ExportFails
  BY <1>28 DEF ExportFails
<1>29. CASE RemoveBundle
  BY <1>29 DEF RemoveBundle
<1>30. CASE Deliver
  BY <1>30 DEF Deliver
<1>31. CASE UNCHANGED buildVars
  BY <1>31 DEF buildVars
<1> QED
  BY <1>1, <1>2, <1>3, <1>4, <1>5, <1>6, <1>7, <1>8, <1>9, <1>10, <1>11, <1>12, <1>13,
     <1>14, <1>15, <1>16, <1>17, <1>18, <1>19, <1>20, <1>21, <1>22, <1>23, <1>24, <1>25, <1>26,
     <1>27, <1>28, <1>29, <1>30, <1>31
     DEF Next, BuildNext, Cluster, Stage, Prepare, Export, vars

\* platform install waits for a prepare-export; the listing finds every hint.
LEMMA HintsStep == BuildTypes /\ PrepareOrder /\ HintsCleared /\ [Next]_vars => HintsCleared'
<1> SUFFICES ASSUME BuildTypes, PrepareOrder, HintsCleared, [Next]_vars PROVE HintsCleared'
  OBVIOUS
<1> USE DEF BuildTypes, PrepareOrder, HintsCleared, Customizing, Disk, Preparation
<1>1. ASSUME NEW api \in BOOLEAN, Build(api) PROVE HintsCleared'
  BY <1>1 DEF Build, NewDisk
<1>2. CASE TeardownBuild
  BY <1>2 DEF TeardownBuild, NewDisk, Idle
<1>3. CASE StartVM
  BY <1>3 DEF StartVM
<1>4. CASE StopVM
  BY <1>4 DEF StopVM
<1>5. CASE Write
  BY <1>5 DEF Write, Answers
<1>6. CASE EditGateway
  BY <1>6 DEF EditGateway, Answers
<1>7. CASE InstallPlatform
  BY <1>7 DEF InstallPlatform, Answers
<1>8. ASSUME NEW s \in Stagers, NEW m \in Manifests, NEW c \in Contents,
             NEW v \in {"add", "replace"}, ReadStaged(s, v, m, c)
      PROVE HintsCleared'
  BY <1>8 DEF ReadStaged
<1>9. ASSUME NEW s \in Stagers, NEW m \in Manifests, ReadStaged(s, "rm", m, None)
      PROVE HintsCleared'
  BY <1>9 DEF ReadStaged
<1>10. ASSUME NEW s \in Stagers, WriteStaged(s) PROVE HintsCleared'
  BY <1>10 DEF WriteStaged, Holding
<1>11. CASE Begin
  BY <1>11 DEF Begin, Idle
<1>12. CASE ListHints
  BY <1>12, EndsPrepared DEF ListHints, Answers, At, Step
<1>13. CASE PatchHint
  BY <1>13, EndsPrepared DEF PatchHint, Answers, At
<1>14. CASE FetchGateways
  BY <1>14, EndsPrepared DEF FetchGateways, Answers, At
<1>15. CASE FetchRoutes
  BY <1>15, EndsPrepared DEF FetchRoutes, Answers, At, Step
<1>16. CASE StopForOffline
  BY <1>16 DEF StopForOffline, At, Step
<1>17. CASE BuildSeed
  BY <1>17 DEF BuildSeed, At
<1>18. CASE SeedFails
  BY <1>18, EndsPrepared DEF SeedFails, At
<1>19. CASE Upload
  BY <1>19 DEF Upload, At, Step
<1>20. CASE EnableUnit
  BY <1>20 DEF EnableUnit, At, Step
<1>21. CASE WipeData
  BY <1>21 DEF WipeData, At, Step
<1>22. CASE MoveManifests
  BY <1>22, EndsPrepared DEF MoveManifests, At
<1>23. CASE PrepareEnds
  BY <1>23, EndsPrepared DEF PrepareEnds
<1>24. CASE ExportBegins
  BY <1>24 DEF ExportBegins
<1>25. ASSUME NEW f \in Formats, ConvertDisk(f) PROVE HintsCleared'
  BY <1>25 DEF ConvertDisk, Exporting, Packs
<1>26. CASE writeOVA \/ writeGCPTar
  BY <1>26 DEF writeOVA, writeGCPTar, Packed, Exporting
<1>27. CASE CopyFiles
  BY <1>27 DEF CopyFiles, Exporting
<1>28. CASE ExportFails
  BY <1>28 DEF ExportFails
<1>29. CASE RemoveBundle
  BY <1>29 DEF RemoveBundle
<1>30. CASE Deliver
  BY <1>30 DEF Deliver
<1>31. CASE UNCHANGED buildVars
  BY <1>31 DEF buildVars
<1> QED
  BY <1>1, <1>2, <1>3, <1>4, <1>5, <1>6, <1>7, <1>8, <1>9, <1>10, <1>11, <1>12, <1>13,
     <1>14, <1>15, <1>16, <1>17, <1>18, <1>19, <1>20, <1>21, <1>22, <1>23, <1>24, <1>25, <1>26,
     <1>27, <1>28, <1>29, <1>30, <1>31
     DEF Next, BuildNext, Cluster, Stage, Prepare, Export, vars

\* Workloads write only on a disk without the unit, and the steps of the offline
\* half follow each other on a disk nobody else touches.
LEMMA SeedStep == BuildTypes /\ PrepareOrder /\ SeedKept /\ [Next]_vars => SeedKept'
<1> SUFFICES ASSUME BuildTypes, PrepareOrder, SeedKept, [Next]_vars PROVE SeedKept'
  OBVIOUS
<1> USE DEF BuildTypes, PrepareOrder, SeedKept, SeedWhole, NoDir, Empty, Customizing, Disk, Preparation
<1>1. ASSUME NEW api \in BOOLEAN, Build(api) PROVE SeedKept'
  BY <1>1 DEF Build, NewDisk
<1>2. CASE TeardownBuild
  BY <1>2 DEF TeardownBuild, NewDisk, Idle
<1>3. CASE StartVM
  BY <1>3 DEF StartVM
<1>4. CASE StopVM
  BY <1>4 DEF StopVM
<1>5. CASE Write
  BY <1>5 DEF Write, Answers
<1>6. CASE EditGateway
  BY <1>6 DEF EditGateway, Answers
<1>7. CASE InstallPlatform
  BY <1>7 DEF InstallPlatform, Answers
<1>8. ASSUME NEW s \in Stagers, NEW m \in Manifests, NEW c \in Contents,
             NEW v \in {"add", "replace"}, ReadStaged(s, v, m, c)
      PROVE SeedKept'
  BY <1>8 DEF ReadStaged
<1>9. ASSUME NEW s \in Stagers, NEW m \in Manifests, ReadStaged(s, "rm", m, None)
      PROVE SeedKept'
  BY <1>9 DEF ReadStaged
<1>10. ASSUME NEW s \in Stagers, WriteStaged(s) PROVE SeedKept'
  <2>1. disk'.data = disk.data /\ disk'.seed = disk.seed
        /\ disk'.unit = disk.unit /\ disk'.writes = disk.writes
    BY <1>10 DEF WriteStaged, Holding
  <2> QED
    BY <1>10, <2>1 DEF WriteStaged
<1>11. CASE Begin
  BY <1>11 DEF Begin, Idle
<1>12. CASE ListHints
  BY <1>12, EndsPrepared DEF ListHints, Answers, At, Step
<1>13. CASE PatchHint
  BY <1>13, EndsPrepared DEF PatchHint, Answers, At
<1>14. CASE FetchGateways
  BY <1>14, EndsPrepared DEF FetchGateways, Answers, At
<1>15. CASE FetchRoutes
  BY <1>15, EndsPrepared DEF FetchRoutes, Answers, At, Step
<1>16. CASE StopForOffline
  BY <1>16 DEF StopForOffline, At, Step
<1>17. CASE BuildSeed
  BY <1>17 DEF BuildSeed, At
<1>18. CASE SeedFails
  BY <1>18, EndsPrepared DEF SeedFails, At
<1>19. CASE Upload
  BY <1>19 DEF Upload, At, Step
<1>20. CASE EnableUnit
  BY <1>20 DEF EnableUnit, At, Step
<1>21. CASE WipeData
  BY <1>21 DEF WipeData, At, Step
<1>22. CASE MoveManifests
  BY <1>22, EndsPrepared DEF MoveManifests, At
<1>23. CASE PrepareEnds
  BY <1>23, EndsPrepared DEF PrepareEnds
<1>24. CASE ExportBegins
  BY <1>24 DEF ExportBegins
<1>25. ASSUME NEW f \in Formats, ConvertDisk(f) PROVE SeedKept'
  BY <1>25 DEF ConvertDisk, Exporting, Packs
<1>26. CASE writeOVA \/ writeGCPTar
  BY <1>26 DEF writeOVA, writeGCPTar, Packed, Exporting
<1>27. CASE CopyFiles
  BY <1>27 DEF CopyFiles, Exporting
<1>28. CASE ExportFails
  BY <1>28 DEF ExportFails
<1>29. CASE RemoveBundle
  BY <1>29 DEF RemoveBundle
<1>30. CASE Deliver
  BY <1>30 DEF Deliver
<1>31. CASE UNCHANGED buildVars
  BY <1>31 DEF buildVars
<1> QED
  BY <1>1, <1>2, <1>3, <1>4, <1>5, <1>6, <1>7, <1>8, <1>9, <1>10, <1>11, <1>12, <1>13,
     <1>14, <1>15, <1>16, <1>17, <1>18, <1>19, <1>20, <1>21, <1>22, <1>23, <1>24, <1>25, <1>26,
     <1>27, <1>28, <1>29, <1>30, <1>31
     DEF Next, BuildNext, Cluster, Stage, Prepare, Export, vars

\* FetchRoutes writes the record of what FetchGateways saw; teardown removes it.
LEMMA RecordStep ==
    BuildTypes /\ PrepareOrder /\ HintsCleared /\ RecordOfRun /\ [Next]_vars => RecordOfRun'
<1> SUFFICES ASSUME BuildTypes, PrepareOrder, HintsCleared, RecordOfRun, [Next]_vars PROVE RecordOfRun'
  OBVIOUS
<1> USE DEF BuildTypes, PrepareOrder, HintsCleared, RecordOfRun, Recorded, Customizing, Disk, Preparation, Record
<1>1. ASSUME NEW api \in BOOLEAN, Build(api) PROVE RecordOfRun'
  BY <1>1 DEF Build, NewDisk
<1>2. CASE TeardownBuild
  BY <1>2 DEF TeardownBuild, NewDisk, Idle
<1>3. CASE StartVM
  BY <1>3 DEF StartVM
<1>4. CASE StopVM
  BY <1>4 DEF StopVM
<1>5. CASE Write
  BY <1>5 DEF Write, Answers
<1>6. CASE EditGateway
  BY <1>6 DEF EditGateway, Answers
<1>7. CASE InstallPlatform
  BY <1>7 DEF InstallPlatform, Answers
<1>8. ASSUME NEW s \in Stagers, NEW m \in Manifests, NEW c \in Contents,
             NEW v \in {"add", "replace"}, ReadStaged(s, v, m, c)
      PROVE RecordOfRun'
  BY <1>8 DEF ReadStaged
<1>9. ASSUME NEW s \in Stagers, NEW m \in Manifests, ReadStaged(s, "rm", m, None)
      PROVE RecordOfRun'
  BY <1>9 DEF ReadStaged
<1>10. ASSUME NEW s \in Stagers, WriteStaged(s) PROVE RecordOfRun'
  BY <1>10 DEF WriteStaged, Holding
<1>11. CASE Begin
  BY <1>11 DEF Begin, Idle
<1>12. CASE ListHints
  <2>1. /\ UNCHANGED <<release, vm, disk, record, prepared>>
        /\ prep.pc = "list" /\ prep'.from = prep.from
        /\ prep'.pc \in {"idle", "stop", "patch"}
        /\ prep'.pc = "stop" => ~disk.api
        /\ prep'.pc = "patch" => disk.api
    BY <1>12, EndsPrepared DEF ListHints, At, Step
  <2> QED
    BY <2>1
<1>13. CASE PatchHint
  BY <1>13, EndsPrepared DEF PatchHint, Answers, At
<1>14. CASE FetchGateways
  <2>1. CASE ~Answers
    BY <1>14, <2>1, EndsPrepared DEF FetchGateways
  <2>2. CASE Answers
    <3>1. /\ disk' = disk /\ release' = release /\ vm' = vm /\ record' = record
          /\ vm = "up" /\ prepared' = prepared
          /\ prep'.pc = "fetch" /\ prep'.from = prep.from /\ prep'.seen = disk.edits
      BY <1>14, <2>2 DEF FetchGateways, Answers
    <3>2. disk.api /\ prep.from <= disk.edits /\ disk.edits \in Nat /\ ~prepared
      BY <1>14 DEF FetchGateways, At
    <3> QED
      BY <3>1, <3>2
  <2> QED
    BY <2>1, <2>2
<1>15. CASE FetchRoutes
  <2>1. CASE ~Answers
    BY <1>15, <2>1, EndsPrepared DEF FetchRoutes
  <2>2. CASE Answers
    <3>1. /\ disk' = disk /\ release' = release /\ vm' = vm /\ vm = "up"
          /\ prep'.pc = "stop" /\ prep'.from = prep.from
          /\ record' = [release |-> disk.release, hints |-> disk.hints,
                         gateways |-> prep.seen, routes |-> disk.edits]
      BY <1>15, <2>2 DEF FetchRoutes, Answers, Step
    <3>2. record' \in Record
      BY <3>1
    <3>3. /\ disk.hints = {} /\ disk.release = release
          /\ prep.from <= prep.seen /\ prep.seen <= disk.edits
      BY <1>15 DEF FetchRoutes, At
    <3> QED
      BY <3>1, <3>2, <3>3, RecordAssumption
  <2> QED
    BY <2>1, <2>2
<1>16. CASE StopForOffline
  BY <1>16 DEF StopForOffline, At, Step
<1>17. CASE BuildSeed
  BY <1>17 DEF BuildSeed, At
<1>18. CASE SeedFails
  BY <1>18, EndsPrepared DEF SeedFails, At
<1>19. CASE Upload
  BY <1>19 DEF Upload, At, Step
<1>20. CASE EnableUnit
  BY <1>20 DEF EnableUnit, At, Step
<1>21. CASE WipeData
  BY <1>21 DEF WipeData, At, Step
<1>22. CASE MoveManifests
  BY <1>22, EndsPrepared DEF MoveManifests, At
<1>23. CASE PrepareEnds
  BY <1>23, EndsPrepared DEF PrepareEnds
<1>24. CASE ExportBegins
  BY <1>24 DEF ExportBegins
<1>25. ASSUME NEW f \in Formats, ConvertDisk(f) PROVE RecordOfRun'
  BY <1>25 DEF ConvertDisk, Exporting, Packs
<1>26. CASE writeOVA \/ writeGCPTar
  BY <1>26 DEF writeOVA, writeGCPTar, Packed, Exporting
<1>27. CASE CopyFiles
  BY <1>27 DEF CopyFiles, Exporting
<1>28. CASE ExportFails
  BY <1>28 DEF ExportFails
<1>29. CASE RemoveBundle
  BY <1>29 DEF RemoveBundle
<1>30. CASE Deliver
  BY <1>30 DEF Deliver
<1>31. CASE UNCHANGED buildVars
  BY <1>31 DEF buildVars
<1> QED
  BY <1>1, <1>2, <1>3, <1>4, <1>5, <1>6, <1>7, <1>8, <1>9, <1>10, <1>11, <1>12, <1>13,
     <1>14, <1>15, <1>16, <1>17, <1>18, <1>19, <1>20, <1>21, <1>22, <1>23, <1>24, <1>25, <1>26,
     <1>27, <1>28, <1>29, <1>30, <1>31
     DEF Next, BuildNext, Cluster, Stage, Prepare, Export, vars

--------------------------------------------------------------------------------
(* The bundle *)

LEMMA PreparedClean ==
    ASSUME BuildTypes, BuildInv, prepared PROVE Clean(disk) /\ SeedWhole(disk)
<1>1. disk.hints = {} /\ disk.data = Empty /\ SeedWhole(disk)
  BY DEF BuildInv, HintsCleared, SeedKept
<1>2. disk.staged = NoManifests
  BY DEF BuildInv, WantedKept
<1>3. disk.live = disk.wanted
  <2>1. ASSUME NEW m \in Manifests PROVE disk.live[m] = disk.wanted[m]
    BY <1>2, <2>1 DEF BuildInv, WantedKept, NoManifests
  <2>2. disk.live \in Manifest /\ disk.wanted \in Manifest
    BY DEF BuildTypes, Disk
  <2> QED
    BY <2>1, <2>2 DEF Manifest
<1> QED
  BY <1>1, <1>2, <1>3 DEF Clean

\* A conversion reads the disk once; what becomes of the disk then is no matter
\* to the bundle.
LEMMA BundleStep == BuildTypes /\ BuildInv /\ [Next]_vars => BundleTrue'
<1> SUFFICES ASSUME BuildTypes, BuildInv, [Next]_vars PROVE BundleTrue'
  OBVIOUS
<1> USE DEF BuildTypes, PrepareOrder, BuildInv, BundleTrue, RecordOfRun, Disk, Bundle, Record
<1>1. ASSUME NEW api \in BOOLEAN, Build(api) PROVE BundleTrue'
  BY <1>1 DEF Build, NewDisk
<1>2. CASE TeardownBuild
  BY <1>2 DEF TeardownBuild, NewDisk, Idle
<1>3. CASE StartVM
  BY <1>3 DEF StartVM
<1>4. CASE StopVM
  BY <1>4 DEF StopVM
<1>5. CASE Write
  BY <1>5 DEF Write, Answers
<1>6. CASE EditGateway
  BY <1>6 DEF EditGateway, Answers
<1>7. CASE InstallPlatform
  BY <1>7 DEF InstallPlatform, Answers
<1>8. ASSUME NEW s \in Stagers, NEW m \in Manifests, NEW c \in Contents,
             NEW v \in {"add", "replace"}, ReadStaged(s, v, m, c)
      PROVE BundleTrue'
  BY <1>8 DEF ReadStaged
<1>9. ASSUME NEW s \in Stagers, NEW m \in Manifests, ReadStaged(s, "rm", m, None)
      PROVE BundleTrue'
  BY <1>9 DEF ReadStaged
<1>10. ASSUME NEW s \in Stagers, WriteStaged(s) PROVE BundleTrue'
  BY <1>10 DEF WriteStaged, Holding
<1>11. CASE Begin
  BY <1>11 DEF Begin, Idle
<1>12. CASE ListHints
  BY <1>12, EndsPrepared DEF ListHints, Answers, At, Step
<1>13. CASE PatchHint
  BY <1>13, EndsPrepared DEF PatchHint, Answers, At
<1>14. CASE FetchGateways
  BY <1>14, EndsPrepared DEF FetchGateways, Answers, At
<1>15. CASE FetchRoutes
  BY <1>15, EndsPrepared DEF FetchRoutes, Answers, At, Step
<1>16. CASE StopForOffline
  BY <1>16 DEF StopForOffline, At, Step
<1>17. CASE BuildSeed
  BY <1>17 DEF BuildSeed, At
<1>18. CASE SeedFails
  BY <1>18, EndsPrepared DEF SeedFails, At
<1>19. CASE Upload
  BY <1>19 DEF Upload, At, Step
<1>20. CASE EnableUnit
  BY <1>20 DEF EnableUnit, At, Step
<1>21. CASE WipeData
  BY <1>21 DEF WipeData, At, Step
<1>22. CASE MoveManifests
  BY <1>22, EndsPrepared DEF MoveManifests, At
<1>23. CASE PrepareEnds
  BY <1>23, EndsPrepared DEF PrepareEnds
<1>24. CASE ExportBegins
  BY <1>24 DEF ExportBegins
<1>25. ASSUME NEW f \in Formats, ConvertDisk(f) PROVE BundleTrue'
  <2>1. bundle \in Bundle /\ bundle.pc = "convert"
    BY <1>25 DEF ConvertDisk, Exporting
  <2>2. /\ bundle'.pc \in {"keys", "ova", "gcp-tar"}
        /\ bundle'.disk = disk /\ bundle'.prepared = prepared
    BY <1>25, <2>1 DEF ConvertDisk, Packs
  <2>3. disk' = disk /\ release' = release
    BY <1>25 DEF ConvertDisk
  <2>4. prepared => Clean(disk) /\ SeedWhole(disk)
    BY PreparedClean
  <2> QED
    BY <2>1, <2>2, <2>3, <2>4
<1>26. CASE writeOVA \/ writeGCPTar
  BY <1>26 DEF writeOVA, writeGCPTar, Packed, Exporting
<1>27. CASE CopyFiles
  BY <1>27 DEF CopyFiles, Exporting
<1>28. CASE ExportFails
  BY <1>28 DEF ExportFails
<1>29. CASE RemoveBundle
  BY <1>29 DEF RemoveBundle
<1>30. CASE Deliver
  BY <1>30 DEF Deliver
<1>31. CASE UNCHANGED buildVars
  BY <1>31 DEF buildVars
<1> QED
  BY <1>1, <1>2, <1>3, <1>4, <1>5, <1>6, <1>7, <1>8, <1>9, <1>10, <1>11, <1>12, <1>13,
     <1>14, <1>15, <1>16, <1>17, <1>18, <1>19, <1>20, <1>21, <1>22, <1>23, <1>24, <1>25, <1>26,
     <1>27, <1>28, <1>29, <1>30, <1>31
     DEF Next, BuildNext, Cluster, Stage, Prepare, Export, vars

--------------------------------------------------------------------------------
(* The invariant *)

LEMMA SupplyBegins == Init => BuildTypes /\ BuildInv
<1> SUFFICES ASSUME Init PROVE BuildTypes /\ BuildInv
  OBVIOUS
<1>0. 0 \in 0..MaxRelease
  BY BuildAssumption
<1>1. /\ release = 0 /\ vm = "gone" /\ disk = NewDisk(0, FALSE) /\ disk \in Disk
      /\ record = None /\ prep = Idle /\ prep \in Preparation /\ prepared = FALSE
      /\ staging = NoneStaging /\ bundle = None
  BY <1>0, NewDiskIsDisk, IdleIsPreparation DEF Init, BuildInit
<1>2. BuildTypes
  BY <1>0, <1>1 DEF BuildTypes, NoneStaging
<1>3. PrepareOrder /\ HintsCleared /\ SeedKept /\ RecordOfRun /\ BundleTrue
  BY <1>1 DEF PrepareOrder, HintsCleared, SeedKept, RecordOfRun, BundleTrue, Customizing,
              NewDisk, Idle, NoDir, Empty
<1>4. StagedAsRead /\ WantedKept
  BY <1>1 DEF StagedAsRead, WantedKept, NoneStaging, NoCommand, NewDisk, NoManifests
<1> QED
  BY <1>2, <1>3, <1>4 DEF BuildInv

LEMMA BuildInvStep == BuildTypes /\ BuildInv /\ [Next]_vars => BuildTypes' /\ BuildInv'
<1> SUFFICES ASSUME BuildTypes, BuildInv, [Next]_vars PROVE BuildTypes' /\ BuildInv'
  OBVIOUS
<1>1. BuildTypes'
  BY BuildTypesStep DEF BuildInv
<1>2. PrepareOrder' /\ StagedAsRead' /\ WantedKept'
  BY PrepareOrderStep, AsReadStep, WantedStep DEF BuildInv
<1>3. HintsCleared' /\ SeedKept' /\ RecordOfRun' /\ BundleTrue'
  BY HintsStep, SeedStep, RecordStep, BundleStep DEF BuildInv
<1> QED
  BY <1>1, <1>2, <1>3 DEF BuildInv

\* The supplier's side of every state, at every step of every prepare-export
\* and export, is what the steps so far have made of it.
THEOREM SupplyIsAccounted == Spec => [](BuildTypes /\ BuildInv)
<1>1. Init => BuildTypes /\ BuildInv
  BY SupplyBegins
<1>2. BuildTypes /\ BuildInv /\ [Next]_vars => (BuildTypes /\ BuildInv)'
  BY BuildInvStep
<1> QED
  BY <1>1, <1>2, PTL DEF Spec

--------------------------------------------------------------------------------
(* Theorems *)

\* Every image, bundle and volume is one the code can make.
THEOREM TypeCorrect == Spec => []TypeOK
<1>1. BuildTypes /\ VolumeInv => TypeOK
  <2> SUFFICES ASSUME BuildTypes, VolumeInv PROVE TypeOK
    OBVIOUS
  <2>1. machine \in Machine /\ dir \in Place /\ volume \in {Nothing} \cup Place
    BY DEF VolumeInv, BootTypes
  <2>2. machine.pc \in Points /\ machine.left \subseteq Files
    BY <2>1 DEF Machine
  <2> QED
    BY <2>1, <2>2 DEF TypeOK, Points
<1> QED
  BY <1>1, SupplyIsAccounted, VolumeIsAccounted, PTL

\* A prepared bundle has no hint of the build host, no build data beside the
\* seed and every manifest as the last command left it, where k3s applies it,
\* also after prepare-exports that failed half way (prepare_export.go,
\* prepare_inguest.sh).
THEOREM ShipsClean == Spec => []ShippedClean
<1>1. BuildInv => ShippedClean
  BY DEF BuildInv, BundleTrue, ShippedClean, Shipped
<1> QED
  BY <1>1, SupplyIsAccounted, PTL

\* The seed of a prepared bundle is everything the workloads wrote, and gated
\* (data_seed.go, BuildSeedAssets).
THEOREM ShipsTheData == Spec => []SeedIsData
<1>1. BuildInv => SeedIsData
  BY DEF BuildInv, BundleTrue, SeedIsData, Shipped
<1> QED
  BY <1>1, SupplyIsAccounted, PTL

\* The record beside a prepared disk is of this cluster and of the
\* prepare-export that succeeded (qemu.go, perVMArtefacts).
THEOREM RecordIsOfThisRun == Spec => []RecordCurrent
<1>1. BuildTypes /\ BuildInv => RecordCurrent
  BY DEF BuildTypes, BuildInv, RecordOfRun, Recorded, BundleTrue, RecordCurrent, Shipped
<1> QED
  BY <1>1, SupplyIsAccounted, PTL

\* Of manifests commands that do not meet, add never writes over a different
\* manifest, whatever the connection does (manifests.go, readStagedManifest).
THEOREM StagesOnce == OneAtATime => (Spec => StagingStrict)
<1> SUFFICES ASSUME OneAtATime PROVE Spec => StagingStrict
  OBVIOUS
<1> DEFINE Replaces(m) == \E s \in Stagers : staging[s].verb = "replace" /\ staging[s].name = m
<1> DEFINE Strict == \A m \in Manifests :
                       /\ disk.staged[m] # None
                       /\ disk'.staged[m] \notin {None, disk.staged[m]}
                       => Replaces(m)
<1>1. BuildTypes /\ BuildInv /\ [Next]_vars => [Strict]_vars
  <2> SUFFICES ASSUME BuildTypes, BuildInv, [Next]_vars, NEW m \in Manifests,
                      disk.staged[m] # None, disk'.staged[m] \notin {None, disk.staged[m]}
               PROVE  Replaces(m)
    OBVIOUS
  <2> USE DEF BuildTypes, Disk, Manifest
  <2>1. ASSUME NEW api \in BOOLEAN, Build(api) PROVE Replaces(m)
    BY <2>1 DEF Build, NewDisk, NoManifests
  <2>2. CASE TeardownBuild
    BY <2>2 DEF TeardownBuild, NewDisk, Idle, NoManifests
  <2>3. CASE StartVM
    BY <2>3 DEF StartVM
  <2>4. CASE StopVM
    BY <2>4 DEF StopVM
  <2>5. CASE Write
    BY <2>5 DEF Write, Answers
  <2>6. CASE EditGateway
    BY <2>6 DEF EditGateway, Answers
  <2>7. CASE InstallPlatform
    BY <2>7 DEF InstallPlatform, Answers
  <2>8. ASSUME NEW s \in Stagers, NEW n \in Manifests, NEW c \in Contents,
               NEW v \in {"add", "replace"}, ReadStaged(s, v, n, c)
        PROVE Replaces(m)
    BY <2>8 DEF ReadStaged
  <2>9. ASSUME NEW s \in Stagers, NEW n \in Manifests, ReadStaged(s, "rm", n, None)
        PROVE Replaces(m)
    BY <2>9 DEF ReadStaged
  <2>10. ASSUME NEW s \in Stagers, WriteStaged(s) PROVE Replaces(m)
    <3>1. PICK c \in Contents \cup {None, Half} :
            disk' = Holding(staging[s].name, c) /\ (c = None <=> staging[s].data = None)
      BY <2>10, Written
    <3>2. disk'.staged = [disk.staged EXCEPT ![staging[s].name] = c]
      BY <3>1 DEF Holding
    <3>3. m = staging[s].name /\ c # None
      BY <2>10, <3>2, Written
    <3> QED
      BY <2>10, <3>1, <3>3, Written DEF BuildInv, StagedAsRead
  <2>11. CASE Begin
    BY <2>11 DEF Begin, Idle
  <2>12. CASE ListHints
    BY <2>12 DEF ListHints, Answers, At, Step
  <2>13. CASE PatchHint
    BY <2>13 DEF PatchHint, Answers, At
  <2>14. CASE FetchGateways
    BY <2>14 DEF FetchGateways, Answers, At
  <2>15. CASE FetchRoutes
    BY <2>15 DEF FetchRoutes, Answers, At, Step
  <2>16. CASE StopForOffline
    BY <2>16 DEF StopForOffline, At, Step
  <2>17. CASE BuildSeed
    BY <2>17 DEF BuildSeed, At
  <2>18. CASE SeedFails
    BY <2>18 DEF SeedFails, At
  <2>19. CASE Upload
    BY <2>19 DEF Upload, At, Step
  <2>20. CASE EnableUnit
    BY <2>20 DEF EnableUnit, At, Step
  <2>21. CASE WipeData
    BY <2>21 DEF WipeData, At, Step
  <2>22. CASE MoveManifests
    BY <2>22 DEF MoveManifests, At, NoManifests
  <2>23. CASE PrepareEnds
    BY <2>23 DEF PrepareEnds
  <2>24. CASE ExportBegins
    BY <2>24 DEF ExportBegins
  <2>25. ASSUME NEW f \in Formats, ConvertDisk(f) PROVE Replaces(m)
    BY <2>25 DEF ConvertDisk, Exporting, Packs
  <2>26. CASE writeOVA \/ writeGCPTar
    BY <2>26 DEF writeOVA, writeGCPTar, Packed, Exporting
  <2>27. CASE CopyFiles
    BY <2>27 DEF CopyFiles, Exporting
  <2>28. CASE ExportFails
    BY <2>28 DEF ExportFails
  <2>29. CASE RemoveBundle
    BY <2>29 DEF RemoveBundle
  <2>30. CASE Deliver
    BY <2>30 DEF Deliver
  <2>31. CASE UNCHANGED buildVars
    BY <2>31 DEF buildVars
  <2> QED
    BY <2>1, <2>2, <2>3, <2>4, <2>5, <2>6, <2>7, <2>8, <2>9, <2>10, <2>11, <2>12,
       <2>13, <2>14, <2>15, <2>16, <2>17, <2>18, <2>19, <2>20, <2>21, <2>22, <2>23, <2>24,
       <2>25, <2>26, <2>27, <2>28, <2>29, <2>30, <2>31
       DEF Next, BuildNext, Cluster, Stage, Prepare, Export, vars
<1>2. [](BuildTypes /\ BuildInv) /\ [][Next]_vars => [][Strict]_vars
  BY <1>1, PTL
<1> QED
  BY <1>2, SupplyIsAccounted DEF Spec, StagingStrict

================================================================================
