# A TLA+ model of y-cluster

y-cluster creates and runs single-node Kubernetes clusters (qemu, docker,
multipass, Hetzner Cloud, GleSYS) and the tooling around them. There is no
daemon: every verb is a short-lived CLI process that reads files another one
left, changes a VM or a cloud project, and writes files back. What is hard about
it is therefore what happens *between* processes: a command that dies or gives
up half-way, a second command (often a timer's) at the same time, and state on
disk that no longer matches the machine it describes. These modules model that.

## 1. Inventory

| component | state it keeps | operations | what is hard |
|---|---|---|---|
| qemu lifecycle (`pkg/provision/qemu`) | qemu process, pidfile, boot disk, ssh key, kubeconfig context | provision, start, stop, pause, resume, teardown, import | failure or death between boot and the end of provision; stale pidfiles and reused pids; no lock between commands |
| lifetime auto-expiry (`pkg/lifetime`, `cmd/y-cluster/lifetime.go`) | deadline in the qemu sidecar, one-shot host timers | reap, extend, arm, disarm, status, gcp-flags | timers that are stale, lost or fire during another command |
| qemu state sidecar (`qemu/state.go`), host inventory (`pkg/inventory`) | `<name>.json`; one record per context | save, remove, look up | read-modify-write by several commands |
| hetzner (`pkg/provision/hetzner`) | cloud server, ssh key, certificate, one load balancer per lb-group, sidecar per context, a reaper Job in the cluster | provision, teardown, stop, start, the reaper's script | clusters that share a load balancer; a crash between creating a resource and recording its id; lost updates of the certificate list; a reaper left from an earlier run |
| dockerhost (`pkg/dockerhost`) | one guest VM for all sessions, its `state.json`, client certificates, cloud images, a lease in the guest | provision, teardown, env, status; in the guest the first boot and the idle reaper | one flock held over a first boot of minutes while the guest's own timer acts; certificates of an older guest; a session killed anywhere |
| images (`pkg/images`, `pkg/cache`) | OCI layouts on disk by digest, blobs and an index in a bucket, the node's containerd | cache, load, push, purge, pre-load | tags that move between two requests, two commands in one directory, a push that dies half way, two versions of the bucket's layout |
| yconverge (`pkg/yconverge`, `pkg/kustomize`) | none; a repository of kustomize bases and CUE imports, the cluster | plan, apply by converge mode, check, dry run | dependency order over two kinds of edges; a kubectl call that fails in part; checks with deadlines |
| appliance (`qemu/prepare_export.go`, `prepare_inguest.sh`, `data_seed.go`, `data_seed_check.sh`, `export.go`, `cmd/y-cluster/manifests.go`) | staged manifests and the seed on the boot disk, a gateway record beside it, a bundle; at the customer a data volume with a marker | manifests add/replace, prepare-export, export; the customer's boot unit | a build killed between two steps and repeated after more work; power lost while a volume is seeded; any boot disk of any release meets any volume |
| gateway (`pkg/gateway`) | none; GatewayClasses, Gateways, routes and policies in the cluster | state, hostnames, clear-dns-hint-ip, the live phase of prepare-export | one kubectl call per kind against a cluster that changes; a port-forward that must not outlive the command; defaults of every reference field |
| kubeconfig manager (`pkg/kubeconfig`) | the kubeconfig file | Import, CleanupStale, rename | load, change, save by several processes under a lock file |
| glesys, docker, multipass | a server, a container, a VM | provision, teardown, stop, start | as qemu, thinner |
| platform: k3s bundle, cilium, envoy gateway, cert-manager, local storage | objects in the cluster | install, upgrade policy | version policy; waits |
| echo, example, envsubst, config, schemas, sshexec, dockerexec, buildctl | none | rendering, parsing, remote execution | nothing that keeps state |

The components interact through files and machines, never through calls between
running processes: `provision`, `start` and `resume` install a host timer whose
job is another process of the same program (`lifetime reap`); `stop` and
`teardown` of that process act on the VM through the pidfile the first one left;
Hetzner clusters share one load balancer through the cloud API, and their reaper
Jobs act on it from inside the clusters; dockerhost's sessions share a directory
under a flock, and its guest powers itself off; a bundle is all that goes from
the machine that builds an appliance to the one that boots it.

What must hold, per component:

- qemu lifecycle: a VM that is up can be found and removed again, whatever failed
  before (`VMAccounted`); no other program is ever signalled (`NoForeignSignal`);
  success of a shutdown means the VM is down (`DownWhenDone`), and a healthy guest
  is powered off, not killed (`NoHardPowerOff`); every command ends
  (`CommandsFinish`); a disk that carries the platform is never installed over
  (`PlatformNotClobbered`).
- lifetime: a VM on a budget always has a timer (`ArmedWhileUp`), is stopped when
  the budget is over (`ExpiredIsReaped`) and never before (`FullBudget`).
- hetzner: a cluster that is up stays reachable through the shared load balancer
  while operators take turns (`CertOnLB`); whatever is created can be deleted
  (`LBOwned`, `EverythingGoes`).
- dockerhost: a guest that state.json calls ready is the one the client
  directory's certificates open (`ReadyGuestReachable`), and stays so as long as
  it is reused (`CertsOutliveReuse`); no guest or backing image is lost
  (`GuestAccounted`); a lease is honoured (`LeaseHonoured`), and without one the
  guest goes (`ForgottenPowersOff`); nobody waits for ever (`SessionsEnd`).
- images: what counts as a cache hit is the image, whole unless its directory was
  removed in part (`CacheUsable`), what the index names is in the bucket, with the
  same exception (`IndexComplete`), and load and pre-load deliver the
  digests they announced (`LoadDelivers`, `PreloadDelivers`).
- yconverge: the plan has everything needed once and in order (`PlanIsExact`),
  nothing is applied before what it imports has converged (`DepsConverged`),
  nothing is written that was not asked for, and as its label says
  (`WritesRouted`), success means converged (`SuccessMeansConverged`), and a run
  ends (`RunsEnd`).
- appliance: a bundle carries the last data and manifests of its own cluster and
  nothing of the build host (`ShippedClean`, `SeedIsData`, `RecordCurrent`); of
  commands given one at a time, add never writes over a staged manifest
  (`StagingStrict`); the customer's volume is
  seeded whole or not at all and never written over (`RunsOnWholeData`,
  `CustomerDataKept`, and both in `KeepsPromise`); the boot comes to a decision
  (`BootSettles`).
- gateway: the summary and the host list say what the cluster routes, in whatever
  order it was listed (`SummaryExact`); a failed call is never an empty list
  (`SnapshotTrue`); hints are gone when a command says so (`HintsGone`); no
  port-forward is left (`NoForwardLeft`).

`PROJECT.json` lists the hazards with the line where each bites, the properties
that cover it, and for those no property covers, why.

## 2. The modules and the code

| module | models |
|---|---|
| `QemuLifecycle` | one cluster of the qemu provider: the VM, every file the CLI keeps about it, the CLI verbs, the host timer, the kernel and the guest |
| `MCQemuLifecycle` | its instances for TLC: which verbs run in which slot |
| `QemuLifecycle_proofs` | theorems about it |
| `HetznerGroup` | the clusters of one Hetzner lb-group: cloud resources, sidecars, provision, teardown, the teardown reaper |
| `HetznerGroup_proofs` | theorems about it |
| `Dockerhost` | the sessions of one machine, `state.json` and the files beside it, the guest with its daemons and its idle reaper |
| `Dockerhost_proofs` | theorems about it |
| `MCDockerhost` | its configurations and sessions |
| `Images` | the cache, load, push, purge and pre-load commands, registry, bucket and containerd |
| `Images_proofs` | theorems about it |
| `MCImages` | its images, references and verbs |
| `Converge` | one run after another of yconverge on a repository of directories |
| `Converge_proofs` | theorems about it |
| `Recursion` | lemmas about recursion and induction over finite sets and sequences, for it and `GatewayState_proofs` |
| `MCConverge` | its repositories and requests |
| `ApplianceBuild` | the build cluster: manifests, prepare-export, export |
| `ApplianceBoot` | the customer's machine: boot disk, data volume, the seed unit |
| `Appliance` | the composition of the two, and their properties |
| `DataVolume` | the abstract specification of the customer's volume |
| `Appliance_proofs` | theorems about both sides of `Appliance`, with the refinement of `DataVolume` |
| `MCAppliance` | its instance |
| `GatewaySummary` | the pure part of `pkg/gateway`: from lists of objects to the summary and the host names |
| `GatewayState` | the commands that read and patch the cluster, on top of it |
| `GatewayState_proofs` | theorems about them |
| `MCGatewayState` | its lists of Gateways, routes and policies |

### QemuLifecycle

State. `proc` is the kernel's process table over the pids a pidfile may name,
including numbers that went to other programs; `pidfile`, `disk`, `key`,
`sidecar` / `expiresAt` / `onExpiry`, `context` and `record` are the files, each
reduced to what a later command decides on: a disk is blank, has k3s, or has the
platform; a key is known to the guest (`guest`) or only to the host (`fresh`).
`timers` holds the times pending one-shot timers fire at. `upSince` is a history
variable for `FullBudget`.

Actions. A slot is one CLI process; `cmd[s].pc` is the point it has reached. The
verbs begin in `...Begin` (or are one step: `Pause`, `Extend`, `ArmAgain`,
`Disarm`, `Import`, `Reap`) and continue in the named steps, in the order of the
code: `ProvisionDisk`, `ProvisionKey`, `ProvisionBoot`, `ProvisionSave`,
`ProvisionSsh`, then either `ProvisionInstall` and `ProvisionPlatform` or
`ProvisionStaged`, and `InstallTimer`. `stop`, `teardown` and an expired `reap`
share the shutdown (`ShutdownRead` ... `ShutdownStuck`), as `stopVM` and
`shutdownVM` are shared in the code.

Grain. Local work between two waits is one step. Waits (ssh, k3s, process exit,
downloads, the platform install) separate steps, since any other process may act
during one, and so does each place where a killed process leaves half of its
files. Two simplifications: teardown's deletes are one step (`TeardownFiles`),
because the context, which every later verb needs, is gone in the step before;
and `saveState` with `armLifetime`, `Extend` and `ResumeBudget` are single steps,
so lost updates of the sidecar between two verbs are not covered (section 6).
Within such a step each of its writes may fail on its own, as the callers of
`saveState` and `armLifetime` only warn (`qemu.go:345-358`).

Failures are switched on per run by `Faults`: failed preparation, boot, ssh or
install, a guest that ignores poweroff, a process that survives SIGKILL, a killed
CLI, a crashed qemu, a host reboot, a reused pid, an unreachable scheduler, a
timer that is left behind, a sidecar that cannot be written.

### HetznerGroup

State. `servers`, `keys`, `cert`, `lb` and `lbCerts` are the cloud project:
names are unique there, so a server or key is its context; certificates and load
balancers have ids, because the sidecar keeps ids and a stale id is the hazard.
`sidecar` is what `<context>.json` says about the group; `reaper` is the Job in
each cluster; `ready` is the history variable of `CertOnLB`.

Actions. One step is one cloud API call with the local work up to the next one,
so every read of the certificate list and the write computed from it are two
steps (`ProvisionLB` and `ProvisionAttach`, `TeardownRead` and `TeardownDetach`).
A list of servers and the delete it decides are one step, in teardown and in the
reaper's script: a member that appears between them is minutes of k3s install
away from the load balancer. One context has one command at a time; how many
contexts have theirs at once is `busy`, chosen in `1..Busy` at the start and kept:
with 1 the operators take turns. `Fail` ends a command before any step;
`"lbwindow"` also between the creation of the load balancer and the save of its
id, `"pod"` lets the reaper's pod start again.

### Dockerhost

State. `lock` is the flock; `st` is `state.json`; `client`, `disk` and
`st.serial` say by the serial of its CA which creation a certificate directory, a
guest disk and a record belong to, which is what a mixed-up state is about.
`running`, `setup`, `daemons`, `limits`, `reaper` and `conns` are the guest;
`age` and `unused` its clocks, kept up to where nothing more changes. `promised`
is the history variable of `LeaseHonoured`.

Actions. `Lock`, `Decide` (`reuse`, `restart` or replace), the steps of create in
the order of the code (image, record, client directory, boot, cloud-init, ready,
prune) and of teardown; the guest's first boot; the two halves of its reaper,
deciding and powering off, between which a session may act; failures as in
`FaultNames`. The user-data seed is not part of the state: a removal that fails is
only warned about (`dockerhost.go:318-320`), and so is a disk that teardown could
not unlink; no property speaks about either. A session may be killed at every
step, which releases the flock.

### Images

State. `layouts` is the cache directory by digest, a layout being its name, the
image its index lists and the files that are there; `torn` is the history of which
directories were ever removed in part; `oci`, `shared` and `index`
are the bucket's objects, with version 1 and 2 layouts; `rows` is
`ctr image list`. A reference is its repository, tag and digest.

Actions. Every registry request, directory operation, bucket request and `ctr`
call is a step, so a tag can move between load's two HEADs, a second pull can
remove the directory a first one is reading, and a push can die between any two
objects. `Fail` ends a command before any of its steps. A removal
(`os.RemoveAll`: the swap of a pull, purge) is either done (`Removed`) or has
unlinked some file so far (`Unlinked`), in which state others see the directory or
a kill leaves it; `Gone` bounds how many files are missing then. What is left counts
as a hit as long as it has both manifests, whatever `cache.go:135` says of a partial
directory, and a push takes the files it finds, so it can complete an index entry
without them. `CacheUsable` and `IndexComplete` say what holds for every other
digest.

### Converge

State. `repo` is which repository is converged and `source` the version of its
manifests; `cluster` maps each resource to nothing or to the version and step
that wrote it; `run` is the run in progress with its plan, the group it applies
and the check it makes. `HiddenErrors` says whether the API may reject a resource
in the `kubectl create` that finds another one there already: the code looks for
AlreadyExists in all that kubectl says, and so takes the rejection for it.

Actions. The plan is made by operators translated from `FindCueFiles`,
`walkTree` and `resolveDepsWalk` (depth first, each directory once). Then one
step per kubectl invocation (`Apply`, for one of `applyGroups` after the other: create,
the delete and the apply of replace, server-side with force, server-side, plain)
and per
attempt of a check, with its deadline; the cluster's controllers make resources
ready meanwhile, an invocation may fail, and the API may reject a resource. The
options a dependency is converged with are a record built field by field
(`depOpts`), and a check looks in its own namespace if it names one.

### ApplianceBuild, ApplianceBoot, Appliance, DataVolume

`ApplianceBuild` has the build cluster's disk reduced to what ships: what data
there is and which of it is in the seed (numbers that grow with every write), the
hints, the staged and applied manifests (`wanted` is the history variable: the
last version a manifests command left there, told to the operator or cut off).
Several `manifests` commands may be in progress (`Stagers`), each reading first and
writing later without a lock, as in the code. The write is `cat > tmp && mv`
(`manifests.go:131-133`): when the connection or the CLI goes, `cat` has reached the
end of its input, and what came through is renamed into place, which is the content
`Half`; two commands on one name share the temporary name, with the same outcome.
`manifests.go:117` has it that the write "puts the file in place atomically".
Prepare-export is a step per
kubectl call of the live phase, the stop, and a step per operation of the one
`virt-customize` invocation, after each of which it may be killed and repeated,
also after more work; export is a step per file of the bundle.

`ApplianceBoot` has the customer's machine: an image of the shelf, the place
k3s will run on (the boot disk's directory or the volume mounted over it), and
the unit of `data_seed_check.sh` in its order: mounted or bypassed, marker,
emptiness, unpack file by file, mark. Power can be lost before every step, the
volume can be mounted late, damaged copies fail to unpack, and the operator
follows the recipes of the unit's conflict message.

`Appliance` composes them through `Deliver`, which moves a finished bundle to the
shelf and keeps of it what the customer's machine can tell. `DataVolume` says in
eight actions what the volume goes through, without boots, units, marker files
or images; `KeepsPromise` is that `Appliance` implements it, a torn file reading
as not there yet, the marker as the seal, k3s of a gated image on the mounted
volume as serving.

### GatewaySummary, GatewayState

`GatewaySummary` is the translation of `summary.go` and `hostnames.go` as
operators on sequences: which routes attach to which listener, which policy
comes first, the buckets by host, the order. A route's hosts are a sequence, as
listed. `GatewayState` has one step per
kubectl call of `state`, `hostnames`, `clear-dns-hint-ip` and the live phase, the
choice of a proxy pod, the port-forward and the two requests through it. The
reference definitions it is checked against (`IsExact`, `Complete`) are stated
over sets and share none of the code's passes; `BucketExact` counts, for a host, one
entry per rule and place at which the route names it.

## 3. Plan

Done, in the order of their weight: `QemuLifecycle`, `HetznerGroup`,
`Dockerhost`, `Images`, `Converge`, `Appliance` with the abstract `DataVolume`
and its refinement, `GatewayState`, each with its proofs.

What could come next:

1. `LifetimeVerbs`: the sidecar's read and rewrite as separate steps, `start`,
   `resume`, `extend` and `reap` at once: lost extensions, a timer disarmed by a
   reap that ends late.
2. `HetznerReaper`: the Job's absolute deadline against `stop`, `start` and a
   start from the cloud console.
3. `GlesysServer`: a provision that resumes from its sidecar, and the worker that
   creates a server it was told to give up on.
4. `KubeconfigFile`: import, cleanup and rename by several processes under the
   lock file; no context of another cluster is lost.
5. Proofs: abstract specifications for `Dockerhost` (one guest, reached or not)
   and `Images` (a store by digest).

## 4. Runs

Passing runs (bounds in the cfg files; state counts are TLC's distinct states):

| run | instance | states | shows |
|---|---|---|---|
| `QemuSequential` | one slot, every verb but import, every fault, 2 pids, 3 ticks | 2.0 M | `TypeOK`, `VMAccounted`, `NoForeignSignal`, `PlatformNotClobbered` |
| `QemuBudget` | one slot, operator and timer share it, budget of 2 of 4 ticks, all three `onExpiry` | 75 k | `ArmedWhileUp`, `NoHardPowerOff`, `FullBudget`, `ExpiredIsReaped` |
| `QemuShutdownRaces` | a running cluster, stop/teardown/pause/resume/import against reap/pause/stop, hanging guest, reused pid | 12 k | `DownWhenDone`, `CommandsFinish` |
| `HetznerGroup` | 2 members with reapers whose pods may be retried, 3 provisions, 2 failures; commands at once and, in the states with `busy = 1`, in turns | 378 k | `LBOwned`, `CertOnLB`, `EverythingGoes` |
| `Dockerhost` | a provisioning and a removing session, 3 configurations, 2 pin sets, 2 cloud images, every fault | 360 k | `ReadyGuestReachable`, `GuestAccounted`, `CertsOutliveReuse`, `LeaseHonoured`, `SessionsEnd`, `ForgottenPowersOff` |
| `Images` | 3 commands, one at a time on the node beside one on cache and bucket, either of which may push, 2 images with a shared layer, one move of the tag, every fault, directories that go file by file, a bucket from an older release | 3.5 M | `CacheUsable`, `IndexComplete`, `LoadDelivers`, `PreloadDelivers` |
| `Converge` | 2 runs out of 8 requests on a repository with an overlay, a diamond and every converge mode, an edit, a fault, a kill; and the plans of 2500 repositories of 4 directories | 460 k | `PlanIsExact`, `DepsConverged`, `WritesRouted`, `SuccessMeansConverged`, `RunsEnd` |
| `Appliance` | 2 releases, 2 files, 2 writes, one manifests command at a time, a prepare-export repeated, every fault of both sides, then boots of either release on one volume | 3.2 M | `ShippedClean`, `SeedIsData`, `RecordCurrent`, `RunsOnWholeData`, `StagingStrict`, `CustomerDataKept`, `BootSettles`, `KeepsPromise` |
| `GatewayState` | 2 commands at once out of 4 verbs, an edit by others, every fault; 2 lists of Gateways, 3 of HTTPRoutes, 2 of GRPCRoutes, 2 of policies in every combination | 650 k | `SummaryExact`, `SnapshotTrue`, `HintsGone`, `NoForwardLeft` |

Bounds. Two pids are enough for a stale pidfile beside a live qemu. Three ticks
with a budget of one let a deadline pass, a VM start again and pass the next one;
four with a budget of two have an instant strictly inside the budget. Two
members are a cluster that is up and one whose command or expiry might take its
certificate away; larger groups, and failures in the load balancer's window, are
the theorems' (section 5); two failures let a repeated teardown fail too. `MaxId` allows every provision its
certificate and its load balancer. The slots of a qemu run never exceed two: a
third process only repeats one of the two roles (an owner of the VM, and a verb
that acts on it). Dockerhost's serials are one more than the places that can hold
one, so a fresh one always exists, and its ages stop growing where every limit is
past (`IdleCap` bounds the idle limits a configuration may ask for); two sessions are the holder of the lock and the one that waits. Two images
with a common layer tell a digest from a name and a shared blob from an own one;
three commands let a third find what a dead one and its repetition left, and one
missing file (`Gone`) is every kind of a torn directory: without a manifest, or a
hit without a blob. `Half` stands for whatever part of a manifest came through,
which no command tells from another; with one `Stagers` member commands take turns,
with more the code keeps no promise (below). For
plans, three directories referring to each other in every order by both kinds of
edges, above one that all may import, have the diamonds and the overlays of
overlays. Two releases are an upgrade and a rollback; two files
have a state between unpacked and not. Routes that share a host, declare none or
have no rules, and one route for each way of leaving reference fields out, cover
the branches of the summary; two entries a list cover its order.

Violations, each a place where the code and what it says of itself disagree
(`PROJECT.json` quotes the lines under `findings`):

- `QemuHalfBuilt`: the disk of a failed provision passes for an imported appliance
  on the next one, which succeeds without the platform.
- `ConvergeHiddenError`: a resource that the API rejects while another of its
  group exists already is lost, and the run reports success: the tolerated
  AlreadyExists is looked for in the whole of kubectl's stderr (`kubectl.go:90`),
  where its comment promises that other diagnostics surface (`kubectl.go:63-65`).
- `ConvergeOverlayDep`: an overlay that is itself a dependency is applied without
  what its base imports.

Disagreements met while modelling that have no run of their own:

- A provision that fails after boot leaves a VM with a deadline, no timer and no
  context, which the backstop `lifetime reap` cannot find (`qemu.go:254`,
  `cmd/y-cluster/lifetime.go:60`); a reap by hand while `start` waits for k3s
  sees the last run's deadline and stops the VM that is starting
  (`lifecycle.go:208`).
- Two provisions at once into a Hetzner group that has a load balancer: one of
  the two certificates is lost (`lb.go:227`); a provision killed between the
  creation of the load balancer and the save of its id leaves what no teardown
  can delete (`hetzner.go:283`); the last two members, expiring together, each
  leave the load balancer to the other (`reaper-job.yaml:119`). The first is why
  `CertOnLB` is about `busy = 1`, the second why `"lbwindow"` is off in
  `HetznerGroup`: no property covers either hazard.
- A provision whose sidecar could not be written goes on with a warning
  (`qemu.go:345-358`): the VM then has no deadline and no way to be powered off but
  SIGTERM, or the deadline of an earlier failed provision. `VMAccounted` holds all
  the same; `GuestsArePoweredOff`, `BudgetsAreFull` and `TimersAreArmed` assume it
  away, and `"sidecar"` is among the faults of `QemuSequential` only.
- A removal of a cache directory that a kill or another command cuts off may leave
  `oci-layout` and `index.json` with a blob gone, which `layoutExists` takes for a
  hit (`cache.go:195`) and a push indexes as it is, against the comment at
  `cache.go:135`. Hence the exception of `torn` in `CacheUsable` and
  `IndexComplete`. `LoadDelivers` has no exception: ctr refuses such a layout.
- A manifests command that is cut off may rename half a manifest into place, which
  then ships, and two at once may both add, the later over the earlier, or mix in
  their one temporary file (`manifests.go:101`, `:131`), against "puts the file in
  place atomically" (`manifests.go:117`). So `ShippedClean` takes a manifest as the
  last command left it, a half included, and `StagingStrict` is about commands that
  do not meet, which includes what a killed one left running in the guest.
- A route that names a host twice has each of its rules there twice
  (`summary.go:369-371`), where `summary.go:106` has one entry per route and rule
  index. `SummaryExact` says as often as the route names the host; the run has such
  a route.
- The idle reaper may power the guest off between provision's liveness check and
  its health check; provision then discards a guest that was only asleep
  (`dockerhost.go:208`). `GuestAccounted` and `ReadyGuestReachable` hold all the
  same.
- A push of a second reference of a digest uploads the layout under the name the
  first pull gave it, so a pre-load makes none of the second one's names
  (`preload.go:207`). `PreloadDelivers` is therefore about digests, not names.
- The unit asks for the mount before it looks for the marker: a machine seeded in
  bypass stays down after a reboot, where `APPLIANCE_MAINTENANCE.md:153` has the
  marker decide (`data_seed_check.sh:62`).
- The help text of `gateway clear-dns-hint-ip` has a missing class a no-op; the
  describe that comes first fails on it (`cmd/y-cluster/gateway.go:213`,
  `state.go:449`).

Fairness. The operator owes `QemuLifecycle` nothing: no verb is fair. A command
in progress goes on (weak fairness of `Continue`: the OS schedules it and every
wait of the code has a timeout), a process that was asked to exit does so unless
the model says it hangs (`QemuExits`), and the scheduler runs a due timer once
its slot is free (strong fairness of `TimerFires`, as commands come and go). For
`EverythingGoes` the question is whether an operator *can* clean up, so there the
operator repeats teardown and a command that began goes on or fails; provisions
are not fair and are bounded. Beginning a teardown is strongly fair: where
operators take turns another's command may be in the way now and again, but not
every time. `ProvisionedSpec` starts from the state a finished
provision leaves and is otherwise the same. In `Dockerhost` sessions go on (each
of their waits has a timeout), the first boot ends, daemons start, systemd runs
the reaper's timer and a poweroff that was decided happens, time passes; clients
and users owe nothing. In `Converge` a run goes on and controllers promise
nothing: checks end by their deadlines. In `Appliance` systemd runs the unit it
started, and nothing else is fair. `Images` and `GatewayState` state safety only.

## 5. Proofs

Every theorem is about the module's specification for every value of its
constants that the module's assumptions allow; further hypotheses are in the
statement and named here. Each follows the same course: the property is not
inductive, an invariant that says where the commands stand is, and the proof of
that invariant has one step per action. The invariants were checked by TLC on the
instances of the runs before they were proved; being theorems, they are not
repeated in the runs. They stand at the end of the modules they are about, after
the properties.

`QemuLifecycle_proofs`, for every set of slots, verbs, pids, faults, budgets and
times. `Sequential` is one slot, `NoImport`, `NoBoot` and `NoDisarm` leave verbs
out. Faults a theorem excludes are in its statement:

- `TypeCorrect`: `TypeOK`.
- `SequentialAccountsForVM`: `VMAccounted`, assuming `Sequential` and `NoImport`.
  That provision may replace the key relies on no VM being up at that point, and
  that `start` boots a disk that knows the key relies on the context. `VMInv` adds
  exactly these: the context implies a key the guest knows, provision up to the
  boot runs without a VM and without a context, a shutdown waits on the only VM
  there is, teardown's deletes run without one. Import is excluded because it
  replaces the disk while the context of an earlier cluster may still be there.
- `ForeignProcessesAreSafe`: `NoForeignSignal`, for any number of commands at
  once; every step is shown to spare them, from the types alone.
- `PlatformIsKept`: `PlatformNotClobbered`, assuming `Sequential`, import
  included: for the imported disk, which no run has, this is all there is.
  `PlatformInv`: a provision that is past its look at the disk and
  finds the platform there has taken it for staged.
- `ShutdownsAreDown`: `DownWhenDone` from the state a finished provision leaves
  (`InitProvisioned`), for any number of commands at once that boot nothing
  (`NoBoot`), without a process that survives SIGKILL, a killed command or a host
  that reboots under a command. `WatchInv`: every command that polls, polls the
  only live VM. `SequentialShutdownsAreDown` is the same from an empty host, with
  every verb but import, one command at a time.
- `GuestsArePoweredOff`: `NoHardPowerOff`, assuming `Sequential`, `NoImport` and
  neither a hanging guest, a killed command nor a failed write of the sidecar: a
  provision that did not save leaves a VM without a sidecar, and with it without the
  way to power it off.
  `PowerInv`: a VM that is up has a sidecar, and a shutdown past its poweroff waits
  on a process that was asked and not paused.
- `BudgetsAreFull`: `FullBudget`, assuming `Sequential`, `NoImport` and no failed
  ssh, kill, VM crash, host reboot or write of the sidecar: a start that fails there leaves the VM up with
  the deadline of the last run (section 4). `BudgetInv`: outside the moment between
  a boot and the new deadline, the deadline is a budget away from the boot.
- `TimersAreArmed`: `ArmedWhileUp`, assuming `Sequential`, `NoImport`, `NoDisarm`
  and no fault but hanging guests, reused pids and timers left behind: every wait
  that fails after the boot leaves a VM without a timer (section 4). `ArmedInv`
  says what a VM that is up between two commands has: sidecar, deadline, context,
  key.

`HetznerGroup_proofs`, for any finite set of contexts and any bounds:

- `GroupTypeCorrect`: `TypeOK`, in which a load balancer exists exactly when it
  has a certificate. Its invariant `CloudInv` adds that ids are never reused
  (`IdsFresh`), that the ssh key covers the certificate's life (`KeyHeld`: this is
  what stops a second provision before it overwrites the sidecar), and that a
  provision's own server keeps the load balancer it found or made (`LBHeld`).
- `CertificatesAreOwned`: `LBOwned`, for any number of commands at once, if none
  ends between the creation of the load balancer and the save of its id.
  `GroupInv` adds `ViewsOwned`: a list read earlier and written back holds no
  certificate that lost its owner meanwhile and still exists.
- `SequentialKeepsCertificates`: `CertOnLB`, which is about operators who take
  turns (`busy = 1`), whatever fails, with any number of members and with failures in
  the load balancer's window. `SequentialInv` adds that the list written back is the one that is there
  (`ViewsFresh`), that a sidecar's certificate id is its own (`IdsNamed`) and where
  provision and teardown stand (`GoneAndAttached`). Two commands at once do break
  it, see section 4.

`Dockerhost_proofs`, for any sessions, configurations, pins, images and faults,
with no further hypothesis:

- `TypeCorrect`: `TypeOK`, with only the holder of the flock past it.
- `RunningGuestAccounted`: `GuestAccounted`; `ReadyGuestIsReachable`:
  `ReadyGuestReachable`; `CertificatesOutliveReuse`: `CertsOutliveReuse`;
  `LeaseIsHonoured`: `LeaseHonoured`. They share `GuestInv`: no guest without its
  disk; a disk comes with a record and the cloud image it was made from; a ready
  record, the client directory and the disk carry one serial; a promise to a session
  fits in what is left of the guest's idle limit; and for the session at each of its steps, what it has
  decided about the configuration and left on disk (`ValidatedConfig`,
  `HolderKnows`). That the lease is honoured rests on the assumption that a
  configuration's idle limit is at most `IdleCap`, up to which the model counts idle
  ticks.

`Images_proofs`, for any number of commands at once, on the node too, any
references, images, leftovers, faults and removals cut off at any file:

- `TypeCorrect`; `CacheHitsUsable`: `CacheUsable`; `IndexIsComplete`:
  `IndexComplete`; `LoadsDeliver`: `LoadDelivers`; `PreloadsDeliver`:
  `PreloadDelivers`. They share `DeliveryInv`: a layout has the blobs its step has
  got to unless it is torn (`CacheInv`, `PullInv`); objects of the bucket are whole
  and only added (`ObjectsInv`); a push has in the bucket what it will name next, whoever else
  pushes (`PushInv`); the node holds what the command is done with (`NodeInv`).
  `RefsAssumption` and `ReposAssumption` are about names: a canonical name parses
  back, and no repository is called `sha256`.

`Converge_proofs`, for any repositories, requests, modes, namespaces and bounds:

- The hypothesis of all is `NoCycles`: no directory refers to itself, by bases, by
  imports or by both in turn. `SuccessIsConverged` also needs `ChecksMeetRender`,
  that a check is about something its own step renders, in the namespace it looks
  in: that is up to whoever writes the repository, and for a check that is not
  `SuccessMeansConverged` is false. And it needs `~HiddenErrors`: with the errors
  that AlreadyExists hides it is false as well, which `ConvergeHiddenError` shows.
  `SuccessMeansConverged` itself has no exception. TLC evaluates the first two on every repository of the runs (`TreesAreSound`).
- What the recursive walks compute, for every repository: `PostOrderIs` (a walk ends
  in every directory below its start, each once and after those it refers to),
  `PlanIs`, `ChecksOfIs`, `RenderIs`, `NamespaceIs`. A walk is a recursive function
  inside a LET, so a CHOOSE; that there is such a function, and only one, follows
  by well-founded induction, since every set of directories without cycles has one
  that refers to none of the others. `Recursion` states this, and induction over
  the naturals and over folds, with sets and functions in place of operator
  parameters: a property is the set of what has it, a recursive equation a table of
  what each step yields.
- `PlansAreExact`: `PlanIsExact`; the steps add up the walks from every import of
  every file in the target's tree, and the target comes last (`PlanRuns`,
  `AddStepsRuns`).
- `TypeCorrect`: `TypeOK`. `WritesAreRouted`: `WritesRouted`; every invocation is
  traced from its selector to the mode it takes and the flag it carries.
- `DepsConvergeFirst`: `DepsConverged`. `SuccessIsConverged`:
  `SuccessMeansConverged`. They share `RunInv`: the run carries out its request
  along the plan made for it (`Planned`); flags and place fit (`Stands`); the steps
  before the current one are done with every check, and those of the current one
  have passed or are still to do (`ChecksKept`); what a step is through with is as
  the last such step made it, except between the delete and the apply of replace
  mode (`AppliedSoFar`).

`Appliance_proofs`, for any number of releases, files, classes and manifests and
whatever fails on either side:

- `VolumeIsAccounted`: the inductive `VolumeInv`. Its parts: every bundle is of a
  cluster that was built (`SupplyInv`, all that the build side contributes); types
  (`BootTypes`); a mount or a bypass needs power, a label and the like
  (`BootOrder`); a gated machine that is up or unpacking was mounted or bypassed,
  and has a marker once it is up (`GateHolds`); while it unpacks, the place has no
  marker and exactly the files done so far, of its own release (`Unpacking`); and
  what has a marker is whole or the customer's (`MarkersTrue`). Each part has a
  lemma with a step per action.
- `K3sRunsOnWholeData`: `RunsOnWholeData`, from `GateHolds` and `MarkersTrue`.
- `VolumeKeepsPromise`: `KeepsPromise`. Under the mapping most steps leave content
  and seal alone, and then change serving only as `Serve` and `Halt` may; what is
  left is unpacking a file, marking, the recipes of the conflict message, the
  customer's writes and a restored backup, each one step of `DataVolume`.
- `CustomerDataIsKept`: `CustomerDataKept` follows from the refinement: no action
  of `DataVolume` that takes `Own` from a file exists.
- On the supplier's side, with every prepare-export repeated or killed anywhere,
  `SupplyIsAccounted`: the inductive `BuildInv`. Its parts: what each point of
  prepare-export has behind it (`PrepareOrder`, `HintsCleared`, `SeedKept`); what a
  manifests command read of the staging area still stands, if commands do not meet
  (`StagedAsRead`), and what the last one left is there (`WantedKept`); the record is of the run it says (`RecordOfRun`); and a bundle has
  what its cluster had (`BundleTrue`). `RecordAssumption` only says that no record
  is the value for none.
- `TypeCorrect` (of both sides); `ShipsClean`: `ShippedClean`; `ShipsTheData`:
  `SeedIsData`; `RecordIsOfThisRun`: `RecordCurrent`, from it. `StagesOnce`:
  `StagingStrict`, assuming `OneAtATime` (one member of `Stagers`), which the code
  does not enforce; the others hold for any number of manifests commands at once.

`GatewayState_proofs`, for any number of commands at once and whatever others
change and whatever fails:

- `CommandsAreAccounted`: the inductive `CommandInv`. For each command: which
  point follows which, and whether a port-forward is up there (`Flow`); what it has
  read is what the cluster was when it read it, as long as nobody changed it
  (`SeenTrue`); and what the patches so far have cleared (`HintsPrepared`,
  `HintCleared`). Commands change each other only through the cluster, which one
  lemma (`Bystanders`) says for all parts.
- `TypeCorrect`; `ForwardEndsInTime`: `NoForwardLeft`; `HintsAreGone`: `HintsGone`;
  `SnapshotIsTrue`: `SnapshotTrue`, from it.
- `SummaryIsExact`: `SummaryExact`. `CommandInv` says that what a command has read
  is one list per kind; the rest is about those lists alone. The order by namespace
  and name is a finite strict order, so counting what comes before a member gives
  every member its own place (`RanksAre`, `RanksAll`), and the sorted list has each
  object once, in order (`SortedIs`). The two folds are followed prefix by prefix,
  with the lemmas of `Recursion`: over the hosts of a route and over the routes, a
  bucket has every rule at its host, as often as its route names the host
  (`AddedIs`, `ContributionIs`, `BucketIs`); over the Gateways, the summary has one
  row per listener (`SummaryHas`). Each row has the first policy's settings and
  every host with rules (`SettingsAre`, `HostsAre`, `RowIs`), and the host names are
  those of the rows (`HostnamesAre`).
  `ObjectsAssumption` says what such lists are: objects of these shapes, one of a
  name in a namespace, which is the API server's doing, and one status per
  listener, which is its list-map key.

Only model-checked are the liveness properties (`ExpiredIsReaped`,
`CommandsFinish`, `EverythingGoes`, `SessionsEnd`, `ForgottenPowersOff`, `RunsEnd`,
`BootSettles`): they need fairness and ENABLED, which this prover does not reason
about.

## 6. Not modelled, and why

Within the components that are modelled:

- Contents: cloud-init, manifests, certificates, launch parameters, kubectl
  output. No property here depends on them.
- Real durations: grace periods and retry intervals are "may run out", ticks are
  units of the budget, of an age or of a check's timeout.
- QemuLifecycle: read and rewrite of the sidecar as two steps (section 3).
- Hetzner: servers created by hand in a group, two commands for one context at
  once (the cloud's unique names refuse most of it), `stop`, `start` and the stop
  reaper. Cloud calls that fail after they took effect, other than in the window
  of section 4: `Fail` comes between calls, so the repeated command meets the
  state either way, except that an id the response did not deliver is never
  saved; that is the same state as a failure before the save.
- Images: two commands at once on the node are outside the run and covered by the
  theorems; references by digest alone; a removal of which more than `Gone` files are
  done and some not (the bound of the run, not of the theorems). Two writers of the index are modelled: what the
  index names is there all the same, but the entry of one of them may be lost (the
  code documents a single writer), so no property says an entry stays.
- Converge: cycles (CUE and kustomize refuse their own), two runs at a time, and
  how a gateway check finds its address.
- Appliance: the customer acts after all releases are built, which loses nothing,
  since the two sides share only bundles; the operator removes a failed bundle
  before going on, runs one lifecycle verb at a time, and attaches no data disk to
  the build cluster; a machine in bypass has no volume. What the boot unit wrote is
  on the volume in the order it was written: there is no sync between `tar` and the
  marker (`data_seed_check.sh:155-165`), and a power loss that keeps the marker but
  not the files before it is not modelled.
- Gateway: conditions and raw specs, carried through unread; kubectl calls that
  never return; a CLI killed with SIGKILL, which leaves its kubectl to the OS.

Components without a module:

- GleSYS, docker and multipass have the lifecycle of one server, container or VM
  that `QemuLifecycle` and `HetznerGroup` treat in its harder forms; what is of
  their own (section 3) is not modelled.
- The kubeconfig manager and the upgrade policy: see section 3; the policy is a
  comparison of two versions with a table of unit tests beside it.
- The k3s bundle, cilium, envoy gateway, cert-manager, local storage,
  registries and devcert render manifests and apply them with a wait; they keep
  no state, and appear as the steps `ProvisionInstall` and `ProvisionPlatform`.
- Configuration, schemas, envsubst, echo, example, remote execution, buildctl and
  the read-only listings only parse, render or wrap other programs.
- Shell scripts and workflows drive the CLI from outside.
