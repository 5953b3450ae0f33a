------------------------------- MODULE Dockerhost -------------------------------
(****************************************************************************)
(* `y-cluster dockerhost`: dockerd and buildkitd in one KVM guest per       *)
(* machine, shared by every session of the user.  Sessions run provision    *)
(* and teardown under a flock on the state directory; the guest's own idle  *)
(* reaper powers it off, a newer y-cluster pins other daemon versions, and  *)
(* clients come and go.  Each wait of a session (lock, download, boot,      *)
(* cloud-init, health, ssh) is an action of its own, and a session may be   *)
(* killed between any two.                                                  *)
(****************************************************************************)
EXTENDS Integers, FiniteSets

CONSTANTS
    Sessions,      \* CLI invocations that can be in progress at once
    Verbs,         \* session -> subset of {"provision", "teardown"}
    Configs,       \* contents dockerhost.yaml may have: [shape, idle, maxAge]
    PinSets,       \* daemon versions a y-cluster release may pin
    Images,        \* cloud images the release publishes, one at a time
    MinIdle,       \* config.go minIdleTimeout, in ticks
    MaxMaxAge,     \* config.go maxMaxAge
    Grace,         \* dockerhost.go hardAgeGrace
    CertValidity,  \* certs.go certValidity
    IdleCap,       \* bound: the model counts idle ticks no further than this
    Faults         \* the failures that may happen, a subset of FaultNames

\* image: fetch, signature or download fails.  boot: qemu does not start or ssh
\* does not come up.  setup: the first boot fails.  daemon: a daemon stops
\* answering.  crash: qemu dies.  stuck: qemu survives a teardown.  ssh: a
\* command over ssh fails.  kill: the CLI process dies.
FaultNames == {"image", "boot", "setup", "daemon", "crash", "stuck", "ssh", "kill"}

\* Config.Validate
ValidConfig(c) ==
    /\ c.idle = 0 \/ c.idle >= MinIdle
    /\ c.maxAge \in 1 .. MaxMaxAge

ASSUME VerbsAssumption  == Verbs \in [Sessions -> SUBSET {"provision", "teardown"}]
ASSUME ConfigAssumption == \A c \in Configs : c.idle \in 0 .. IdleCap /\ c.maxAge \in Nat
ASSUME TimesAssumption  ==
    /\ {MinIdle, MaxMaxAge, Grace, CertValidity, IdleCap} \subseteq Nat
    /\ MaxMaxAge + Grace < CertValidity
ASSUME FaultsAssumption == Faults \subseteq FaultNames

Serials == 1 .. 4        \* one more than the places that can hold a CA

NoConfig == [shape |-> "none", idle |-> 0, maxAge |-> 0]

VARIABLES
    lock,       \* the session holding the flock, {} or a singleton
    sess,       \* session -> its progress
    st,         \* state.json
    client,     \* CA serial of the client directory, 0 = none
    disk,       \* CA serial of the guest disk, 0 = no disk
    backing,    \* cloud image the disk is backed by
    running,    \* qemu runs
    setup,      \* the guest's first boot: "none", "running", "done", "error"
    daemons,    \* dockerd and buildkitd: "down", "up", "broken"
    limits,     \* reaper.conf in the guest
    reaper,     \* the reaper's check: "wait" or "poweroff" (decided)
    conns,      \* clients are connected to the daemons
    images,     \* verified cloud images in the state directory
    age,        \* ticks since the guest was created, saturating
    unused,     \* ticks since creation, lease or last seen use, saturating
    promised    \* history: ticks left of what the last lease promised

files == <<st, client, disk, backing, images>>
guest == <<running, setup, daemons, limits, reaper, conns>>
ages  == <<age, unused, promised>>
vars  == <<lock, sess, st, client, disk, backing, images, running,
           setup, daemons, limits, reaper, conns, age, unused, promised>>

\* Ages need no more than to tell "past every limit".
AgeCap == CertValidity

NoState == [exists |-> FALSE, ready |-> FALSE, serial |-> 0, shape |-> "none", pins |-> 0]

Idle == [pc |-> "idle", cfg |-> NoConfig, pins |-> 0, img |-> 0, then |-> "end", boot |-> FALSE]

TeardownPcs == {"td_vm", "td_client", "td_state"}
CreatePcs   == {"image", "record", "client", "boot", "cloudinit", "ready", "prune"}
Pcs == {"idle", "lock", "decide", "restart", "health", "lease", "save"}
          \cup TeardownPcs \cup CreatePcs

Progress == [pc : Pcs, cfg : Configs \cup {NoConfig}, pins : PinSets \cup {0},
             img : Images \cup {0}, then : {"image", "end"}, boot : BOOLEAN]

State == [exists : BOOLEAN, ready : BOOLEAN, serial : Serials \cup {0},
          shape : {c.shape : c \in Configs} \cup {"none"}, pins : PinSets \cup {0}]

TypeOK ==
    /\ lock \in {{}} \cup {{s} : s \in Sessions}
    /\ sess \in [Sessions -> Progress]
    /\ \A s \in Sessions :                                    \* only the holder acts
         sess[s].pc \notin {"idle", "lock"} => lock = {s}
    /\ st \in State
    /\ client \in Serials \cup {0} /\ disk \in Serials \cup {0}
    /\ backing \in Images \cup {0} /\ images \subseteq Images
    /\ running \in BOOLEAN /\ conns \in BOOLEAN
    /\ setup \in {"none", "running", "done", "error"}
    /\ daemons \in {"down", "up", "broken"}
    /\ limits \in Configs \cup {NoConfig}
    /\ reaper \in {"wait", "poweroff"}
    /\ age \in 0 .. AgeCap /\ unused \in 0 .. IdleCap /\ promised \in 0 .. IdleCap

Init ==
    /\ lock = {}
    /\ sess = [s \in Sessions |-> Idle]
    /\ st = NoState
    /\ client = 0 /\ disk = 0 /\ backing = 0
    /\ running = FALSE /\ conns = FALSE
    /\ setup = "none" /\ daemons = "down" /\ limits = NoConfig /\ reaper = "wait"
    /\ images = {}
    /\ age = 0 /\ unused = 0 /\ promised = 0

--------------------------------------------------------------------------------
(* What a session asks and how it moves *)

At(s, l)   == sess[s].pc = l
Goto(s, l) == sess' = [sess EXCEPT ![s].pc = l] /\ UNCHANGED lock

\* fn returned: the deferred Close releases the flock.
Return(s) == sess' = [sess EXCEPT ![s] = Idle] /\ lock' = lock \ {s}

\* state.json is replaced atomically.
saveState(rec) == st' = [rec EXCEPT !.exists = TRUE]

\* teardownLocked, then either the new guest or, after a failure, the end.
Discard(s, after) ==
    /\ sess' = [sess EXCEPT ![s] = IF after = "image" THEN [@ EXCEPT !.pc = "td_vm", !.boot = FALSE]
                                   ELSE [Idle EXCEPT !.pc = "td_vm"]]
    /\ UNCHANGED lock

\* checkHealth: both daemons answer over TLS with the client directory's files.
Answers == /\ running /\ daemons = "up"
           /\ client # 0 /\ client = disk
           /\ age < CertValidity

\* sshexec into the guest
SshAnswers == running /\ setup # "none"

\* guestBusy: "unknown reads as idle".
GuestBusy == {conns} \cup (IF "ssh" \in Faults THEN {FALSE} ELSE {})

\* drift: network and size, not the reaper's limits.
Drifted(c) == st.shape # c.shape

\* Why decideExisting replaces a guest only when nobody uses it.
Soft(c, p) == age >= c.maxAge \/ st.pins # p

\* mutant of MustReplace: past its grace, a guest in use is still kept
MustReplaceNoHardAge(c) == ~st.ready \/ Drifted(c)

\* Why it replaces a guest no matter what.
MustReplace(c) == ~st.ready \/ Drifted(c) \/ age >= c.maxAge + Grace

Verdict(c, p, busy) ==
    IF MustReplace(c) \/ (Soft(c, p) /\ ~(running /\ busy)) THEN "replace"
    ELSE IF running THEN "reuse" ELSE "restart"

--------------------------------------------------------------------------------
(* Entering a command *)

\* LoadConfig and Validate come before the lock.  The file may have been
\* edited and y-cluster upgraded since the last provision.
Provision(s) ==
    /\ At(s, "idle") /\ "provision" \in Verbs[s]
    /\ \E c \in Configs, p \in PinSets :
         /\ ValidConfig(c)
         /\ sess' = [sess EXCEPT ![s] = [Idle EXCEPT !.pc = "lock", !.cfg = c,
                                                     !.pins = p, !.then = "image"]]
    /\ UNCHANGED <<lock, files, guest, ages>>

Teardown(s) ==
    /\ At(s, "idle") /\ "teardown" \in Verbs[s]
    /\ sess' = [sess EXCEPT ![s] = [Idle EXCEPT !.pc = "lock"]]
    /\ UNCHANGED <<lock, files, guest, ages>>

Lock(s) ==
    /\ At(s, "lock") /\ lock = {}
    /\ lock' = {s}
    /\ sess' = [sess EXCEPT ![s].pc = IF sess[s].then = "image" THEN "decide" ELSE "td_vm"]
    /\ UNCHANGED <<files, guest, ages>>

LockTimeout(s) ==
    /\ At(s, "lock") /\ lock # {}
    /\ Return(s)
    /\ UNCHANGED <<files, guest, ages>>

--------------------------------------------------------------------------------
(* An existing guest *)

\* loadState and decideExisting
Decide(s) ==
    /\ At(s, "decide")
    /\ \/ ~st.exists /\ Goto(s, "image")
       \/ /\ st.exists
          /\ \E busy \in GuestBusy :
               CASE Verdict(sess[s].cfg, sess[s].pins, busy) = "replace" -> Discard(s, "image")
                 [] Verdict(sess[s].cfg, sess[s].pins, busy) = "restart" -> Goto(s, "restart")
                 [] Verdict(sess[s].cfg, sess[s].pins, busy) = "reuse"   -> Goto(s, "health")
    /\ UNCHANGED <<files, guest, ages>>

\* qemu.StartGuest: no seed, so the first boot does not run again.
Restart(s) ==
    /\ At(s, "restart")
    /\ \/ /\ disk # 0 /\ backing \in images /\ ~running
          /\ running' = TRUE
          /\ sess' = [sess EXCEPT ![s].pc = "health", ![s].boot = TRUE]
          /\ UNCHANGED lock
       \/ /\ "boot" \in Faults \/ disk = 0 \/ running
          /\ Discard(s, "image")
          /\ UNCHANGED running
    /\ UNCHANGED <<files, setup, daemons, limits, reaper, conns, ages>>

\* checkHealth, or waitHealthy after a restart
Healthy(s) ==
    /\ At(s, "health") /\ Answers
    /\ Goto(s, "lease")
    /\ UNCHANGED <<files, guest, ages>>

\* A single check that fails; or readyTimeout after a restart.
Unhealthy(s) ==
    /\ At(s, "health") /\ ~Answers
    /\ Discard(s, "image")
    /\ UNCHANGED <<files, guest, ages>>

\* mutant of RenewLease: the limits stay those of the creation
RenewLeaseKeepsLimits(s) ==
    /\ At(s, "lease")
    /\ \/ /\ SshAnswers
          /\ unused' = 0
          /\ promised' = sess[s].cfg.idle
          /\ UNCHANGED limits
       \/ /\ "ssh" \in Faults \/ ~SshAnswers
          /\ UNCHANGED <<limits, unused, promised>>
    /\ Goto(s, "save")
    /\ UNCHANGED <<files, running, setup, daemons, reaper, conns, age>>

\* renewLease: idle.sh lease, best-effort
RenewLease(s) ==
    /\ At(s, "lease")
    /\ \/ /\ SshAnswers
          /\ limits' = sess[s].cfg
          /\ unused' = 0
          /\ promised' = sess[s].cfg.idle
       \/ /\ "ssh" \in Faults \/ ~SshAnswers
          /\ UNCHANGED <<limits, unused, promised>>
    /\ Goto(s, "save")
    /\ UNCHANGED <<files, running, setup, daemons, reaper, conns, age>>

\* saveState and recordInventory; Reused or Restarted
SaveLease(s) ==
    /\ At(s, "save")
    /\ saveState(st)
    /\ Return(s)
    /\ UNCHANGED <<client, disk, backing, images, guest, ages>>

--------------------------------------------------------------------------------
(* A new guest *)

\* EnsureVerifiedCloudImage: the image the release signs today
EnsureImage(s) ==
    /\ At(s, "image")
    /\ \E newest \in Images :
         /\ images' = images \cup {newest}
         /\ sess' = [sess EXCEPT ![s].pc = "record", ![s].img = newest]
    /\ UNCHANGED <<lock, st, client, disk, backing, guest, ages>>

\* The sums or their signature cannot be fetched, do not verify, do not list
\* the image, or its download does not have the signed digest.
NoImage(s) ==
    /\ At(s, "image") /\ "image" \in Faults
    /\ Return(s)
    /\ UNCHANGED <<files, guest, ages>>

\* issueTLS: a new CA, whose key nobody keeps
NewCA == CHOOSE n \in Serials : n \notin {client, disk, st.serial}

\* mutant of Record: the state is first written when the guest is ready
RecordLater(s) ==
    /\ At(s, "record")
    /\ Goto(s, "client")
    /\ st' = [NoState EXCEPT !.serial = NewCA]
    /\ age' = 0 /\ unused' = 0
    /\ UNCHANGED <<client, disk, backing, images, guest, promised>>

\* mutant of Record: what is recorded already counts as ready
RecordAsReady(s) ==
    /\ At(s, "record")
    /\ saveState([ready |-> TRUE, serial |-> NewCA, exists |-> FALSE,
                  shape |-> sess[s].cfg.shape, pins |-> sess[s].pins])
    /\ Goto(s, "client")
    /\ age' = 0 /\ unused' = 0
    /\ UNCHANGED <<client, disk, backing, images, guest, promised>>

\* "Recorded before anything is started, so a teardown finds a guest whose
\* provision was interrupted."
Record(s) ==
    /\ At(s, "record")
    /\ saveState([ready |-> FALSE, serial |-> NewCA, exists |-> FALSE,
                  shape |-> sess[s].cfg.shape, pins |-> sess[s].pins])
    /\ Goto(s, "client")
    /\ age' = 0 /\ unused' = 0
    /\ UNCHANGED <<client, disk, backing, images, guest, promised>>

\* What the guest is made of: the server certificate and reaper.conf.
guestSpec(s) == [serial |-> st.serial, limits |-> sess[s].cfg]

WriteClientDir(s) ==
    /\ At(s, "client")
    /\ client' = st.serial
    /\ Goto(s, "boot")
    /\ UNCHANGED <<st, disk, backing, images, guest, ages>>

\* qemu.ProvisionGuest: disk, ssh key, seed, qemu, ssh.  A disk that exists is
\* kept as it is.
ProvisionGuest(s) ==
    /\ At(s, "boot") /\ ~running
    /\ running' = TRUE
    /\ disk' = IF disk = 0 THEN guestSpec(s).serial ELSE disk
    /\ backing' = IF disk = 0 THEN sess[s].img ELSE backing
    /\ setup' = "running"
    /\ limits' = guestSpec(s).limits
    /\ reaper' = "wait"
    /\ Goto(s, "cloudinit")
    /\ UNCHANGED <<st, client, images, daemons, conns, ages>>

\* It fails before the disk is made or with it, and qemu, in place.
ProvisionGuestFails(s) ==
    /\ At(s, "boot")
    /\ "boot" \in Faults \/ running
    /\ \/ UNCHANGED <<disk, backing>>
       \/ /\ ~running /\ disk = 0
          /\ disk' = st.serial /\ backing' = sess[s].img
    /\ Discard(s, "end")
    /\ UNCHANGED <<st, client, images, guest, ages>>

\* waitCloudInit sees "status: done".  The rendered user-data and the seed are no
\* state here: nothing reads them once the guest booted, and neither
\* RemoveGuestUserData nor a teardown does more than warn when they stay.
CloudInitDone(s) ==
    /\ At(s, "cloudinit")
    /\ running /\ setup = "done"
    /\ Goto(s, "ready")
    /\ UNCHANGED <<files, guest, ages>>

\* mutant of CreateFails: waits without a timeout
CreateFailsOnError(s) ==
    /\ At(s, "cloudinit") /\ setup = "error"
    /\ Discard(s, "end")
    /\ UNCHANGED <<files, guest, ages>>

\* create's fail: "status: error", no guest to ask, or no answer in time.
CreateFails(s) ==
    /\ \/ At(s, "cloudinit") /\ (~running \/ setup # "done")
       \/ At(s, "ready") /\ ~Answers
    /\ Discard(s, "end")
    /\ UNCHANGED <<files, guest, ages>>

Ready(s) ==
    /\ At(s, "ready") /\ Answers
    /\ saveState([st EXCEPT !.ready = TRUE])
    /\ Goto(s, "prune")
    /\ UNCHANGED <<client, disk, backing, images, guest, ages>>

\* PruneCloudImages
Prune(s) ==
    /\ At(s, "prune")
    /\ images' = images \cap {sess[s].img}
    /\ Return(s)
    /\ UNCHANGED <<st, client, disk, backing, guest, ages>>

--------------------------------------------------------------------------------
(* teardownLocked *)

\* qemu.TeardownConfig stops the VM and removes every file of it.
TeardownVM(s) ==
    /\ At(s, "td_vm")
    /\ running' = FALSE /\ conns' = FALSE /\ daemons' = "down" /\ reaper' = "wait"
    /\ setup' = "none" /\ limits' = NoConfig
    /\ disk' = 0 /\ backing' = 0
    /\ promised' = 0
    /\ Goto(s, "td_client")
    /\ UNCHANGED <<st, client, images, age, unused>>

TeardownStuck(s) ==
    /\ At(s, "td_vm") /\ "stuck" \in Faults /\ running
    /\ Return(s)
    /\ UNCHANGED <<files, guest, ages>>

TeardownClient(s) ==
    /\ At(s, "td_client")
    /\ client' = 0
    /\ Goto(s, "td_state")
    /\ UNCHANGED <<st, disk, backing, images, guest, ages>>

\* The state goes last, so an interrupted teardown is found again.
TeardownState(s) ==
    /\ At(s, "td_state")
    /\ st' = NoState
    /\ age' = 0 /\ unused' = 0
    /\ IF sess[s].then = "image" THEN Goto(s, "image") ELSE Return(s)
    /\ UNCHANGED <<client, disk, backing, images, guest, promised>>

--------------------------------------------------------------------------------
(* The guest *)

\* setup.sh: pins, daemons, the reaper's timer, the first lease.
SetupDone ==
    /\ running /\ setup = "running"
    /\ setup' = "done" /\ daemons' = "up" /\ unused' = 0
    /\ UNCHANGED <<lock, sess, files, running, limits, reaper, conns, age, promised>>

SetupFails ==
    /\ running /\ setup = "running" /\ "setup" \in Faults
    /\ setup' = "error"
    /\ UNCHANGED <<lock, sess, files, running, daemons, limits, reaper, conns, ages>>

\* systemd starts the daemons on a later boot.
DaemonsStart ==
    /\ running /\ setup = "done" /\ daemons = "down"
    /\ daemons' = "up"
    /\ UNCHANGED <<lock, sess, files, running, setup, limits, reaper, conns, ages>>

DaemonsBreak ==
    /\ running /\ daemons = "up" /\ "daemon" \in Faults
    /\ daemons' = "broken" /\ conns' = FALSE
    /\ UNCHANGED <<lock, sess, files, running, setup, limits, reaper, ages>>

\* idle.sh check, every minute: somebody is connected.
ReaperSeesUse ==
    /\ running /\ setup = "done" /\ reaper = "wait" /\ conns
    /\ unused' = 0
    /\ UNCHANGED <<lock, sess, files, guest, age, promised>>

\* mutant of Overdue: the maximum age is left to the host's provision
OverdueIdleOnly == limits.idle > 0 /\ unused >= limits.idle

Overdue ==
    \/ limits.maxAge > 0 /\ age >= limits.maxAge
    \/ limits.idle > 0 /\ unused >= limits.idle

\* It has read its files and is about to power off.
ReaperDecides ==
    /\ running /\ setup = "done" /\ reaper = "wait" /\ ~conns
    /\ Overdue
    /\ reaper' = "poweroff"
    /\ UNCHANGED <<lock, sess, files, running, setup, daemons, limits, conns, ages>>

GuestStops ==
    /\ running' = FALSE /\ conns' = FALSE /\ daemons' = "down" /\ reaper' = "wait"
    /\ UNCHANGED <<lock, sess, files, setup, limits, ages>>

PowerOff == running /\ reaper = "poweroff" /\ GuestStops

Crash == running /\ "crash" \in Faults /\ GuestStops

--------------------------------------------------------------------------------
(* Clients, the clock *)

\* `dockerhost env` and BuildkitClient name the guest's daemons.
EnvExports == st.exists /\ st.ready /\ running

\* A shell that evaluated env, then a docker or buildctl client.
Connect ==
    /\ EnvExports /\ Answers /\ ~conns
    /\ conns' = TRUE
    /\ UNCHANGED <<lock, sess, files, running, setup, daemons, limits, reaper, ages>>

Disconnect ==
    /\ conns
    /\ conns' = FALSE
    /\ UNCHANGED <<lock, sess, files, running, setup, daemons, limits, reaper, ages>>

\* The process dies; the kernel releases its flock.
Kill(s) ==
    /\ "kill" \in Faults /\ ~At(s, "idle")
    /\ Return(s)
    /\ UNCHANGED <<files, guest, ages>>

UpTo(cap, t) == IF t = cap THEN cap ELSE t + 1

\* Time passes; the ages of a guest that does not exist do not matter.
Tick ==
    /\ st.exists
    /\ age' = UpTo(AgeCap, age) /\ unused' = UpTo(IdleCap, unused)
    /\ promised' = IF promised = 0 THEN 0 ELSE promised - 1
    /\ UNCHANGED <<lock, sess, files, guest>>

--------------------------------------------------------------------------------
Continue(s) ==
    \/ Lock(s) \/ LockTimeout(s) \/ Decide(s)
    \/ Restart(s) \/ Healthy(s) \/ Unhealthy(s) \/ RenewLease(s) \/ SaveLease(s)
    \/ EnsureImage(s) \/ NoImage(s) \/ Record(s) \/ WriteClientDir(s) \/ ProvisionGuest(s)
    \/ ProvisionGuestFails(s) \/ CloudInitDone(s) \/ CreateFails(s) \/ Ready(s)
    \/ Prune(s) \/ TeardownVM(s) \/ TeardownStuck(s) \/ TeardownClient(s)
    \/ TeardownState(s)

Guest ==
    \/ SetupDone \/ SetupFails \/ DaemonsStart \/ DaemonsBreak
    \/ ReaperSeesUse \/ ReaperDecides \/ PowerOff \/ Crash

Environment ==
    \/ Connect \/ Disconnect
    \/ \E s \in Sessions : Kill(s)

Next ==
    \/ \E s \in Sessions : Provision(s) \/ Teardown(s) \/ Continue(s)
    \/ Guest \/ Environment \/ Tick

Spec == Init /\ [][Next]_vars

\* A session's waits end (each has a timeout), the guest boots and its systemd
\* timer fires, time passes.  Clients and the user owe nothing.
Fairness ==
    /\ \A s \in Sessions : WF_vars(Continue(s))
    /\ WF_vars(SetupDone \/ SetupFails) /\ WF_vars(DaemonsStart)
    /\ WF_vars(ReaperDecides) /\ WF_vars(PowerOff)
    /\ WF_vars(Tick)

FairSpec == Spec /\ Fairness

--------------------------------------------------------------------------------
(* Properties *)

\* Whatever was killed, crashed or raced: a running guest that state.json calls
\* ready is the one the client directory's certificates open, and its first boot
\* is over (dockerhost.go, create and teardownLocked).
ReadyGuestReachable ==
    st.ready /\ running => client = disk /\ st.serial = disk /\ setup = "done"

\* Every guest that runs is known to state.json, so the next provision or
\* teardown finds it (dockerhost.go:323), and its disk still has the cloud image
\* it is backed by (cloudimage.go, PruneCloudImages).
GuestAccounted ==
    /\ running => st.exists
    /\ disk # 0 => backing \in images

\* A guest is never kept so long that its certificates expire under a session
\* that reuses it, however long it stays in use (certs.go:17).
CertsOutliveReuse ==
    [][\A s \in Sessions :
          At(s, "decide") /\ sess'[s].pc \in {"restart", "health"} => age < CertValidity]_vars

\* Having renewed the lease, a session can count on the guest: the reaper does
\* not decide to power it off before the idle timeout the session's
\* configuration names, unless the maximum age is reached or that timeout is off
\* (idle.sh, lease).
LeaseHonoured == [][reaper # reaper' /\ reaper' = "poweroff" => promised = 0 \/ age >= limits.maxAge]_vars

\* provision and teardown come back, whoever holds the lock and whatever the
\* guest does.
SessionsEnd == \A s \in Sessions : ~At(s, "idle") ~> At(s, "idle")

\* A guest nobody uses does not run forever, not even one with idleTimeout 0 or
\* whose provision was killed after the first boot.
ForgottenPowersOff ==
    running /\ setup = "done"
        ~> ~running \/ conns \/ \E s \in Sessions : ~At(s, "idle")

--------------------------------------------------------------------------------
(* The inductive invariant of the proofs, by part *)

\* What is left of a guest on a host that has no disk for it.
NoDiskNoGuest ==
    disk = 0 => ~running /\ setup = "none" /\ promised = 0

\* state.json outlives the disk it describes, and the disk its cloud image.
DiskKnown ==
    disk # 0 => st.exists /\ backing \in images

\* state.json calls ready only the guest whose first boot ended under it.
ReadyIsThisGuest ==
    st.ready => \/ disk = 0
                \/ disk = st.serial /\ client = disk /\ setup = "done"

\* A promise is kept within the limits the reaper reads.
PromiseWithinLimits == promised # 0 => promised + unused <= limits.idle

\* A provision carries a configuration that was validated.
ValidatedConfig(s) ==
    /\ sess[s].then = "image" => ValidConfig(sess[s].cfg)
    /\ At(s, "decide") => sess[s].then = "image"

\* What the holder of the lock may rely on at each step of a creation and of a
\* teardown: the files only it writes.
HolderKnows(s) ==
    LET pc == sess[s].pc IN
    /\ pc \in {"image", "record", "client", "boot", "td_client", "td_state"} => disk = 0
    /\ pc \in CreatePcs \ {"image"} => sess[s].img \in images
    /\ pc \in CreatePcs \ {"image", "record"} => st.exists /\ st.serial # 0
    /\ pc \in {"client", "boot", "cloudinit", "ready"} => ~st.ready
    /\ pc \in {"boot", "cloudinit", "ready", "prune"} => client = st.serial
    /\ pc \in {"cloudinit", "ready", "prune"} => disk = st.serial /\ backing = sess[s].img
    /\ pc \in {"ready", "prune"} => setup = "done"

GuestInv ==
    /\ NoDiskNoGuest /\ DiskKnown /\ ReadyIsThisGuest /\ PromiseWithinLimits
    /\ \A s \in Sessions : ValidatedConfig(s) /\ HolderKnows(s)

================================================================================
