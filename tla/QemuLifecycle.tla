----------------------------- MODULE QemuLifecycle -----------------------------
(****************************************************************************)
(* One y-cluster cluster of the qemu provider on one host: the qemu process *)
(* and everything the CLI persists about it -- pidfile, boot disk, ssh key, *)
(* state sidecar with the auto-expiry deadline, kubeconfig context, host    *)
(* inventory record -- under the verbs that change them (provision, start,  *)
(* stop, pause, resume, teardown, import, lifetime reap/extend/arm/disarm)  *)
(* and the host timer that fires `lifetime reap`.                           *)
(*                                                                          *)
(* A CLI invocation is a process of its own (a slot); nothing locks out a   *)
(* second one.  A command's local steps between two waits (ssh, process     *)
(* exit, k3s, a download, a scheduler call) are one action; every wait, and *)
(* every place a killed process leaves half-written files, separates two.   *)
(****************************************************************************)
EXTENDS Integers

CONSTANTS
    Slots,       \* CLI invocations that can be in progress at once
    Verbs,       \* slot -> the verbs an operator (or the timer) runs there
    Pids,        \* process ids the kernel hands out
    MaxRun,      \* lifetime.maxRun in clock ticks, 0 = no budget configured
    OnExpiries,  \* lifetime.onExpiry values a provision config may carry
    Faults,      \* the failures that may happen, a subset of FaultNames
    MaxTime      \* bound: the clock stops here

VerbNames == {"provision", "start", "stop", "pause", "resume", "teardown",
              "teardown_keep", "import", "reap", "extend", "arm", "disarm"}

\* A reap that found the deadline passed runs as one of these.
ReapVerbs == {"reap_stop", "reap_pause", "reap_teardown"}

\* prepare: download / qemu-img / cloud-localds fails.  boot: qemu does not
\* start.  ssh, install: the wait for ssh resp. the k3s or platform install
\* fails.  hang: the guest ignores poweroff and SIGTERM.  stuck: the process
\* survives SIGKILL.  kill: the CLI process dies.  vmcrash: qemu dies.
\* reboot: the host restarts.  recycle: the kernel reuses a dead qemu's pid.
\* arm: no host scheduler takes the timer.  disarm: a timer is left behind.
\* sidecar: a write of the sidecar fails, which its callers only warn about.
FaultNames == {"prepare", "boot", "ssh", "install", "hang", "stuck", "kill",
               "vmcrash", "reboot", "recycle", "arm", "disarm", "sidecar"}

ASSUME SlotsAssumption  == Slots # {}
ASSUME VerbsAssumption  == Verbs \in [Slots -> SUBSET VerbNames]
ASSUME PidsAssumption   == Pids \subseteq Nat \ {0}
ASSUME TimesAssumption  == MaxRun \in Nat /\ MaxTime \in Nat \ {0}
ASSUME ExpiryAssumption == OnExpiries \subseteq {"stop", "pause", "teardown"}
ASSUME FaultsAssumption == Faults \subseteq FaultNames

VARIABLES
    proc,       \* process table: "free", "qemu", "paused" (SIGSTOPped qemu) or
                \* "foreign" (the number belongs to some other program)
    pidfile,    \* <name>.pid, 0 = no file
    disk,       \* <name>.qcow2: "none", "blank" (no k3s yet), "k3s", "platform"
    key,        \* <name>-ssh: "none", "fresh" (the disk does not know it), "guest"
    sidecar,    \* <name>.json exists
    expiresAt,  \* its expiresAt field, 0 = empty
    onExpiry,   \* its onExpiry field
    context,    \* the kubeconfig context exists
    record,     \* the host inventory record exists
    timers,     \* pending host timers: the times they fire at
    now,        \* wall clock
    upSince,    \* history: when the running VM's budget began to count
    cmd         \* slot -> the invocation in progress

vm     == <<proc, pidfile>>
files  == <<disk, key>>
budget == <<sidecar, expiresAt, onExpiry>>
names  == <<context, record>>
clock  == <<now, upSince>>
vars   == <<proc, pidfile, disk, key, sidecar, expiresAt, onExpiry, context,
            record, timers, now, upSince, cmd>>

Idle == [pc |-> "idle", verb |-> "none", pid |-> 0, staged |-> FALSE]

ProvisionPcs == {"pv_disk", "pv_key", "pv_boot", "pv_save", "pv_ssh",
                 "pv_install", "pv_platform", "pv_staged", "pv_timer"}
StartPcs     == {"st_ssh", "st_k3s", "timer"}
PollPcs      == {"sd_wait", "sd_term", "sd_kill"}
ShutdownPcs  == PollPcs \cup {"sd_read"}
TeardownPcs  == {"td_context", "td_files", "td_record"}
Pcs == {"idle", "rs_budget", "rp_pause", "rp_disarm"} \cup ProvisionPcs
         \cup StartPcs \cup ShutdownPcs \cup TeardownPcs

Deadlines == 0 .. MaxTime + MaxRun      \* bound: extend stops here

Command == [pc : Pcs, verb : VerbNames \cup ReapVerbs \cup {"none"},
            pid : Pids \cup {0}, staged : BOOLEAN]

TypeOK ==
    /\ proc \in [Pids -> {"free", "qemu", "paused", "foreign"}]
    /\ pidfile \in Pids \cup {0}
    /\ disk \in {"none", "blank", "k3s", "platform"}
    /\ key \in {"none", "fresh", "guest"}
    /\ sidecar \in BOOLEAN
    /\ expiresAt \in Deadlines
    /\ onExpiry \in OnExpiries \cup {"stop"}
    /\ context \in BOOLEAN
    /\ record \in BOOLEAN
    /\ timers \subseteq Deadlines
    /\ now \in 1 .. MaxTime
    /\ upSince \in 0 .. MaxTime
    /\ cmd \in [Slots -> Command]
    /\ ~sidecar => expiresAt = 0

Init ==
    /\ proc = [p \in Pids |-> "free"]
    /\ pidfile = 0
    /\ disk = "none"
    /\ key = "none"
    /\ sidecar = FALSE
    /\ expiresAt = 0
    /\ onExpiry = "stop"
    /\ context = FALSE
    /\ record = FALSE
    /\ timers = {}
    /\ now = 1
    /\ upSince = 0
    /\ cmd = [s \in Slots |-> Idle]

--------------------------------------------------------------------------------
(* What the code asks of the host *)

\* process.go: any process answers signal 0.
pidAlive(p) == proc[p] # "free"

\* mutant of vmAlive: liveness without the identity check
vmAliveAnyProcess(p) == proc[p] # "free"

\* process.go: alive, and its command line names our pidfile.
vmAlive(p) == proc[p] \in {"qemu", "paused"}

\* Some qemu of this cluster is up, whether or not the pidfile says so.  It
\* holds the host ports, so preflight fails and a second qemu does not start.
Running == \E p \in Pids : vmAlive(p)

\* readPidFile succeeds: Config.IsRunning.
IsRunning == pidfile # 0 /\ vmAlive(pidfile)

\* cluster.Lookup probes the pidfile's number with signal 0 only.
Lookup == context /\ pidfile # 0 /\ pidAlive(pidfile)

\* The guest answers ssh with the key on the host.
SshWorks == key = "guest" /\ \E p \in Pids : proc[p] = "qemu"

\* LifetimeState.Expired
Expired == expiresAt # 0 /\ expiresAt <= now

LaterOf(a, b) == IF a >= b THEN a ELSE b

Goto(s, l) == cmd' = [cmd EXCEPT ![s].pc = l]
Finish(s)  == cmd' = [cmd EXCEPT ![s] = Idle]

\* An idle slot in which verb v may be typed, and one where it now runs.
MayRun(s, v) == cmd[s].pc = "idle" /\ v \in Verbs[s]
Enter(s, v, l) == cmd' = [cmd EXCEPT ![s] = [Idle EXCEPT !.pc = l, !.verb = v]]

\* lifetime.Disarm: what may be left of a set of pending timers.
AfterDisarm(pending) == {{}} \cup (IF "disarm" \in Faults THEN {pending} ELSE {})

\* mutants of Arm: the time left taken for a point in time; the disarm last
ArmAtTimeLeft(pending, deadline) == timers' = {deadline - now}
ArmThenDisarm(pending, deadline) == timers' \in AfterDisarm(pending)

\* lifetime.Arm: disarm, then schedule for the time left (at once if past).
Arm(pending, deadline) ==
    \E left \in AfterDisarm(pending) :
        \/ timers' = left \cup {LaterOf(deadline, now)}
        \/ "arm" \in Faults /\ timers' = left

\* armLifetime: the deadline is now + maxRun; without a budget or a sidecar
\* nothing is written.
armLifetime ==
    \/ expiresAt' = IF sidecar /\ MaxRun > 0 THEN now + MaxRun ELSE expiresAt
    \/ "sidecar" \in Faults /\ UNCHANGED expiresAt

--------------------------------------------------------------------------------
(* provision *)

\* mutant of ProvisionBegin: without CleanupStale
ProvisionBeginKeepsContext(s) ==
    /\ MayRun(s, "provision")
    /\ ~Running
    /\ Enter(s, "provision", "pv_disk")
    /\ UNCHANGED <<vm, files, budget, names, timers, clock>>

\* Preflight and IsRunning pass, then CleanupStale drops the old context:
\* whatever happens next, `start` cannot resolve the half-provisioned cluster.
ProvisionBegin(s) ==
    /\ MayRun(s, "provision")
    /\ ~Running
    /\ context' = FALSE
    /\ Enter(s, "provision", "pv_disk")
    /\ UNCHANGED <<vm, files, budget, record, timers, clock>>

\* mutant of ProvisionDisk: the staged path is never taken
ProvisionDiskReinstalls(s) ==
    /\ cmd[s].pc = "pv_disk"
    /\ disk' = IF disk = "none" THEN "blank" ELSE disk
    /\ Goto(s, "pv_key")
    /\ UNCHANGED <<vm, key, budget, names, timers, clock>>

\* A disk that exists is taken as staged by import; otherwise a blank one is
\* made from the cloud image.
ProvisionDisk(s) ==
    /\ cmd[s].pc = "pv_disk"
    /\ disk' = IF disk = "none" THEN "blank" ELSE disk
    /\ cmd' = [cmd EXCEPT ![s].pc = "pv_key", ![s].staged = (disk # "none")]
    /\ UNCHANGED <<vm, key, budget, names, timers, clock>>

\* ensureSSHKey removes the old keypair and writes a new one, which goes into
\* the cloud-init seed.
ProvisionKey(s) ==
    /\ cmd[s].pc = "pv_key"
    /\ key' = "fresh"
    /\ Goto(s, "pv_boot")
    /\ UNCHANGED <<vm, disk, budget, names, timers, clock>>

PrepareFails(s) ==
    /\ "prepare" \in Faults
    /\ cmd[s].pc \in {"pv_disk", "pv_key"}
    /\ key' \in IF cmd[s].pc = "pv_key" THEN {key, "none", "fresh"} ELSE {key}
    /\ Finish(s)
    /\ UNCHANGED <<vm, disk, budget, names, timers, clock>>

\* startVM: one qemu at a time (it binds the host ports and locks the disk);
\* it writes the pidfile itself.
Bootable == ~Running /\ disk # "none"
Boot(p) ==
    /\ Bootable
    /\ proc[p] = "free"
    /\ proc' = [proc EXCEPT ![p] = "qemu"]
    /\ pidfile' = p
    /\ upSince' = now

\* The seed's instance-id is new, so cloud-init installs the seeded key.
ProvisionBoot(s) ==
    /\ cmd[s].pc = "pv_boot"
    /\ \E p \in Pids : Boot(p)
    /\ key' = IF key = "fresh" THEN "guest" ELSE key
    /\ Goto(s, "pv_save")
    /\ UNCHANGED <<disk, budget, names, timers, now>>

ProvisionBootFails(s) ==
    /\ cmd[s].pc = "pv_boot"
    /\ "boot" \in Faults \/ ~Bootable
    /\ Finish(s)
    /\ UNCHANGED <<vm, files, budget, names, timers, clock>>

\* saveState writes a sidecar without a deadline, armLifetime sets it.  Either
\* may fail: without the first, the second arms the sidecar of an earlier
\* provision, if there is one.
ProvisionSave(s) ==
    /\ cmd[s].pc = "pv_save"
    /\ \/ /\ sidecar' = TRUE
          /\ onExpiry' \in OnExpiries
          /\ \/ expiresAt' = IF MaxRun > 0 THEN now + MaxRun ELSE 0
             \/ "sidecar" \in Faults /\ expiresAt' = 0
       \/ "sidecar" \in Faults /\ armLifetime /\ UNCHANGED <<sidecar, onExpiry>>
    /\ Goto(s, "pv_ssh")
    /\ UNCHANGED <<vm, files, names, timers, clock>>

ProvisionSsh(s) ==
    /\ cmd[s].pc = "pv_ssh"
    /\ SshWorks
    /\ Goto(s, IF cmd[s].staged THEN "pv_staged" ELSE "pv_install")
    /\ UNCHANGED <<vm, files, budget, names, timers, clock>>

\* What the guest installs ends up in the disk file, unless that is unlinked.
Holding(content) == IF disk = "none" THEN "none" ELSE content

\* installK3s, then the kubeconfig is imported.
ProvisionInstall(s) ==
    /\ cmd[s].pc = "pv_install"
    /\ SshWorks
    /\ disk' = Holding("k3s")
    /\ context' = TRUE
    /\ Goto(s, "pv_platform")
    /\ UNCHANGED <<vm, key, budget, record, timers, clock>>

ProvisionPlatform(s) ==
    /\ cmd[s].pc = "pv_platform"
    /\ SshWorks
    /\ disk' = Holding("platform")
    /\ Goto(s, "pv_timer")
    /\ UNCHANGED <<vm, key, budget, names, timers, clock>>

\* Staged disk: k3s comes up by itself or the wait times out; the platform is
\* taken to be on the disk already.
ProvisionStaged(s) ==
    /\ cmd[s].pc = "pv_staged"
    /\ SshWorks
    /\ disk \in {"k3s", "platform"}
    /\ context' = TRUE
    /\ Goto(s, "pv_timer")
    /\ UNCHANGED <<vm, files, budget, record, timers, clock>>

\* Every wait of provision and start that can give up.  The error returns
\* with qemu running and whatever was written so far left in place; a failed
\* k3s install may or may not have got k3s onto the disk.
WaitFails(s) ==
    /\ \/ cmd[s].pc \in {"pv_ssh", "st_ssh"} /\ ("ssh" \in Faults \/ ~SshWorks)
       \/ cmd[s].pc \in {"pv_install", "pv_platform"} /\ ("install" \in Faults \/ ~SshWorks)
       \/ cmd[s].pc \in {"pv_staged", "st_k3s"}
            /\ ("ssh" \in Faults \/ ~SshWorks \/ disk \notin {"k3s", "platform"})
    /\ disk' \in IF cmd[s].pc = "pv_install" THEN {disk, Holding("k3s")} ELSE {disk}
    /\ Finish(s)
    /\ UNCHANGED <<vm, key, budget, names, timers, clock>>

\* armHostTimerIfLifetime, the last step of provision (followed by the
\* inventory record), start and resume.
InstallTimer(s) ==
    /\ cmd[s].pc \in {"pv_timer", "timer"}
    /\ IF expiresAt # 0 THEN Arm(timers, expiresAt) ELSE UNCHANGED timers
    /\ record' = IF cmd[s].pc = "pv_timer" THEN TRUE ELSE record
    /\ Finish(s)
    /\ UNCHANGED <<vm, files, budget, context, clock>>

--------------------------------------------------------------------------------
(* start, pause, resume *)

\* bootSaved: context, sidecar, no running VM, a disk; no seed is attached.
StartBegin(s) ==
    /\ MayRun(s, "start")
    /\ context /\ sidecar /\ ~IsRunning
    /\ \E p \in Pids : Boot(p)
    /\ Enter(s, "start", "st_ssh")
    /\ UNCHANGED <<files, budget, names, timers, now>>

StartSsh(s) ==
    /\ cmd[s].pc = "st_ssh"
    /\ SshWorks
    /\ Goto(s, "st_k3s")
    /\ UNCHANGED <<vm, files, budget, names, timers, clock>>

\* mutant of StartK3s: the deadline of the last run stays
StartK3sKeepsDeadline(s) ==
    /\ cmd[s].pc = "st_k3s"
    /\ SshWorks
    /\ disk \in {"k3s", "platform"}
    /\ context' = TRUE
    /\ Goto(s, "timer")
    /\ UNCHANGED <<vm, files, budget, record, timers, clock>>

\* k3s is ready: the kubeconfig is merged again and only now does the new
\* budget begin.
StartK3s(s) ==
    /\ cmd[s].pc = "st_k3s"
    /\ SshWorks
    /\ disk \in {"k3s", "platform"}
    /\ context' = TRUE
    /\ armLifetime
    /\ Goto(s, "timer")
    /\ UNCHANGED <<vm, files, sidecar, onExpiry, record, timers, clock>>

\* qemu.Pause: SIGSTOP to the pid the pidfile names, if it is our qemu.
SigStop == IsRunning /\ proc' = [proc EXCEPT ![pidfile] = "paused"]

Pause(s) ==
    /\ MayRun(s, "pause")
    /\ Lookup
    /\ SigStop
    /\ UNCHANGED <<pidfile, files, budget, names, timers, clock, cmd>>

ResumeBegin(s) ==
    /\ MayRun(s, "resume")
    /\ Lookup /\ IsRunning
    /\ proc' = [proc EXCEPT ![pidfile] = "qemu"]
    /\ upSince' = IF Expired THEN now ELSE upSince
    /\ Enter(s, "resume", "rs_budget")
    /\ UNCHANGED <<pidfile, files, budget, names, timers, now>>

\* mutant of ResumeBudget: no timer for the fresh budget
ResumeBudgetNoTimer(s) ==
    /\ cmd[s].pc = "rs_budget"
    /\ IF Expired THEN armLifetime ELSE UNCHANGED expiresAt
    /\ Finish(s)
    /\ UNCHANGED <<vm, files, sidecar, onExpiry, names, timers, clock>>

\* A deadline that has passed is why the VM was paused: a fresh budget.
ResumeBudget(s) ==
    /\ cmd[s].pc = "rs_budget"
    /\ IF Expired THEN armLifetime ELSE UNCHANGED expiresAt
    /\ Goto(s, "timer")
    /\ UNCHANGED <<vm, files, sidecar, onExpiry, names, timers, clock>>

--------------------------------------------------------------------------------
(* stop and teardown: shutdownVM, stopVM, TeardownConfig *)

\* Both verbs remove the host timer before the VM goes.  stop needs
\* cluster.Lookup to find the cluster, teardown has its config directory.
StopBegin(s) ==
    /\ MayRun(s, "stop")
    /\ Lookup
    /\ timers' \in AfterDisarm(timers)
    /\ Enter(s, "stop", "sd_read")
    /\ UNCHANGED <<vm, files, budget, names, clock>>

TeardownBegin(s) ==
    /\ \E v \in {"teardown", "teardown_keep"} :
         MayRun(s, v) /\ Enter(s, v, "sd_read")
    /\ timers' \in AfterDisarm(timers)
    /\ UNCHANGED <<vm, files, budget, names, clock>>

\* A shutdown that ended without an error: the pidfile goes, and the verb
\* continues with what it shut the VM down for.
ShutdownDone(s) ==
    /\ pidfile' = 0
    /\ cmd' = [cmd EXCEPT ![s] =
         CASE @.verb = "stop"      -> Idle
           [] @.verb = "reap_stop" -> [@ EXCEPT !.pc = "rp_disarm", !.pid = 0]
           [] OTHER                -> [@ EXCEPT !.pc = "td_context", !.pid = 0]]

Target(s, l) == cmd' = [cmd EXCEPT ![s].pc = l, ![s].pid = pidfile]

\* mutant of ShutdownRead: without SIGCONT
ShutdownReadNoCont(s) ==
    /\ cmd[s].pc = "sd_read"
    /\ IF IsRunning
         THEN Target(s, IF sidecar THEN "sd_wait" ELSE "sd_term") /\ UNCHANGED vm
         ELSE ShutdownDone(s) /\ UNCHANGED proc
    /\ UNCHANGED <<files, budget, names, timers, clock>>

\* readPidFile: nothing of ours running, and the stale pidfile goes.  Else
\* SIGCONT and `poweroff` over ssh; without a sidecar there is no ssh
\* endpoint, and SIGTERM is next.
ShutdownRead(s) ==
    /\ cmd[s].pc = "sd_read"
    /\ IF IsRunning
         THEN /\ proc' = [proc EXCEPT ![pidfile] = "qemu"]
              /\ Target(s, IF sidecar THEN "sd_wait" ELSE "sd_term")
              /\ UNCHANGED pidfile
         ELSE /\ ShutdownDone(s)
              /\ UNCHANGED proc
    /\ UNCHANGED <<files, budget, names, timers, clock>>

\* waitForExit sees the process gone.
ShutdownGone(s) ==
    /\ cmd[s].pc \in PollPcs
    /\ ~pidAlive(cmd[s].pid)
    /\ ShutdownDone(s)
    /\ UNCHANGED <<proc, files, budget, names, timers, clock>>

\* gracefulShutdownGrace ran out: stopVM reads the pidfile again, SIGTERM.
ShutdownTerm(s) ==
    /\ cmd[s].pc = "sd_wait"
    /\ pidAlive(cmd[s].pid)
    /\ "hang" \in Faults \/ key # "guest" \/ proc[cmd[s].pid] # "qemu"
    /\ IF IsRunning THEN Target(s, "sd_term") /\ UNCHANGED pidfile
                    ELSE ShutdownDone(s)
    /\ UNCHANGED <<proc, files, budget, names, timers, clock>>

\* mutants of ShutdownKill: success without waiting for the exit; no SIGKILL
\* for a process that never got to handle SIGTERM
ShutdownKillNoWait(s) ==
    /\ cmd[s].pc = "sd_term"
    /\ "hang" \in Faults \/ proc[cmd[s].pid] = "paused"
    /\ ShutdownDone(s)
    /\ UNCHANGED <<proc, files, budget, names, timers, clock>>
ShutdownKillIfRunning(s) ==
    /\ cmd[s].pc = "sd_term"
    /\ "hang" \in Faults
    /\ proc[cmd[s].pid] # "paused"
    /\ IF pidAlive(cmd[s].pid) THEN Goto(s, "sd_kill") ELSE Finish(s)
    /\ UNCHANGED <<vm, files, budget, names, timers, clock>>

\* termGrace ran out: SIGKILL.  A process that exited just then makes the
\* kill an error, and the pidfile stays.
ShutdownKill(s) ==
    /\ cmd[s].pc = "sd_term"
    /\ "hang" \in Faults \/ proc[cmd[s].pid] = "paused"
    /\ IF pidAlive(cmd[s].pid) THEN Goto(s, "sd_kill") ELSE Finish(s)
    /\ UNCHANGED <<vm, files, budget, names, timers, clock>>

\* killGrace ran out: an error, and the pidfile stays for another attempt.
ShutdownStuck(s) ==
    /\ cmd[s].pc = "sd_kill"
    /\ "stuck" \in Faults
    /\ pidAlive(cmd[s].pid)
    /\ Finish(s)
    /\ UNCHANGED <<vm, files, budget, names, timers, clock>>

\* CleanupStale
TeardownContext(s) ==
    /\ cmd[s].pc = "td_context"
    /\ context' = FALSE
    /\ Goto(s, IF cmd[s].verb = "teardown_keep" THEN "td_record" ELSE "td_files")
    /\ UNCHANGED <<vm, files, budget, record, timers, clock>>

\* perVMArtefacts and the sidecar.
TeardownFiles(s) ==
    /\ cmd[s].pc = "td_files"
    /\ disk' = "none"
    /\ key' = "none"
    /\ sidecar' = FALSE
    /\ expiresAt' = 0
    /\ onExpiry' = "stop"
    /\ Goto(s, "td_record")
    /\ UNCHANGED <<vm, names, timers, clock>>

TeardownRecord(s) ==
    /\ cmd[s].pc = "td_record"
    /\ record' = FALSE
    /\ IF cmd[s].verb = "reap_teardown" THEN Goto(s, "rp_disarm") ELSE Finish(s)
    /\ UNCHANGED <<vm, files, budget, context, timers, clock>>

--------------------------------------------------------------------------------
(* lifetime reap, extend, arm, disarm; import *)

\* decideReap on the persisted deadline, with `pending` timers outstanding:
\* nothing to do, re-arm, or the configured action.
ReapDecides(s, pending) ==
    \/ /\ ~(context /\ sidecar) \/ expiresAt = 0
       /\ timers' = pending
       /\ UNCHANGED cmd
    \/ /\ context /\ sidecar /\ expiresAt # 0 /\ ~Expired
       /\ Arm(pending, expiresAt)
       /\ UNCHANGED cmd
    \/ /\ context /\ sidecar /\ Expired
       /\ timers' = pending
       /\ CASE onExpiry = "pause"    -> Enter(s, "reap_pause", "rp_pause")
            [] onExpiry = "teardown" -> Enter(s, "reap_teardown", "sd_read")
            [] OTHER                 -> Enter(s, "reap_stop", "sd_read")

\* By hand or from cron.
Reap(s) ==
    /\ MayRun(s, "reap")
    /\ ReapDecides(s, timers)
    /\ UNCHANGED <<vm, files, budget, names, clock>>

\* The scheduler runs a one-shot timer that is due.
TimerFires(s) ==
    /\ MayRun(s, "reap")
    /\ \E t \in timers : t <= now /\ ReapDecides(s, timers \ {t})
    /\ UNCHANGED <<vm, files, budget, names, clock>>

ReapPause(s) ==
    /\ cmd[s].pc = "rp_pause"
    /\ \/ SigStop /\ Goto(s, "rp_disarm")
       \/ ~IsRunning /\ Finish(s) /\ UNCHANGED proc
    /\ UNCHANGED <<pidfile, files, budget, names, timers, clock>>

ReapDisarm(s) ==
    /\ cmd[s].pc = "rp_disarm"
    /\ timers' \in AfterDisarm(timers)
    /\ Finish(s)
    /\ UNCHANGED <<vm, files, budget, names, clock>>

\* ExtendDeadline moves an armed deadline, passed or not, by one tick.
Extend(s) ==
    /\ MayRun(s, "extend")
    /\ context /\ sidecar /\ expiresAt # 0
    /\ expiresAt + 1 \in Deadlines
    /\ expiresAt' = expiresAt + 1
    /\ Arm(timers, expiresAt + 1)
    /\ UNCHANGED <<vm, files, sidecar, onExpiry, names, clock, cmd>>

ArmAgain(s) ==
    /\ MayRun(s, "arm")
    /\ context /\ sidecar /\ expiresAt # 0
    /\ Arm(timers, expiresAt)
    /\ UNCHANGED <<vm, files, budget, names, clock, cmd>>

Disarm(s) ==
    /\ MayRun(s, "disarm")
    /\ timers' \in AfterDisarm(timers)
    /\ UNCHANGED <<vm, files, budget, names, clock, cmd>>

\* qemu-img convert onto the disk path; a running qemu holds the image lock.
\* The imported disk knows the host's key only if it came with it.
Import(s) ==
    /\ MayRun(s, "import")
    /\ ~Running
    /\ disk' = "platform"
    /\ key' \in {key, IF key = "guest" THEN "fresh" ELSE key}
    /\ UNCHANGED <<vm, budget, names, timers, clock, cmd>>

--------------------------------------------------------------------------------
(* The host, the guest and the kernel *)

\* The process a shutdown waits on exits: on poweroff if ssh reached the
\* guest, on SIGTERM unless stopped, on SIGKILL always.  qemu may or may not
\* get to unlink its own pidfile.
QemuExits(p) ==
    /\ \E s \in Slots :
         /\ cmd[s].pid = p
         /\ \/ cmd[s].pc = "sd_wait" /\ proc[p] = "qemu" /\ key = "guest"
            \/ cmd[s].pc = "sd_term" /\ proc[p] = "qemu"
            \/ cmd[s].pc = "sd_kill" /\ vmAlive(p)
    /\ proc' = [proc EXCEPT ![p] = "free"]
    /\ pidfile' \in {pidfile, IF pidfile = p THEN 0 ELSE pidfile}
    /\ UNCHANGED <<files, budget, names, timers, clock, cmd>>

\* qemu dies on its own; also the late effect of a poweroff or signal whose
\* sender was killed or gave up.
VMCrash(p) ==
    /\ "vmcrash" \in Faults
    /\ vmAlive(p)
    /\ proc' = [proc EXCEPT ![p] = "free"]
    /\ UNCHANGED <<pidfile, files, budget, names, timers, clock, cmd>>

\* The number in a stale pidfile goes to some other program -- not within one
\* polling interval of a command that still watches it.
Recycle(p) ==
    /\ "recycle" \in Faults
    /\ pidfile = p /\ proc[p] = "free"
    /\ \A s \in Slots : cmd[s].pid # p
    /\ proc' = [proc EXCEPT ![p] = "foreign"]
    /\ UNCHANGED <<pidfile, files, budget, names, timers, clock, cmd>>

ForeignExits(p) ==
    /\ proc[p] = "foreign"
    /\ proc' = [proc EXCEPT ![p] = "free"]
    /\ UNCHANGED <<pidfile, files, budget, names, timers, clock, cmd>>

\* at(1) jobs survive a reboot, transient systemd timers do not.
Reboot ==
    /\ "reboot" \in Faults
    /\ proc' = [p \in Pids |-> "free"]
    /\ cmd' = [s \in Slots |-> Idle]
    /\ timers' \in {{}, timers}
    /\ UNCHANGED <<pidfile, files, budget, names, clock>>

\* The CLI process dies between two of its steps.
Kill(s) ==
    /\ "kill" \in Faults
    /\ cmd[s].pc # "idle"
    /\ Finish(s)
    /\ UNCHANGED <<vm, files, budget, names, timers, clock>>

Tick ==
    /\ now < MaxTime
    /\ now' = now + 1
    /\ UNCHANGED <<vm, files, budget, names, timers, upSince, cmd>>

--------------------------------------------------------------------------------
Provision(s) ==
    \/ ProvisionDisk(s) \/ ProvisionKey(s) \/ PrepareFails(s)
    \/ ProvisionBoot(s) \/ ProvisionBootFails(s) \/ ProvisionSave(s)
    \/ ProvisionSsh(s) \/ ProvisionInstall(s) \/ ProvisionPlatform(s)
    \/ ProvisionStaged(s)

Shutdown(s) ==
    \/ ShutdownRead(s) \/ ShutdownGone(s) \/ ShutdownTerm(s)
    \/ ShutdownKill(s) \/ ShutdownStuck(s)

Teardown(s) == TeardownContext(s) \/ TeardownFiles(s) \/ TeardownRecord(s)

\* The next step of the invocation in progress in slot s.
Continue(s) ==
    \/ Provision(s) \/ WaitFails(s) \/ InstallTimer(s)
    \/ StartSsh(s) \/ StartK3s(s) \/ ResumeBudget(s)
    \/ Shutdown(s) \/ Teardown(s) \/ ReapPause(s) \/ ReapDisarm(s)

\* A new invocation by the operator.
Begin(s) ==
    \/ ProvisionBegin(s) \/ StartBegin(s) \/ Pause(s) \/ ResumeBegin(s)
    \/ StopBegin(s) \/ TeardownBegin(s) \/ Reap(s) \/ Extend(s)
    \/ ArmAgain(s) \/ Disarm(s) \/ Import(s)

Environment ==
    \/ \E p \in Pids : QemuExits(p) \/ VMCrash(p) \/ Recycle(p) \/ ForeignExits(p)
    \/ \E s \in Slots : Kill(s)
    \/ Reboot
    \/ Tick

Next ==
    \/ \E s \in Slots : Begin(s) \/ Continue(s) \/ TimerFires(s)
    \/ Environment

Spec == Init /\ [][Next]_vars

\* A command in progress is scheduled and its waits end; a due timer is run
\* once no command occupies its slot; the operator owes the system nothing.
Fairness ==
    /\ \A s \in Slots : WF_vars(Continue(s)) /\ SF_vars(TimerFires(s))
    /\ \A p \in Pids : WF_vars(QemuExits(p))

FairSpec == Spec /\ Fairness

\* What Provision leaves when it succeeds, just after its deadline was set.
InitProvisioned ==
    \E p \in Pids, e \in OnExpiries :
        /\ proc = [q \in Pids |-> IF q = p THEN "qemu" ELSE "free"]
        /\ pidfile = p
        /\ disk = "platform"
        /\ key = "guest"
        /\ sidecar = TRUE
        /\ expiresAt = IF MaxRun > 0 THEN 1 + MaxRun ELSE 0
        /\ onExpiry = e
        /\ context = TRUE
        /\ record = TRUE
        /\ timers = IF MaxRun > 0 THEN {1 + MaxRun} ELSE {}
        /\ now = 1
        /\ upSince = 1
        /\ cmd = [s \in Slots |-> Idle]

ProvisionedSpec == InitProvisioned /\ [][Next]_vars /\ Fairness

--------------------------------------------------------------------------------
(* Properties *)

AllIdle == \A s \in Slots : cmd[s].pc = "idle"
VMUp    == \E p \in Pids : proc[p] = "qemu"

\* One command at a time, whatever fails or is killed half-way: a live qemu is
\* the one the pidfile names (so stop, teardown and IsRunning reach it), its
\* disk file exists, and the key on the host opens the guest.  Behind it are
\* CleanupStale before provision touches the key, the pidfile that outlives a
\* failed shutdown, and kill-before-delete in TeardownConfig.
VMAccounted ==
    \A p \in Pids : vmAlive(p) => pidfile = p /\ disk # "none" /\ key = "guest"

\* The strengthening of VMAccounted that one command at a time preserves: the
\* context is gone before provision replaces the key and before teardown
\* removes it, provision touches disk and key only while no qemu lives, and a
\* shutdown waits on the only qemu there is.
VMInv ==
    /\ VMAccounted
    /\ context => key = "guest"
    /\ \A s \in Slots :
         /\ cmd[s].pc \in {"pv_disk", "pv_key", "pv_boot"} => ~Running /\ ~context
         /\ cmd[s].pc = "pv_boot" => key = "fresh"
         /\ cmd[s].pc \in PollPcs => \A p \in Pids : vmAlive(p) => cmd[s].pid = p
         /\ cmd[s].pc \in TeardownPcs => ~Running
         /\ cmd[s].pc = "td_files" => ~context

\* No command signals, stops or waits on a process that is not our qemu, even
\* when the pidfile is stale and its number belongs to another program
\* (process.go, vmAlive).
NoForeignSignal ==
    [][\A p \in Pids : proc[p] = "foreign" =>
          /\ proc'[p] \in {"foreign", "free"}
          /\ \A s \in Slots : cmd'[s].pid = p => cmd[s].pid = p]_vars

\* Between commands, a VM that runs on a budget has a deadline and a pending
\* host timer that fires no later than that deadline, or at once if it passed
\* (lifetime.go, armHostTimerIfLifetime after provision, start and resume).
ArmedWhileUp ==
    MaxRun > 0 /\ VMUp /\ AllIdle =>
        /\ expiresAt # 0
        /\ \E t \in timers : t <= LaterOf(expiresAt, now)

\* A reap decides to act only on a VM that has been up for its whole budget
\* since it was provisioned, started, or resumed past its deadline: no timer or
\* deadline of an earlier run cuts a later one short (README: "The budget begins
\* when the cluster starts (re-anchored on every start)").
FullBudget ==
    [][\A s \in Slots : cmd[s].verb # cmd'[s].verb /\ cmd'[s].verb \in ReapVerbs
          => now >= upSince + MaxRun]_vars

\* A VM past its deadline does not stay up: it is stopped, paused, removed or
\* given a new deadline, whatever sequence of verbs led there.
ExpiredIsReaped == (VMUp /\ Expired) ~> ~(VMUp /\ Expired)

\* A guest that honours poweroff is never cut off by SIGTERM or SIGKILL, not
\* even when the VM was paused (lifecycle.go, shutdownVM: the hard power-off
\* drops the guest pagecache).
NoHardPowerOff ==
    \A s \in Slots : cmd[s].pc \notin {"sd_term", "sd_kill"}

\* A disk that holds the whole platform -- provisioned or imported -- is booted
\* as it is and never installed over; only teardown removes it (qemu.go,
\* Provision: "Re-installing k3s here would clobber the appliance's pre-baked
\* state").
PlatformNotClobbered ==
    [][disk = "platform" => disk' \in {"platform", "none"}]_vars

\* A shutdown that returns without an error leaves no VM up, also when another
\* stop, teardown, pause or reap acts on the same VM meanwhile.
DownWhenDone ==
    [][\A s \in Slots :
          /\ cmd[s].pc \in ShutdownPcs
          /\ cmd'[s].pc \notin ShutdownPcs
          => ~Running]_vars

\* Every invocation comes back to the prompt: each wait has a way out even if
\* another command freezes the VM it waits for.
CommandsFinish == \A s \in Slots : cmd[s].pc # "idle" ~> cmd[s].pc = "idle"

--------------------------------------------------------------------------------
(* Why the properties hold: what one command at a time preserves, besides *)
(* VMInv.  WatchInv also holds of concurrent shutdowns. *)

\* Whoever waits for a shutdown waits for the only qemu there is.
WatchInv ==
    \A p \in Pids : vmAlive(p) =>
        pidfile = p /\ \A s \in Slots : cmd[s].pc \in PollPcs => cmd[s].pid = p

\* A provision under way on a disk with the platform took it for staged.
PlatformInv ==
    \A s \in Slots : disk = "platform" =>
        /\ cmd[s].pc # "pv_install"
        /\ cmd[s].pc \in {"pv_key", "pv_boot", "pv_save", "pv_ssh"} => cmd[s].staged

\* A VM that is up has a sidecar, so its shutdown begins with poweroff over
\* ssh, and the qemu it waits for has been woken up.
PowerInv ==
    /\ NoHardPowerOff
    /\ \A s \in Slots : cmd[s].pc = "sd_wait" =>
         cmd[s].pid \in Pids /\ proc[cmd[s].pid] \in {"qemu", "free"}
    /\ Running => sidecar \/ \E s \in Slots : cmd[s].pc = "pv_save"

\* A deadline is a whole budget away from the time the VM came up, but for the
\* moments between a boot or resume and the new deadline; start reaches its
\* moment with everything its waits need.
BudgetInv ==
    /\ upSince <= now
    /\ MaxRun = 0 => expiresAt = 0
    /\ context => disk \in {"k3s", "platform"}
    /\ \A s \in Slots :
         /\ cmd[s].pc \in {"st_ssh", "st_k3s"} => sidecar /\ context /\ SshWorks
         /\ \/ expiresAt = 0 \/ expiresAt >= upSince + MaxRun
            \/ cmd[s].pc \in {"pv_save", "st_ssh", "st_k3s"}
            \/ cmd[s].pc = "rs_budget" /\ Expired

\* The steps of provision, start and resume that find the VM up.
UpPcs == {"pv_save", "pv_ssh", "pv_install", "pv_platform", "pv_staged",
          "pv_timer", "st_ssh", "st_k3s", "rs_budget", "timer"}

\* Where no wait fails, a VM that is up between two commands has all that the
\* timer's reap looks for, and a command that left it without a timer is not
\* over.
ArmedInv ==
    /\ ArmedWhileUp
    /\ sidecar => expiresAt # 0
    /\ Running => sidecar \/ \E s \in Slots : cmd[s].pc = "pv_save"
    /\ Running => context \/ \E s \in Slots :
         cmd[s].pc \in {"pv_save", "pv_ssh", "pv_install", "pv_staged"}
    /\ disk = "blank" => \E s \in Slots :
         /\ cmd[s].pc \in {"pv_key", "pv_boot", "pv_save", "pv_ssh", "pv_install"}
         /\ ~cmd[s].staged
    /\ \A s \in Slots :
         /\ cmd[s].pc \in {"pv_key", "pv_boot"} => disk # "none"
         /\ cmd[s].pc \in UpPcs => SshWorks
         /\ cmd[s].pc = "rp_disarm" => ~VMUp

--------------------------------------------------------------------------------
(* What comments and docs of the code say, and the code does not keep *)

\* qemu.go:270: provision ends with k3s and the platform on the disk, installed
\* by it or baked into an imported disk.
ProvisionedHasPlatform ==
    \A s \in Slots : cmd[s].pc = "pv_timer" => disk = "platform"

================================================================================
