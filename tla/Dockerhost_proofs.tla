--------------------------- MODULE Dockerhost_proofs ---------------------------
(****************************************************************************)
(* TLAPS proofs about Dockerhost: for every set of sessions, whatever each  *)
(* of them runs, every set of configurations, daemon pins and images, every *)
(* set of faults, and every value of the times that certs.go allows.        *)
(****************************************************************************)
EXTENDS Dockerhost, TLAPS

\* The part of TypeOK about the flock and the sessions.
SessOK ==
    /\ lock \in {{}} \cup {{s} : s \in Sessions}
    /\ sess \in [Sessions -> Progress]
    /\ \A s \in Sessions : sess[s].pc \notin {"idle", "lock"} => lock = {s}

Waiting(s) == sess[s].pc \in {"idle", "lock"}

LEMMA IdleType == Idle \in Progress
  BY DEF Idle, Progress, Pcs

\* The ways an action moves its session on.
LEMMA SessGoto ==
    ASSUME SessOK, NEW s \in Sessions, ~Waiting(s), NEW l \in Pcs, Goto(s, l)
    PROVE  /\ SessOK'
           /\ sess'[s].pc = l /\ sess'[s].img = sess[s].img
           /\ sess'[s].cfg = sess[s].cfg /\ sess'[s].then = sess[s].then
  BY DEF SessOK, Waiting, Goto, Progress

LEMMA SessReturn ==
    ASSUME SessOK, NEW s \in Sessions, Return(s)
    PROVE  SessOK' /\ sess'[s] = Idle /\ sess'[s].pc = "idle" /\ sess'[s].then = "end"
<1>1. sess' \in [Sessions -> Progress] /\ sess'[s] = Idle
  BY IdleType DEF SessOK, Return
<1>4. Idle.pc = "idle" /\ Idle.then = "end"
  BY DEF Idle
<1>2. lock' \in {{}} \cup {{t} : t \in Sessions}
  BY DEF SessOK, Return
<1>3. ASSUME NEW t \in Sessions, sess'[t].pc \notin {"idle", "lock"}
      PROVE  lock' = {t}
  <2>1. t # s /\ sess'[t] = sess[t]
    BY <1>1, <1>3 DEF Return, SessOK, Idle
  <2>2. lock = {t}
    BY <1>3, <2>1 DEF SessOK
  <2> QED
    BY <2>1, <2>2 DEF Return
<1> QED
  BY <1>1, <1>2, <1>3, <1>4 DEF SessOK

LEMMA SessDiscard ==
    ASSUME SessOK, NEW s \in Sessions, ~Waiting(s), NEW after \in {"image", "end"},
           Discard(s, after)
    PROVE  /\ SessOK'
           /\ sess'[s].pc = "td_vm"
           /\ after = "image" => sess'[s].cfg = sess[s].cfg /\ sess'[s].then = sess[s].then
           /\ after = "end" => sess'[s].then = "end"
<1>1. sess[s] \in Progress /\ "td_vm" \in Pcs
  BY DEF SessOK, Pcs, TeardownPcs
<1>2. CASE after = "image"
  <2>1. [sess[s] EXCEPT !.pc = "td_vm", !.boot = FALSE] \in Progress
    BY <1>1 DEF Progress
  <2>2. sess' = [sess EXCEPT ![s] = [@ EXCEPT !.pc = "td_vm", !.boot = FALSE]]
    BY <1>2 DEF Discard
  <2> QED
    BY <1>1, <1>2, <2>1, <2>2 DEF SessOK, Discard, Progress, Waiting
<1>3. CASE after = "end"
  <2>1. [Idle EXCEPT !.pc = "td_vm"] \in Progress
    BY <1>1, IdleType DEF Progress
  <2>2. sess' = [sess EXCEPT ![s] = [Idle EXCEPT !.pc = "td_vm"]]
    BY <1>3 DEF Discard
  <2> QED
    BY <1>1, <1>3, <2>1, <2>2 DEF SessOK, Discard, Progress, Waiting, Idle
<1> QED
  BY <1>2, <1>3

\* There is always a serial no file or disk holds.
LEMMA NewCAFresh == NewCA \in Serials /\ NewCA \notin {client, disk, st.serial}
<1>1. \E n \in Serials : n \notin {client, disk, st.serial}
  BY DEF Serials
<1> QED
  BY <1>1 DEF NewCA

LEMMA UpToType ==
    ASSUME NEW cap \in Nat, NEW t \in 0 .. cap
    PROVE  UpTo(cap, t) \in {t, t + 1} /\ UpTo(cap, t) \in 0 .. cap
  BY DEF UpTo

--------------------------------------------------------------------------------
(* Type correctness *)

\* Type correctness of a session's step.
LEMMA TypeContinue ==
    ASSUME TypeOK, NEW s \in Sessions, Continue(s)
    PROVE  TypeOK'
<1>s. SessOK /\ sess[s] \in Progress
  BY DEF TypeOK, SessOK
<1>p. TeardownPcs \subseteq Pcs /\ CreatePcs \subseteq Pcs
  BY DEF Pcs, TeardownPcs, CreatePcs
<1>c. NoState \in State /\ sess[s].cfg \in Configs \cup {NoConfig} /\ NoConfig.shape = "none"
  BY <1>s DEF NoState, State, Progress, NoConfig
<1>1. CASE Lock(s)
  <2>1. ASSUME NEW l \in Pcs PROVE [sess[s] EXCEPT !.pc = l] \in Progress
    BY <1>s DEF Progress
  <2>2. SessOK'
    BY <1>1, <1>s, <2>1 DEF Lock, SessOK, At, Pcs, TeardownPcs
  <2> QED
    BY <1>1, <2>2 DEF Lock, TypeOK, SessOK, files, guest, ages
<1>2. CASE LockTimeout(s) \/ NoImage(s) \/ TeardownStuck(s)
  <2>1. SessOK'
    BY <1>2, <1>s, SessReturn DEF LockTimeout, NoImage, TeardownStuck
  <2> QED
    BY <1>2, <2>1 DEF LockTimeout, NoImage, TeardownStuck, TypeOK, SessOK, files, guest, ages
<1>3. CASE Decide(s)
  <2>1. SessOK'
    BY <1>3, <1>s, SessGoto, SessDiscard DEF Decide, Waiting, At, Pcs, CreatePcs, Verdict
  <2> QED
    BY <1>3, <2>1 DEF Decide, TypeOK, SessOK, files, guest, ages
<1>4. CASE Restart(s)
  <2>1. ASSUME NEW l \in Pcs PROVE [sess[s] EXCEPT !.pc = l, !.boot = TRUE] \in Progress
    BY <1>s DEF Progress
  <2>2. CASE sess' = [sess EXCEPT ![s].pc = "health", ![s].boot = TRUE] /\ UNCHANGED lock
    <3>1. sess' = [sess EXCEPT ![s] = [sess[s] EXCEPT !.pc = "health", !.boot = TRUE]]
      BY <1>s, <2>2 DEF SessOK
    <3>2. [sess[s] EXCEPT !.pc = "health", !.boot = TRUE] \in Progress
      BY <2>1 DEF Pcs
    <3>3. sess' \in [Sessions -> Progress] /\ lock = {s} /\ lock' = lock
      BY <1>4, <1>s, <2>2, <3>1, <3>2 DEF Restart, At, SessOK
    <3>4. \A t \in Sessions \ {s} : sess'[t] = sess[t]
      BY <1>s, <3>1 DEF SessOK
    <3>5. SessOK'
      BY <1>s, <3>3, <3>4 DEF SessOK
    <3>6. running' \in BOOLEAN /\ UNCHANGED <<files, setup, daemons, limits, reaper, conns, ages>>
      BY <1>4, <2>2 DEF Restart, TypeOK
    <3> QED
      BY <3>5, <3>6 DEF TypeOK, SessOK, files, ages
  <2>3. CASE Discard(s, "image") /\ UNCHANGED running
    <3>1. SessOK'
      BY <1>4, <1>s, <2>3, SessDiscard DEF Restart, Waiting, At
    <3> QED
      BY <1>4, <2>3, <3>1 DEF Restart, TypeOK, SessOK, files, ages
  <2> QED
    BY <1>4, <2>2, <2>3 DEF Restart
<1>5. CASE Healthy(s) \/ Unhealthy(s) \/ CreateFails(s)
  <2>1. SessOK'
    BY <1>5, <1>s, SessGoto, SessDiscard
       DEF Healthy, Unhealthy, CreateFails, Waiting, At, Pcs
  <2> QED
    BY <1>5, <2>1 DEF Healthy, Unhealthy, CreateFails, TypeOK, SessOK, files, guest, ages
<1>6. CASE RenewLease(s)
  <2>1. SessOK'
    BY <1>6, <1>s, SessGoto DEF RenewLease, Waiting, At, Pcs
  <2>2. sess[s].cfg.idle \in 0 .. IdleCap /\ 0 \in 0 .. IdleCap
    BY <1>c, ConfigAssumption, TimesAssumption DEF NoConfig
  <2> QED
    BY <1>6, <1>c, <2>1, <2>2 DEF RenewLease, TypeOK, SessOK, files
<1>7. CASE SaveLease(s)
  <2>1. SessOK'
    BY <1>7, <1>s, SessReturn DEF SaveLease
  <2>2. [st EXCEPT !.exists = TRUE] \in State
    BY DEF TypeOK, State
  <2> QED
    BY <1>7, <2>1, <2>2 DEF SaveLease, saveState, TypeOK, SessOK, guest, ages
<1>8. CASE EnsureImage(s)
  <2>1. ASSUME NEW i \in Images PROVE [sess[s] EXCEPT !.pc = "record", !.img = i] \in Progress
    BY <1>s, <1>p DEF Progress, CreatePcs
  <2>2. SessOK'
    BY <1>8, <1>s, <2>1 DEF EnsureImage, SessOK, At
  <2> QED
    BY <1>8, <2>2 DEF EnsureImage, TypeOK, SessOK, guest, ages
<1>9. CASE Record(s)
  <2>1. SessOK'
    BY <1>9, <1>s, <1>p, SessGoto DEF Record, Waiting, At, CreatePcs
  <2>2. st' \in State
    <3>1. sess[s].cfg.shape \in {c.shape : c \in Configs} \cup {"none"}
      BY <1>c
    <3>2. sess[s].pins \in PinSets \cup {0}
      BY <1>s DEF Progress
    <3> QED
      BY <1>9, <3>1, <3>2, NewCAFresh DEF Record, saveState, State
  <2> QED
    BY <1>9, <2>1, <2>2, TimesAssumption DEF Record, TypeOK, SessOK, guest, AgeCap
<1>10. CASE WriteClientDir(s)
  <2>1. SessOK'
    BY <1>10, <1>s, <1>p, SessGoto DEF WriteClientDir, Waiting, At, CreatePcs
  <2> QED
    BY <1>10, <2>1 DEF WriteClientDir, TypeOK, SessOK, guest, ages, State
<1>11. CASE ProvisionGuest(s)
  <2>1. SessOK'
    BY <1>11, <1>s, <1>p, SessGoto DEF ProvisionGuest, Waiting, At, CreatePcs
  <2>2. sess[s].img \in Images \cup {0}
    BY <1>s DEF Progress
  <2> QED
    BY <1>11, <1>c, <2>1, <2>2 DEF ProvisionGuest, guestSpec, TypeOK, SessOK, ages, State
<1>12. CASE ProvisionGuestFails(s)
  <2>1. SessOK'
    BY <1>12, <1>s, SessDiscard DEF ProvisionGuestFails, Waiting, At
  <2>2. sess[s].img \in Images \cup {0}
    BY <1>s DEF Progress
  <2>3. st.serial \in Serials \cup {0}
    BY DEF TypeOK, State
  <2> QED
    BY <1>12, <2>1, <2>2, <2>3 DEF ProvisionGuestFails, TypeOK, SessOK, guest, ages
<1>13. CASE CloudInitDone(s)
  <2>1. SessOK'
    BY <1>13, <1>s, <1>p, SessGoto DEF CloudInitDone, Waiting, At, CreatePcs
  <2> QED
    BY <1>13, <2>1 DEF CloudInitDone, TypeOK, SessOK, files, guest, ages
<1>14. CASE Ready(s)
  <2>1. SessOK'
    BY <1>14, <1>s, <1>p, SessGoto DEF Ready, Waiting, At, CreatePcs
  <2>2. [[st EXCEPT !.ready = TRUE] EXCEPT !.exists = TRUE] \in State
    BY DEF TypeOK, State
  <2> QED
    BY <1>14, <2>1, <2>2 DEF Ready, saveState, TypeOK, SessOK, guest, ages
<1>15. CASE Prune(s)
  <2>1. SessOK'
    BY <1>15, <1>s, SessReturn DEF Prune
  <2> QED
    BY <1>15, <2>1 DEF Prune, TypeOK, SessOK, guest, ages
<1>16. CASE TeardownVM(s)
  <2>1. SessOK'
    BY <1>16, <1>s, <1>p, SessGoto DEF TeardownVM, Waiting, At, TeardownPcs
  <2>2. 0 \in 0 .. IdleCap
    BY TimesAssumption
  <2> QED
    BY <1>16, <2>1, <2>2 DEF TeardownVM, TypeOK, SessOK
<1>17. CASE TeardownClient(s)
  <2>1. SessOK'
    BY <1>17, <1>s, <1>p, SessGoto DEF TeardownClient, Waiting, At, TeardownPcs
  <2> QED
    BY <1>17, <2>1 DEF TeardownClient, TypeOK, SessOK, guest, ages
<1>18. CASE TeardownState(s)
  <2>1. SessOK'
    BY <1>18, <1>s, <1>p, SessGoto, SessReturn DEF TeardownState, Waiting, At, CreatePcs
  <2> QED
    BY <1>18, <1>c, <2>1, TimesAssumption DEF TeardownState, TypeOK, SessOK, guest, AgeCap
<1> QED
  BY <1>1, <1>2, <1>3, <1>4, <1>5, <1>6, <1>7, <1>8, <1>9, <1>10, <1>11, <1>12, <1>13,
     <1>14, <1>15, <1>16, <1>17, <1>18 DEF Continue

LEMMA TypeEnter ==
    ASSUME TypeOK, NEW s \in Sessions, Provision(s) \/ Teardown(s)
    PROVE  TypeOK'
<1>s. SessOK
  BY DEF TypeOK, SessOK
<1>1. ASSUME NEW c \in Configs, NEW p \in PinSets
      PROVE  [Idle EXCEPT !.pc = "lock", !.cfg = c, !.pins = p, !.then = "image"] \in Progress
  BY IdleType DEF Progress, Pcs
<1>2. [Idle EXCEPT !.pc = "lock"] \in Progress
  BY IdleType DEF Progress, Pcs
<1>3. SessOK'
  <2>1. CASE Provision(s)
    <3>1. PICK c \in Configs, p \in PinSets :
            sess' = [sess EXCEPT ![s] = [Idle EXCEPT !.pc = "lock", !.cfg = c,
                                                     !.pins = p, !.then = "image"]]
      BY <2>1 DEF Provision
    <3> QED
      BY <1>s, <1>1, <2>1, <3>1 DEF Provision, SessOK, Idle
  <2>2. CASE Teardown(s)
    BY <1>s, <1>2, <2>2 DEF Teardown, SessOK, Idle
  <2> QED
    BY <2>1, <2>2
<1> QED
  BY <1>3 DEF Provision, Teardown, TypeOK, SessOK, files, guest, ages

LEMMA TypeGuest ==
    ASSUME TypeOK, Guest \/ Connect \/ Disconnect \/ Tick
    PROVE  TypeOK'
<1>0. 0 \in 0 .. IdleCap
  BY TimesAssumption
<1>1. CASE Guest
  <2>1. CASE SetupDone \/ ReaperSeesUse
    BY <1>0, <2>1 DEF SetupDone, ReaperSeesUse, TypeOK, files, guest
  <2>2. CASE SetupFails \/ DaemonsStart \/ DaemonsBreak \/ ReaperDecides
    BY <2>2 DEF SetupFails, DaemonsStart, DaemonsBreak, ReaperDecides, TypeOK, files, ages
  <2>3. CASE PowerOff \/ Crash
    BY <2>3 DEF PowerOff, Crash, GuestStops, TypeOK, files, ages
  <2> QED
    BY <1>1, <2>1, <2>2, <2>3 DEF Guest
<1>2. CASE Connect \/ Disconnect
  BY <1>2 DEF Connect, Disconnect, TypeOK, files, ages
<1>3. CASE Tick
  <2>1. age' \in 0 .. AgeCap /\ unused' \in 0 .. IdleCap
    BY <1>3, UpToType, TimesAssumption DEF Tick, TypeOK, AgeCap
  <2>2. promised' \in 0 .. IdleCap
    BY <1>3, TimesAssumption DEF Tick, TypeOK
  <2> QED
    BY <1>3, <2>1, <2>2 DEF Tick, TypeOK, files, guest
<1> QED
  BY <1>1, <1>2, <1>3

LEMMA TypeStep == TypeOK /\ [Next]_vars => TypeOK'
<1> SUFFICES ASSUME TypeOK, [Next]_vars PROVE TypeOK'
  OBVIOUS
<1>1. ASSUME NEW s \in Sessions, Kill(s) PROVE TypeOK'
  <2>1. SessOK'
    BY <1>1, SessReturn DEF Kill, TypeOK, SessOK
  <2> QED
    BY <1>1, <2>1 DEF Kill, TypeOK, SessOK, files, guest, ages
<1>2. CASE UNCHANGED vars
  BY <1>2 DEF vars, TypeOK
<1> QED
  BY <1>1, <1>2, TypeEnter, TypeContinue, TypeGuest DEF Next, Environment

LEMMA TypeInit == Init => TypeOK
<1>1. 0 \in 0 .. IdleCap /\ 0 \in 0 .. AgeCap
  BY TimesAssumption DEF AgeCap
<1>2. NoState \in State /\ Idle.pc = "idle"
  BY DEF NoState, State, Idle
<1> QED
  BY <1>1, <1>2, IdleType DEF Init, TypeOK

\* Whatever sessions, guest and clients do, every variable stays in its type
\* and only the holder of the flock is past it (dockerhost.go, withLock).
THEOREM TypeCorrect == Spec => []TypeOK
<1> QED
  BY TypeInit, TypeStep, PTL DEF Spec

--------------------------------------------------------------------------------
(* The guest invariant *)

\* A session that does not hold the flock knows nothing of the files.
LEMMA WaitingKnows ==
    ASSUME NEW t \in Sessions, Waiting(t)'
    PROVE  HolderKnows(t)'
  BY DEF Waiting, HolderKnows, CreatePcs

\* Only one session is past the flock.
LEMMA OthersWait ==
    ASSUME TypeOK, NEW s \in Sessions, ~Waiting(s), NEW t \in Sessions \ {s}
    PROVE  Waiting(t)
  BY DEF TypeOK, Waiting

LEMMA SameFilesKnow ==
    ASSUME NEW t \in Sessions, HolderKnows(t), sess'[t] = sess[t],
           UNCHANGED <<files, setup>>
    PROVE  HolderKnows(t)'
  BY DEF HolderKnows, files

\* A session's step that leaves the files alone and puts the session at a step
\* that relies on none of them.
KnowsNothingAt == {"idle", "lock", "decide", "restart", "health", "lease", "save", "td_vm"}

LEMMA NothingToKnow ==
    ASSUME NEW t \in Sessions, sess'[t].pc \in KnowsNothingAt
    PROVE  HolderKnows(t)'
  BY DEF KnowsNothingAt, HolderKnows, CreatePcs

--------------------------------------------------------------------------------
\* The parts of the invariant about the files and the guest, for a session's step.
FilesInv == NoDiskNoGuest /\ DiskKnown /\ ReadyIsThisGuest /\ PromiseWithinLimits

LEMMA SameFilesInv ==
    ASSUME FilesInv, UNCHANGED <<files, guest, ages>>
    PROVE  FilesInv'
  BY DEF FilesInv, NoDiskNoGuest, DiskKnown, ReadyIsThisGuest, PromiseWithinLimits,
         files, guest, ages

LEMMA FilesContinue ==
    ASSUME TypeOK, FilesInv, NEW s \in Sessions, HolderKnows(s), Continue(s)
    PROVE  FilesInv'
<1> USE DEF FilesInv
<1>1. CASE Lock(s) \/ LockTimeout(s) \/ Decide(s) \/ Healthy(s) \/ Unhealthy(s) \/ NoImage(s)
           \/ CreateFails(s) \/ TeardownStuck(s)
  BY <1>1, SameFilesInv
     DEF Lock, LockTimeout, Decide, Healthy, Unhealthy, NoImage, CreateFails, TeardownStuck
<1>2. CASE Restart(s)
  BY <1>2 DEF Restart, NoDiskNoGuest, DiskKnown, ReadyIsThisGuest, PromiseWithinLimits,
              files, ages
<1>3. CASE RenewLease(s)
  <2>1. NoDiskNoGuest'
    BY <1>3 DEF RenewLease, SshAnswers, NoDiskNoGuest, files
  <2>2. DiskKnown' /\ ReadyIsThisGuest'
    BY <1>3 DEF RenewLease, DiskKnown, ReadyIsThisGuest, files
  <2>3. PromiseWithinLimits'
    <3>1. sess[s].cfg.idle \in Nat
      BY ConfigAssumption, TimesAssumption DEF TypeOK, Progress, NoConfig
    <3> QED
      BY <1>3, <3>1 DEF RenewLease, PromiseWithinLimits
  <2> QED
    BY <2>1, <2>2, <2>3
<1>4. CASE SaveLease(s)
  BY <1>4 DEF SaveLease, saveState, NoDiskNoGuest, DiskKnown, ReadyIsThisGuest,
              PromiseWithinLimits, guest, ages, TypeOK, State
<1>5. CASE EnsureImage(s)
  BY <1>5 DEF EnsureImage, NoDiskNoGuest, DiskKnown, ReadyIsThisGuest, PromiseWithinLimits,
              guest, ages
<1>6. CASE Record(s)
  <2>1. disk = 0
    BY <1>6 DEF Record, HolderKnows, At
  <2> QED
    BY <1>6, <2>1 DEF Record, NoDiskNoGuest, DiskKnown, ReadyIsThisGuest,
        PromiseWithinLimits, guest
<1>7. CASE WriteClientDir(s)
  BY <1>7 DEF WriteClientDir, At, HolderKnows, NoDiskNoGuest, DiskKnown, ReadyIsThisGuest,
              PromiseWithinLimits, guest, ages
<1>8. CASE ProvisionGuest(s)
  <2>1. /\ disk = 0 /\ disk' = st.serial /\ st.serial # 0 /\ ~st.ready /\ st.exists
        /\ backing' = sess[s].img /\ sess[s].img \in images
    BY <1>8 DEF ProvisionGuest, guestSpec, HolderKnows, At, CreatePcs
  <2> QED
    BY <1>8, <2>1 DEF ProvisionGuest, NoDiskNoGuest, DiskKnown, ReadyIsThisGuest,
        PromiseWithinLimits, ages
<1>9. CASE ProvisionGuestFails(s)
  <2>1. disk = 0 /\ st.serial # 0 /\ ~st.ready /\ st.exists /\ sess[s].img \in images
    BY <1>9 DEF ProvisionGuestFails, HolderKnows, At, CreatePcs
  <2> QED
    BY <1>9, <2>1 DEF ProvisionGuestFails, NoDiskNoGuest, DiskKnown, ReadyIsThisGuest,
        PromiseWithinLimits, guest, ages
<1>10. CASE CloudInitDone(s)
  BY <1>10 DEF CloudInitDone, files, NoDiskNoGuest, DiskKnown, ReadyIsThisGuest,
               PromiseWithinLimits, guest, ages
<1>11. CASE Ready(s)
  <2>1. disk = st.serial /\ client = disk /\ setup = "done"
    BY <1>11 DEF Ready, HolderKnows, At
  <2>2. st'.serial = st.serial /\ st'.exists
    BY <1>11 DEF Ready, saveState, TypeOK, State
  <2> QED
    BY <1>11, <2>1, <2>2 DEF Ready, NoDiskNoGuest, DiskKnown, ReadyIsThisGuest,
        PromiseWithinLimits, guest, ages
<1>12. CASE Prune(s)
  <2>1. backing = sess[s].img /\ sess[s].img \in images
    BY <1>12 DEF Prune, HolderKnows, At, CreatePcs
  <2> QED
    BY <1>12, <2>1 DEF Prune, NoDiskNoGuest, DiskKnown, ReadyIsThisGuest,
        PromiseWithinLimits, guest, ages
<1>13. CASE TeardownVM(s)
  BY <1>13 DEF TeardownVM, NoDiskNoGuest, DiskKnown, ReadyIsThisGuest, PromiseWithinLimits
<1>14. CASE TeardownClient(s)
  <2>1. disk = 0
    BY <1>14 DEF TeardownClient, HolderKnows, At
  <2> QED
    BY <1>14, <2>1 DEF TeardownClient, NoDiskNoGuest, DiskKnown, ReadyIsThisGuest,
        PromiseWithinLimits, guest, ages
<1>15. CASE TeardownState(s)
  <2>1. disk = 0
    BY <1>15 DEF TeardownState, HolderKnows, At
  <2> QED
    BY <1>15, <2>1 DEF TeardownState, NoState, NoDiskNoGuest, DiskKnown, ReadyIsThisGuest,
        PromiseWithinLimits, guest
<1> QED
  BY <1>1, <1>2, <1>3, <1>4, <1>5, <1>6, <1>7, <1>8, <1>9, <1>10, <1>11, <1>12, <1>13,
     <1>14, <1>15 DEF Continue

\* ... and for a step of the guest, a client or the clock.
LEMMA FilesGuest ==
    ASSUME TypeOK, FilesInv, Guest \/ Connect \/ Disconnect \/ Tick
    PROVE  FilesInv'
<1> USE DEF FilesInv
<1>1. CASE SetupDone
  BY <1>1, TimesAssumption, ConfigAssumption
     DEF SetupDone, NoDiskNoGuest, DiskKnown, ReadyIsThisGuest, PromiseWithinLimits,
         files, TypeOK, NoConfig
<1>2. CASE SetupFails
  BY <1>2 DEF SetupFails, NoDiskNoGuest, DiskKnown, ReadyIsThisGuest, PromiseWithinLimits,
              files, ages
<1>3. CASE DaemonsStart \/ DaemonsBreak \/ ReaperDecides \/ Connect \/ Disconnect
  BY <1>3 DEF DaemonsStart, DaemonsBreak, ReaperDecides, Connect, Disconnect, NoDiskNoGuest,
              DiskKnown, ReadyIsThisGuest, PromiseWithinLimits, files, ages
<1>4. CASE ReaperSeesUse
  BY <1>4, TimesAssumption, ConfigAssumption
     DEF ReaperSeesUse, NoDiskNoGuest, DiskKnown, ReadyIsThisGuest, PromiseWithinLimits,
         files, guest, TypeOK, NoConfig
<1>5. CASE PowerOff \/ Crash
  BY <1>5 DEF PowerOff, Crash, GuestStops, NoDiskNoGuest, DiskKnown, ReadyIsThisGuest,
              PromiseWithinLimits, files, ages
<1>6. CASE Tick
  <2>1. unused' \in {unused, unused + 1} /\ unused \in Nat /\ promised \in Nat
    BY <1>6, UpToType, TimesAssumption DEF Tick, TypeOK
  <2>2. limits.idle \in Nat
    BY ConfigAssumption, TimesAssumption DEF TypeOK, NoConfig
  <2> QED
    BY <1>6, <2>1, <2>2 DEF Tick, NoDiskNoGuest, DiskKnown, ReadyIsThisGuest,
        PromiseWithinLimits, files, guest
<1> QED
  BY <1>1, <1>2, <1>3, <1>4, <1>5, <1>6 DEF Guest

--------------------------------------------------------------------------------
\* Where a session's step takes it, what it may rely on there holds.
LEMMA KnowsContinue ==
    ASSUME TypeOK, FilesInv, NEW s \in Sessions, HolderKnows(s), Continue(s)
    PROVE  HolderKnows(s)'
<1>s. SessOK
  BY DEF TypeOK, SessOK
<1>1. CASE Lock(s) \/ LockTimeout(s) \/ NoImage(s) \/ TeardownStuck(s) \/ SaveLease(s)
           \/ Prune(s) \/ Healthy(s) \/ Unhealthy(s) \/ CreateFails(s)
           \/ Restart(s) \/ RenewLease(s) \/ ProvisionGuestFails(s)
  <2>1. sess'[s].pc \in KnowsNothingAt
    <3>1. CASE Lock(s) \/ Restart(s)
      BY <3>1, <1>s, SessDiscard
         DEF Lock, Restart, KnowsNothingAt, SessOK, Progress, Waiting, At
    <3>2. CASE LockTimeout(s) \/ NoImage(s) \/ TeardownStuck(s) \/ SaveLease(s) \/ Prune(s)
      BY <3>2, <1>s, SessReturn
         DEF LockTimeout, NoImage, TeardownStuck, SaveLease, Prune, KnowsNothingAt, Idle
    <3>3. CASE Healthy(s) \/ RenewLease(s)
      BY <3>3, <1>s, SessGoto
         DEF Healthy, RenewLease, KnowsNothingAt, Waiting, At, Pcs, SessOK, Progress
    <3>4. CASE Unhealthy(s) \/ CreateFails(s) \/ ProvisionGuestFails(s)
      BY <3>4, <1>s, SessDiscard
         DEF Unhealthy, CreateFails, ProvisionGuestFails, KnowsNothingAt, Waiting, At
    <3> QED
      BY <1>1, <3>1, <3>2, <3>3, <3>4
  <2> QED
    BY <2>1, NothingToKnow
<1>2. CASE Decide(s)
  <2>1. CASE ~st.exists /\ Goto(s, "image")
    <3>1. disk = 0
      BY <2>1 DEF FilesInv, DiskKnown
    <3>2. sess'[s].pc = "image"
      BY <1>2, <1>s, <2>1, SessGoto DEF Decide, Waiting, At, Pcs, CreatePcs, SessOK, Progress
    <3> QED
      BY <1>2, <3>1, <3>2 DEF Decide, HolderKnows, files, CreatePcs
  <2>2. CASE st.exists
    <3>h. ~Waiting(s)
      BY <1>2 DEF Decide, Waiting, At
    <3>d. ASSUME Discard(s, "image") PROVE sess'[s].pc \in KnowsNothingAt
      BY <1>s, <3>h, <3>d, SessDiscard DEF KnowsNothingAt
    <3>g. ASSUME NEW l \in {"restart", "health"}, Goto(s, l) PROVE sess'[s].pc \in KnowsNothingAt
      BY <1>s, <3>h, <3>g, SessGoto DEF KnowsNothingAt, Pcs
    <3>1. sess'[s].pc \in KnowsNothingAt
      BY <1>2, <2>2, <3>d, <3>g DEF Decide, Verdict
    <3> QED
      BY <3>1, NothingToKnow
  <2> QED
    BY <1>2, <2>1, <2>2 DEF Decide
<1>3. CASE EnsureImage(s)
  <2>1. PICK i \in Images : /\ images' = images \cup {i}
                            /\ sess' = [sess EXCEPT ![s].pc = "record", ![s].img = i]
    BY <1>3 DEF EnsureImage
  <2>2. sess'[s].pc = "record" /\ sess'[s].img = i
    BY <1>s, <2>1 DEF SessOK, Progress
  <2> QED
    BY <1>3, <2>1, <2>2 DEF EnsureImage, At, HolderKnows, CreatePcs
<1>4. CASE Record(s)
  <2>2. sess'[s].pc = "client" /\ sess'[s].img = sess[s].img
    BY <1>4, <1>s, SessGoto DEF Record, Waiting, At, Pcs, CreatePcs
  <2>3. st'.exists /\ st'.serial = NewCA /\ ~st'.ready /\ NewCA # 0
    BY <1>4, NewCAFresh DEF Record, saveState, Serials
  <2> QED
    BY <1>4, <2>2, <2>3 DEF Record, At, HolderKnows, CreatePcs, guest
<1>5. CASE WriteClientDir(s)
  <2>2. sess'[s].pc = "boot" /\ sess'[s].img = sess[s].img
    BY <1>5, <1>s, SessGoto DEF WriteClientDir, Waiting, At, Pcs, CreatePcs
  <2> QED
    BY <1>5, <2>2 DEF WriteClientDir, At, HolderKnows, CreatePcs, guest
<1>6. CASE ProvisionGuest(s)
  <2>2. sess'[s].pc = "cloudinit" /\ sess'[s].img = sess[s].img
    BY <1>6, <1>s, SessGoto DEF ProvisionGuest, Waiting, At, Pcs, CreatePcs
  <2> QED
    BY <1>6, <2>2 DEF ProvisionGuest, guestSpec, At, HolderKnows, CreatePcs
<1>7. CASE CloudInitDone(s)
  <2>2. sess'[s].pc = "ready" /\ sess'[s].img = sess[s].img
    BY <1>7, <1>s, SessGoto DEF CloudInitDone, Waiting, At, Pcs, CreatePcs
  <2> QED
    BY <1>7, <2>2 DEF CloudInitDone, At, HolderKnows, CreatePcs, files, guest
<1>8. CASE Ready(s)
  <2>2. sess'[s].pc = "prune" /\ sess'[s].img = sess[s].img
    BY <1>8, <1>s, SessGoto DEF Ready, Waiting, At, Pcs, CreatePcs
  <2>3. st'.exists /\ st'.serial = st.serial
    BY <1>8 DEF Ready, saveState, TypeOK, State
  <2> QED
    BY <1>8, <2>2, <2>3 DEF Ready, At, HolderKnows, CreatePcs, guest
<1>9. CASE TeardownVM(s)
  <2>2. sess'[s].pc = "td_client"
    BY <1>9, <1>s, SessGoto DEF TeardownVM, Waiting, At, Pcs, TeardownPcs
  <2> QED
    BY <1>9, <2>2 DEF TeardownVM, HolderKnows, CreatePcs
<1>10. CASE TeardownClient(s)
  <2>2. sess'[s].pc = "td_state"
    BY <1>10, <1>s, SessGoto DEF TeardownClient, Waiting, At, Pcs, TeardownPcs
  <2> QED
    BY <1>10, <2>2 DEF TeardownClient, At, HolderKnows, CreatePcs
<1>11. CASE TeardownState(s)
  <2>2. sess'[s].pc = "image" \/ sess'[s].pc = "idle"
    BY <1>11, <1>s, SessGoto, SessReturn DEF TeardownState, Waiting, At, Pcs, CreatePcs
  <2> QED
    BY <1>11, <2>2 DEF TeardownState, At, HolderKnows, CreatePcs
<1> QED
  BY <1>1, <1>2, <1>3, <1>4, <1>5, <1>6, <1>7, <1>8, <1>9, <1>10, <1>11 DEF Continue

--------------------------------------------------------------------------------
\* The configuration a provision carries, for any step.
LEMMA ValidatedContinue ==
    ASSUME SessOK, NEW s \in Sessions, ValidatedConfig(s), Continue(s)
    PROVE  ValidatedConfig(s)'
<1>d. Idle.then = "end" /\ Idle.pc = "idle"
  BY DEF Idle
<1>1. CASE Lock(s)
  <2>1. /\ sess'[s].then = sess[s].then /\ sess'[s].cfg = sess[s].cfg
        /\ sess'[s].pc = "decide" => sess[s].then = "image"
    BY <1>1 DEF Lock, SessOK, Progress
  <2> QED
    BY <2>1 DEF ValidatedConfig, At
<1>2. CASE \E l \in Pcs \ {"decide"} : ~Waiting(s) /\ Goto(s, l)
  BY <1>2, SessGoto DEF ValidatedConfig, At
<1>3. CASE Return(s)
  BY <1>3, SessReturn DEF ValidatedConfig, At
<1>4. CASE \E after \in {"image", "end"} : ~Waiting(s) /\ Discard(s, after)
  BY <1>4, SessDiscard DEF ValidatedConfig, At
<1>5. CASE sess' = [sess EXCEPT ![s].pc = "health", ![s].boot = TRUE]
  BY <1>5 DEF ValidatedConfig, At, SessOK, Progress
<1>6. CASE EnsureImage(s)
  <2>1. PICK i \in Images : sess' = [sess EXCEPT ![s].pc = "record", ![s].img = i]
    BY <1>6 DEF EnsureImage
  <2> QED
    BY <2>1 DEF ValidatedConfig, At, SessOK, Progress
<1>7. CASE Decide(s) \/ Restart(s) \/ Healthy(s) \/ Unhealthy(s) \/ RenewLease(s)
  BY <1>7, <1>2, <1>4, <1>5
     DEF Decide, Verdict, Restart, Healthy, Unhealthy, RenewLease, Waiting, At, Pcs, CreatePcs
<1>8. CASE \/ LockTimeout(s) \/ SaveLease(s) \/ NoImage(s) \/ Prune(s) \/ TeardownStuck(s)
           \/ TeardownState(s)
  BY <1>8, <1>2, <1>3
     DEF LockTimeout, SaveLease, NoImage, Prune, TeardownStuck, TeardownState, Waiting, At,
         Pcs, CreatePcs
<1>9. CASE \/ Record(s) \/ WriteClientDir(s) \/ ProvisionGuest(s) \/ ProvisionGuestFails(s)
           \/ CloudInitDone(s)
  BY <1>9, <1>2, <1>4
     DEF Record, WriteClientDir, ProvisionGuest, ProvisionGuestFails, CloudInitDone, Waiting,
         At, Pcs, CreatePcs
<1>10. CASE CreateFails(s) \/ Ready(s) \/ TeardownVM(s) \/ TeardownClient(s)
  BY <1>10, <1>2, <1>4
     DEF CreateFails, Ready, TeardownVM, TeardownClient, Waiting, At, Pcs, CreatePcs,
         TeardownPcs
<1> QED
  BY <1>1, <1>6, <1>7, <1>8, <1>9, <1>10 DEF Continue

LEMMA ValidatedEnter ==
    ASSUME SessOK, NEW s \in Sessions, Provision(s) \/ Teardown(s)
    PROVE  ValidatedConfig(s)' /\ Waiting(s)'
<1>1. CASE Provision(s)
  <2>1. PICK c \in Configs, p \in PinSets :
          /\ ValidConfig(c)
          /\ sess' = [sess EXCEPT ![s] = [Idle EXCEPT !.pc = "lock", !.cfg = c,
                                                      !.pins = p, !.then = "image"]]
    BY <1>1 DEF Provision
  <2> QED
    BY <2>1 DEF SessOK, ValidatedConfig, At, Waiting, Idle
<1>2. CASE Teardown(s)
  BY <1>2 DEF Teardown, SessOK, ValidatedConfig, At, Waiting, Idle
<1> QED
  BY <1>1, <1>2

--------------------------------------------------------------------------------
\* A step of a session is a step of that session alone.
LEMMA OthersUntouched ==
    ASSUME SessOK, NEW s \in Sessions, NEW t \in Sessions \ {s},
           Provision(s) \/ Teardown(s) \/ Continue(s) \/ Kill(s)
    PROVE  sess'[t] = sess[t]
<1>1. CASE Provision(s) \/ Teardown(s) \/ Kill(s)
  BY <1>1 DEF Provision, Teardown, Kill, Return, SessOK
<1>2. CASE \/ Lock(s) \/ LockTimeout(s) \/ Decide(s) \/ Restart(s) \/ Healthy(s)
           \/ Unhealthy(s) \/ RenewLease(s) \/ SaveLease(s) \/ EnsureImage(s)
  BY <1>2 DEF Lock, LockTimeout, Decide, Restart, Healthy, Unhealthy, RenewLease, SaveLease,
              EnsureImage, Verdict, Goto, Return, Discard, SessOK
<1>3. CASE \/ NoImage(s) \/ Record(s) \/ WriteClientDir(s) \/ ProvisionGuest(s)
           \/ ProvisionGuestFails(s) \/ CloudInitDone(s) \/ CreateFails(s) \/ Ready(s)
  BY <1>3 DEF NoImage, Record, WriteClientDir, ProvisionGuest, ProvisionGuestFails,
              CloudInitDone, CreateFails, Ready, Goto, Return, Discard, SessOK
<1>4. CASE \/ Prune(s) \/ TeardownVM(s) \/ TeardownStuck(s) \/ TeardownClient(s)
           \/ TeardownState(s)
  BY <1>4 DEF Prune, TeardownVM, TeardownStuck, TeardownClient, TeardownState, Goto, Return,
              SessOK
<1> QED
  BY <1>1, <1>2, <1>3, <1>4 DEF Continue

\* A session that waits for the flock, or starts or dies, leaves the files alone.
LEMMA WaitingTouchesNothing ==
    ASSUME NEW s \in Sessions, Waiting(s), Continue(s)
    PROVE  UNCHANGED <<files, guest, ages>>
  BY DEF Waiting, Continue, Lock, LockTimeout, Decide, Restart, Healthy, Unhealthy, RenewLease,
         SaveLease, EnsureImage, NoImage, Record, WriteClientDir, ProvisionGuest,
         ProvisionGuestFails, CloudInitDone, CreateFails, Ready, Prune, TeardownVM,
         TeardownStuck, TeardownClient, TeardownState, At

LEMMA GuestInvSession ==
    ASSUME TypeOK, GuestInv, NEW s \in Sessions,
           Provision(s) \/ Teardown(s) \/ Continue(s) \/ Kill(s)
    PROVE  GuestInv'
<1>s. SessOK /\ FilesInv /\ ValidatedConfig(s) /\ HolderKnows(s)
  BY DEF TypeOK, SessOK, FilesInv, GuestInv
<1>k. ASSUME Kill(s) PROVE sess'[s].pc = "idle" /\ sess'[s].then = "end"
  BY <1>k, <1>s, SessReturn DEF Kill
<1>1. FilesInv'
  <2>1. CASE Provision(s) \/ Teardown(s) \/ Kill(s)
    BY <1>s, <2>1, SameFilesInv DEF Provision, Teardown, Kill
  <2> QED
    BY <1>s, <2>1, FilesContinue
<1>2. ValidatedConfig(s)' /\ HolderKnows(s)'
  <2>1. CASE Provision(s) \/ Teardown(s)
    BY <1>s, <2>1, ValidatedEnter, WaitingKnows
  <2>2. CASE Kill(s)
    <3>1. ValidatedConfig(s)'
      BY <1>k, <2>2 DEF ValidatedConfig, At
    <3>2. HolderKnows(s)'
      BY <1>k, <2>2, NothingToKnow DEF KnowsNothingAt
    <3> QED
      BY <3>1, <3>2
  <2>3. CASE Continue(s)
    BY <1>s, <2>3, ValidatedContinue, KnowsContinue
  <2> QED
    BY <2>1, <2>2, <2>3
<1>3. ASSUME NEW t \in Sessions \ {s} PROVE ValidatedConfig(t)' /\ HolderKnows(t)'
  <2>1. sess'[t] = sess[t] /\ ValidatedConfig(t) /\ HolderKnows(t)
    BY <1>s, OthersUntouched DEF GuestInv
  <2>2. ValidatedConfig(t)'
    BY <2>1 DEF ValidatedConfig, At
  <2>3. CASE Waiting(t)
    <3>1. Waiting(t)'
      BY <2>1, <2>3 DEF Waiting
    <3> QED
      BY <2>2, <3>1, WaitingKnows
  <2>4. CASE ~Waiting(t)
    <3>1. Waiting(s)
      BY <2>4, OthersWait
    <3>2. UNCHANGED <<files, setup>>
      <4>1. CASE Provision(s) \/ Teardown(s) \/ Kill(s)
        BY <4>1 DEF Provision, Teardown, Kill, guest
      <4>2. CASE Continue(s)
        BY <3>1, <4>2, WaitingTouchesNothing DEF guest
      <4> QED
        BY <4>1, <4>2
    <3> QED
      BY <2>1, <2>2, <3>2, SameFilesKnow
  <2> QED
    BY <2>3, <2>4
<1> QED
  BY <1>1, <1>2, <1>3 DEF GuestInv, FilesInv

LEMMA GuestInvGuest ==
    ASSUME TypeOK, GuestInv, Guest \/ Connect \/ Disconnect \/ Tick
    PROVE  GuestInv'
<1>1. FilesInv'
  BY FilesGuest DEF GuestInv, FilesInv
<1>2. sess' = sess /\ UNCHANGED files /\ (setup = "done" => setup' = "done")
  BY DEF Guest, SetupDone, SetupFails, DaemonsStart, DaemonsBreak, ReaperSeesUse,
         ReaperDecides, PowerOff, Crash, GuestStops, Connect, Disconnect, Tick, guest
<1>3. ASSUME NEW t \in Sessions PROVE ValidatedConfig(t)' /\ HolderKnows(t)'
  <2>1. ValidatedConfig(t) /\ HolderKnows(t)
    BY DEF GuestInv
  <2>2. ValidatedConfig(t)'
    BY <1>2, <2>1 DEF ValidatedConfig, At
  <2>3. HolderKnows(t)'
    BY <1>2, <2>1 DEF HolderKnows, files
  <2> QED
    BY <2>2, <2>3
<1> QED
  BY <1>1, <1>3 DEF GuestInv, FilesInv

LEMMA GuestInvStep == TypeOK /\ GuestInv /\ [Next]_vars => GuestInv'
<1> SUFFICES ASSUME TypeOK, GuestInv, [Next]_vars PROVE GuestInv'
  OBVIOUS
<1>1. CASE UNCHANGED vars
  BY <1>1 DEF vars, GuestInv, NoDiskNoGuest, DiskKnown, ReadyIsThisGuest,
     PromiseWithinLimits, ValidatedConfig, HolderKnows, At
<1> QED
  BY <1>1, GuestInvSession, GuestInvGuest DEF Next, Environment

LEMMA GuestInvInit == Init => GuestInv
  BY DEF Init, GuestInv, NoDiskNoGuest, DiskKnown, ReadyIsThisGuest, PromiseWithinLimits,
         ValidatedConfig, HolderKnows, At, NoState, Idle, CreatePcs

LEMMA GuestInvariant == Spec => [](TypeOK /\ GuestInv)
<1>1. Init => TypeOK /\ GuestInv
  BY TypeInit, GuestInvInit
<1>2. TypeOK /\ GuestInv /\ [Next]_vars => (TypeOK /\ GuestInv)'
  BY TypeStep, GuestInvStep
<1> QED
  BY <1>1, <1>2, PTL DEF Spec

--------------------------------------------------------------------------------
(* The properties *)

\* Whatever was killed, crashed or raced, a running guest is known to
\* state.json and its disk still has its cloud image: the state is written
\* before the guest and removed after it, and PruneCloudImages keeps the image
\* of the guest just made (dockerhost.go, create and teardownLocked).
THEOREM RunningGuestAccounted == Spec => []GuestAccounted
<1>1. TypeOK /\ GuestInv => GuestAccounted
  BY DEF GuestInv, NoDiskNoGuest, DiskKnown, GuestAccounted
<1> QED
  BY <1>1, GuestInvariant, PTL

\* A running guest that state.json calls ready is the one the client
\* directory's certificates open, however many provisions and teardowns were
\* cut short between two of their writes (dockerhost.go, create).
THEOREM ReadyGuestIsReachable == Spec => []ReadyGuestReachable
<1>1. TypeOK /\ GuestInv => ReadyGuestReachable
  BY DEF GuestInv, NoDiskNoGuest, ReadyIsThisGuest, ReadyGuestReachable
<1> QED
  BY <1>1, GuestInvariant, PTL

\* No session keeps a guest past the validity of its certificates: whatever the
\* configured maximum age, decideExisting replaces it in time (certs.go:17).
THEOREM CertificatesOutliveReuse == Spec => CertsOutliveReuse
<1>1. TypeOK /\ GuestInv /\ [Next]_vars
        => [\A s \in Sessions :
              At(s, "decide") /\ sess'[s].pc \in {"restart", "health"} => age < CertValidity]_vars
  <2> SUFFICES ASSUME TypeOK, GuestInv, Next, NEW s \in Sessions,
                      At(s, "decide"), sess'[s].pc \in {"restart", "health"}
               PROVE  age < CertValidity
    BY DEF vars
  <2>s. SessOK /\ sess[s].pc = "decide" /\ ~Waiting(s)
    BY DEF TypeOK, SessOK, At, Waiting
  <2>1. Decide(s)
    <3>1. ASSUME NEW t \in Sessions \ {s},
                 Provision(t) \/ Teardown(t) \/ Continue(t) \/ Kill(t)
          PROVE  FALSE
      BY <2>s, <3>1, OthersUntouched
    <3>2. ~(Guest \/ Connect \/ Disconnect \/ Tick)
      BY <2>s DEF Guest, SetupDone, SetupFails, DaemonsStart, DaemonsBreak, ReaperSeesUse,
                  ReaperDecides, PowerOff, Crash, GuestStops, Connect, Disconnect, Tick
    <3>3. ~Kill(s) /\ ~Provision(s) /\ ~Teardown(s)
      BY <2>s, SessReturn DEF Kill, Provision, Teardown, At
    <3>4. Continue(s)
      BY <3>1, <3>2, <3>3 DEF Next, Environment
    <3> QED
      BY <2>s, <3>4
         DEF Continue, At, Lock, LockTimeout, Restart, Healthy, Unhealthy, RenewLease, SaveLease,
             EnsureImage, NoImage, Record, WriteClientDir, ProvisionGuest, ProvisionGuestFails,
             CloudInitDone, CreateFails, Ready, Prune, TeardownVM, TeardownStuck,
             TeardownClient, TeardownState
  <2>2. ValidConfig(sess[s].cfg)
    BY <2>s DEF GuestInv, ValidatedConfig, At
  <2>3. st.exists /\ \E busy \in GuestBusy :
          Verdict(sess[s].cfg, sess[s].pins, busy) # "replace"
    <3>1. ASSUME Goto(s, "image") PROVE FALSE
      BY <2>s, <3>1, SessGoto DEF Pcs, CreatePcs
    <3>2. ASSUME Discard(s, "image") PROVE FALSE
      BY <2>s, <3>2, SessDiscard
    <3> QED
      BY <2>1, <3>1, <3>2 DEF Decide
  <2>4. age < sess[s].cfg.maxAge + Grace
    <3>1. ~MustReplace(sess[s].cfg)
      BY <2>3 DEF Verdict
    <3> QED
      BY <2>2, <3>1, TimesAssumption DEF MustReplace, ValidConfig, TypeOK, AgeCap
  <2> QED
    BY <2>2, <2>4, TimesAssumption DEF ValidConfig, TypeOK, AgeCap
<1> QED
  BY <1>1, GuestInvariant, PTL DEF Spec, CertsOutliveReuse

\* The reaper never cuts a lease short: it powers a guest off before what the
\* last lease promised has passed only when the maximum age is reached
\* (idle.sh, check).
THEOREM LeaseIsHonoured == Spec => LeaseHonoured
<1>1. TypeOK /\ GuestInv /\ [Next]_vars
        => [reaper # reaper' /\ reaper' = "poweroff" => promised = 0 \/ age >= limits.maxAge]_vars
  <2> SUFFICES ASSUME TypeOK, GuestInv, Next, reaper # reaper', reaper' = "poweroff"
               PROVE  promised = 0 \/ age >= limits.maxAge
    BY DEF vars
  <2>1. ReaperDecides
    <3>1. ASSUME NEW s \in Sessions, Provision(s) \/ Teardown(s) \/ Continue(s) \/ Kill(s)
          PROVE  FALSE
      BY <3>1 DEF Provision, Teardown, Kill, guest,
         Continue, Lock, LockTimeout, Decide, Restart, Healthy, Unhealthy, RenewLease, SaveLease,
         EnsureImage, NoImage, Record, WriteClientDir, ProvisionGuest, ProvisionGuestFails,
         CloudInitDone, CreateFails, Ready, Prune, TeardownVM, TeardownStuck, TeardownClient,
         TeardownState
    <3>2. ~(SetupDone \/ SetupFails \/ DaemonsStart \/ DaemonsBreak \/ ReaperSeesUse
              \/ PowerOff \/ Crash \/ Connect \/ Disconnect \/ Tick)
      BY DEF SetupDone, SetupFails, DaemonsStart, DaemonsBreak, ReaperSeesUse, PowerOff, Crash,
             GuestStops, Connect, Disconnect, Tick, guest
    <3> QED
      BY <3>1, <3>2 DEF Next, Environment, Guest
  <2>2. /\ promised \in Nat /\ unused \in Nat /\ age \in Nat
        /\ limits.idle \in Nat /\ limits.maxAge \in Nat
    BY ConfigAssumption, TimesAssumption DEF TypeOK, NoConfig, AgeCap
  <2> QED
    BY <2>1, <2>2 DEF ReaperDecides, Overdue, GuestInv, PromiseWithinLimits
<1> QED
  BY <1>1, GuestInvariant, PTL DEF Spec, LeaseHonoured

================================================================================
