------------------------- MODULE QemuLifecycle_proofs -------------------------
(****************************************************************************)
(* TLAPS proofs about QemuLifecycle, for every number of slots, pids, every *)
(* budget, set of faults and clock bound.                                   *)
(****************************************************************************)
EXTENDS QemuLifecycle, TLAPS

CmdOK == cmd \in [Slots -> Command]

\* The ways an action moves its invocation on keep every slot well formed.
LEMMA CmdGoto ==
    ASSUME CmdOK, NEW s \in Slots, NEW l \in Pcs, Goto(s, l)
    PROVE  CmdOK'
  BY DEF CmdOK, Command, Goto

LEMMA CmdFinish ==
    ASSUME CmdOK, NEW s \in Slots, Finish(s)
    PROVE  CmdOK'
  BY DEF CmdOK, Command, Finish, Idle, Pcs

LEMMA CmdEnter ==
    ASSUME CmdOK, NEW s \in Slots, NEW l \in Pcs,
           NEW v \in VerbNames \cup ReapVerbs, Enter(s, v, l)
    PROVE  CmdOK'
  BY DEF CmdOK, Command, Enter, Idle, Pcs

LEMMA CmdTarget ==
    ASSUME CmdOK, NEW s \in Slots, NEW l \in Pcs, Target(s, l),
           pidfile \in Pids \cup {0}
    PROVE  CmdOK'
<1>1. cmd[s] \in Command
  BY DEF CmdOK
<1>2. cmd' = [cmd EXCEPT ![s] = [@ EXCEPT !.pc = l, !.pid = pidfile]]
  BY DEF CmdOK, Target
<1>3. [cmd[s] EXCEPT !.pc = l, !.pid = pidfile] \in Command
  BY <1>1 DEF Command
<1> QED
  BY <1>2, <1>3 DEF CmdOK

LEMMA CmdDone ==
    ASSUME CmdOK, NEW s \in Slots, ShutdownDone(s)
    PROVE  CmdOK' /\ pidfile' = 0
<1>1. cmd[s] \in Command /\ Idle \in Command
  BY DEF CmdOK, Command, Idle, Pcs
<1>2. \A l \in Pcs : [cmd[s] EXCEPT !.pc = l, !.pid = 0] \in Command
  BY <1>1 DEF Command
<1>3. "rp_disarm" \in Pcs /\ "td_context" \in Pcs
  BY DEF Pcs, TeardownPcs
<1> QED
  BY <1>1, <1>2, <1>3 DEF CmdOK, ShutdownDone

\* Timers are only ever set for representable times.
LEMMA ArmType ==
    ASSUME TypeOK, NEW pending \in SUBSET Deadlines, NEW d \in Deadlines,
           Arm(pending, d)
    PROVE  timers' \in SUBSET Deadlines
<1>1. now \in Deadlines
  BY TimesAssumption DEF TypeOK, Deadlines
<1>2. LaterOf(d, now) \in Deadlines
  BY <1>1 DEF LaterOf
<1>3. PICK left \in AfterDisarm(pending) :
        timers' = left \cup {LaterOf(d, now)} \/ timers' = left
  BY DEF Arm
<1>4. left \in SUBSET Deadlines
  BY <1>3 DEF AfterDisarm
<1> QED
  BY <1>2, <1>3, <1>4

--------------------------------------------------------------------------------
\* Type correctness of a step, by action.
LEMMA TypeStep == TypeOK /\ [Next]_vars => TypeOK'
<1> SUFFICES ASSUME TypeOK, [Next]_vars PROVE TypeOK'
  OBVIOUS
<1>c. CmdOK
  BY DEF TypeOK, CmdOK
<1> USE DEF CmdOK
<1>1. ASSUME NEW s \in Slots, ProvisionBegin(s) PROVE TypeOK'
  BY <1>1, <1>c, CmdEnter
     DEF TypeOK, ProvisionBegin, vm, files, budget, clock, VerbNames, Pcs, ProvisionPcs
<1>2. ASSUME NEW s \in Slots, StartBegin(s) PROVE TypeOK'
  <2>1. CmdOK'
    BY <1>2, <1>c, CmdEnter DEF StartBegin, VerbNames, Pcs, StartPcs
  <2> QED
    BY <1>2, <2>1 DEF TypeOK, StartBegin, Boot, files, budget, names
<1>3. ASSUME NEW s \in Slots, Pause(s) PROVE TypeOK'
  BY <1>3 DEF TypeOK, Pause, SigStop, files, budget, names, clock
<1>4. ASSUME NEW s \in Slots, ResumeBegin(s) PROVE TypeOK'
  <2>1. CmdOK'
    BY <1>4, <1>c, CmdEnter DEF ResumeBegin, VerbNames, Pcs
  <2>2. upSince' \in 0 .. MaxTime
    BY <1>4, TimesAssumption DEF ResumeBegin, TypeOK
  <2>3. proc' \in [Pids -> {"free", "qemu", "paused", "foreign"}]
    BY <1>4 DEF ResumeBegin, TypeOK
  <2> QED
    BY <1>4, <2>1, <2>2, <2>3 DEF TypeOK, ResumeBegin, files, budget, names
<1>5. ASSUME NEW s \in Slots, StopBegin(s) PROVE TypeOK'
  <2>1. CmdOK'
    BY <1>5, <1>c, CmdEnter DEF StopBegin, VerbNames, Pcs, ShutdownPcs
  <2> QED
    BY <1>5, <2>1 DEF TypeOK, StopBegin, AfterDisarm, vm, files, budget, names,
        clock
<1>6. ASSUME NEW s \in Slots, TeardownBegin(s) PROVE TypeOK'
  <2>1. CmdOK'
    BY <1>6, <1>c, CmdEnter DEF TeardownBegin, VerbNames, Pcs, ShutdownPcs
  <2> QED
    BY <1>6, <2>1 DEF TypeOK, TeardownBegin, AfterDisarm, vm, files, budget, names,
        clock
<1>7. ASSUME NEW s \in Slots, NEW pending \in SUBSET Deadlines, ReapDecides(s, pending)
      PROVE  CmdOK' /\ timers' \in SUBSET Deadlines
  <2>1. timers' \in SUBSET Deadlines
    BY <1>7, ArmType DEF ReapDecides, TypeOK
  <2>2. CmdOK'
    BY <1>7, <1>c, CmdEnter DEF ReapDecides, ReapVerbs, Pcs, ShutdownPcs
  <2> QED
    BY <2>1, <2>2
<1>8. ASSUME NEW s \in Slots, Reap(s) PROVE TypeOK'
  <2>1. CmdOK' /\ timers' \in SUBSET Deadlines
    BY <1>7, <1>8 DEF Reap, TypeOK
  <2> QED
    BY <1>8, <2>1 DEF TypeOK, Reap, vm, files, budget, names, clock
<1>9. ASSUME NEW s \in Slots, TimerFires(s) PROVE TypeOK'
  <2>1. PICK t \in timers : ReapDecides(s, timers \ {t})
    BY <1>9 DEF TimerFires
  <2>2. timers \ {t} \in SUBSET Deadlines
    BY DEF TypeOK
  <2>3. CmdOK' /\ timers' \in SUBSET Deadlines
    BY <1>7, <2>1, <2>2
  <2> QED
    BY <1>9, <2>3 DEF TypeOK, TimerFires, vm, files, budget, names, clock
<1>10. ASSUME NEW s \in Slots, Extend(s) PROVE TypeOK'
  <2>1. expiresAt + 1 \in Deadlines /\ timers \in SUBSET Deadlines
    BY <1>10 DEF Extend, TypeOK
  <2>2. timers' \in SUBSET Deadlines
    BY <1>10, <2>1, ArmType DEF Extend
  <2> QED
    BY <1>10, <2>1, <2>2 DEF TypeOK, Extend, vm, files, names, clock
<1>11. ASSUME NEW s \in Slots, ArmAgain(s) PROVE TypeOK'
  <2>1. timers' \in SUBSET Deadlines
    BY <1>11, ArmType DEF ArmAgain, TypeOK
  <2> QED
    BY <1>11, <2>1 DEF TypeOK, ArmAgain, vm, files, budget, names, clock
<1>12. ASSUME NEW s \in Slots, Disarm(s) PROVE TypeOK'
  BY <1>12 DEF TypeOK, Disarm, AfterDisarm, vm, files, budget, names, clock
<1>13. ASSUME NEW s \in Slots, Import(s) PROVE TypeOK'
  BY <1>13 DEF TypeOK, Import, vm, budget, names, clock
<1>14. ASSUME NEW s \in Slots, ProvisionDisk(s) PROVE TypeOK'
  <2>1. CmdOK'
    <3>1. cmd[s] \in Command /\ "pv_key" \in Pcs
      BY <1>c DEF CmdOK, Pcs, ProvisionPcs
    <3>2. [cmd[s] EXCEPT !.pc = "pv_key", !.staged = (disk # "none")] \in Command
      BY <3>1 DEF Command
    <3> QED
      BY <1>14, <1>c, <3>2 DEF ProvisionDisk, CmdOK
  <2> QED
    BY <1>14, <2>1 DEF TypeOK, ProvisionDisk, vm, budget, names, clock
<1>15. ASSUME NEW s \in Slots, ProvisionKey(s) PROVE TypeOK'
  <2>1. CmdOK'
    BY <1>15, <1>c, CmdGoto DEF ProvisionKey, Pcs, ProvisionPcs
  <2> QED
    BY <1>15, <2>1 DEF TypeOK, ProvisionKey, vm, files, budget, names, clock
<1>16. ASSUME NEW s \in Slots, PrepareFails(s) PROVE TypeOK'
  <2>1. CmdOK'
    BY <1>16, <1>c, CmdFinish DEF PrepareFails, Pcs, ProvisionPcs
  <2> QED
    BY <1>16, <2>1 DEF TypeOK, PrepareFails, vm, files, budget, names, clock
<1>17. ASSUME NEW s \in Slots, ProvisionBoot(s) PROVE TypeOK'
  <2>1. CmdOK'
    BY <1>17, <1>c, CmdGoto DEF ProvisionBoot, Pcs, ProvisionPcs
  <2> QED
    BY <1>17, <2>1 DEF TypeOK, ProvisionBoot, Boot, vm, files, budget, names, clock
<1>18. ASSUME NEW s \in Slots, ProvisionBootFails(s) PROVE TypeOK'
  <2>1. CmdOK'
    BY <1>18, <1>c, CmdFinish DEF ProvisionBootFails, Pcs, ProvisionPcs
  <2> QED
    BY <1>18, <2>1 DEF TypeOK, ProvisionBootFails, vm, files, budget, names, clock
<1>19. ASSUME NEW s \in Slots, ProvisionSave(s) PROVE TypeOK'
  <2>1. CmdOK'
    BY <1>19, <1>c, CmdGoto DEF ProvisionSave, Pcs, ProvisionPcs
  <2>2. expiresAt' \in Deadlines /\ (~sidecar' => expiresAt' = 0)
    BY <1>19, TimesAssumption DEF TypeOK, ProvisionSave, armLifetime, Deadlines
  <2> QED
    BY <1>19, <2>1, <2>2 DEF TypeOK, ProvisionSave, vm, files, names, clock
<1>20. ASSUME NEW s \in Slots, ProvisionSsh(s) PROVE TypeOK'
  <2>1. CmdOK'
    BY <1>20, <1>c, CmdGoto DEF ProvisionSsh, Pcs, ProvisionPcs
  <2> QED
    BY <1>20, <2>1 DEF TypeOK, ProvisionSsh, vm, files, budget, names, clock
<1>21. ASSUME NEW s \in Slots, ProvisionInstall(s) PROVE TypeOK'
  <2>1. CmdOK'
    BY <1>21, <1>c, CmdGoto DEF ProvisionInstall, Pcs, ProvisionPcs
  <2> QED
    BY <1>21, <2>1 DEF TypeOK, ProvisionInstall, Holding, vm, files, budget, names,
        clock
<1>22. ASSUME NEW s \in Slots, ProvisionPlatform(s) PROVE TypeOK'
  <2>1. CmdOK'
    BY <1>22, <1>c, CmdGoto DEF ProvisionPlatform, Pcs, ProvisionPcs
  <2> QED
    BY <1>22, <2>1 DEF TypeOK, ProvisionPlatform, Holding, vm, files, budget, names,
        clock
<1>23. ASSUME NEW s \in Slots, ProvisionStaged(s) PROVE TypeOK'
  <2>1. CmdOK'
    BY <1>23, <1>c, CmdGoto DEF ProvisionStaged, Pcs, ProvisionPcs
  <2> QED
    BY <1>23, <2>1 DEF TypeOK, ProvisionStaged, vm, files, budget, names, clock
<1>24. ASSUME NEW s \in Slots, WaitFails(s) PROVE TypeOK'
  <2>1. CmdOK'
    BY <1>24, <1>c, CmdFinish DEF WaitFails, Pcs, ProvisionPcs
  <2> QED
    BY <1>24, <2>1 DEF TypeOK, WaitFails, Holding, vm, files, budget, names, clock
<1>25. ASSUME NEW s \in Slots, InstallTimer(s) PROVE TypeOK'
  <2>1. CmdOK'
    BY <1>25, <1>c, CmdFinish DEF InstallTimer
  <2>2. timers' \in SUBSET Deadlines
    BY <1>25, ArmType DEF InstallTimer, TypeOK
  <2> QED
    BY <1>25, <2>1, <2>2 DEF TypeOK, InstallTimer, vm, files, budget, clock
<1>26. ASSUME NEW s \in Slots, StartSsh(s) PROVE TypeOK'
  <2>1. CmdOK'
    BY <1>26, <1>c, CmdGoto DEF StartSsh, Pcs, StartPcs
  <2> QED
    BY <1>26, <2>1 DEF TypeOK, StartSsh, vm, files, budget, names, clock
<1>27. ASSUME NEW s \in Slots, StartK3s(s) PROVE TypeOK'
  <2>1. CmdOK'
    BY <1>27, <1>c, CmdGoto DEF StartK3s, Pcs, StartPcs
  <2>2. expiresAt' \in Deadlines /\ (~sidecar => expiresAt' = 0)
    BY <1>27, TimesAssumption DEF TypeOK, StartK3s, armLifetime, Deadlines
  <2> QED
    BY <1>27, <2>1, <2>2 DEF TypeOK, StartK3s, vm, files, names, clock
<1>28. ASSUME NEW s \in Slots, ResumeBudget(s) PROVE TypeOK'
  <2>1. CmdOK'
    BY <1>28, <1>c, CmdGoto DEF ResumeBudget, Pcs, StartPcs
  <2>2. expiresAt' \in Deadlines /\ (~sidecar => expiresAt' = 0)
    BY <1>28, TimesAssumption DEF TypeOK, ResumeBudget, armLifetime, Deadlines
  <2> QED
    BY <1>28, <2>1, <2>2 DEF TypeOK, ResumeBudget, vm, files, names, clock
<1>29. ASSUME NEW s \in Slots, ShutdownRead(s) PROVE TypeOK'
  <2>1. CmdOK' /\ pidfile' \in Pids \cup {0}
    BY <1>29, <1>c, CmdTarget, CmdDone DEF TypeOK, ShutdownRead, Pcs, PollPcs,
        ShutdownPcs
  <2>2. proc' \in [Pids -> {"free", "qemu", "paused", "foreign"}]
    BY <1>29 DEF TypeOK, ShutdownRead
  <2> QED
    BY <1>29, <2>1, <2>2 DEF TypeOK, ShutdownRead, files, budget, names, clock
<1>30. ASSUME NEW s \in Slots, ShutdownGone(s) PROVE TypeOK'
  <2>1. CmdOK' /\ pidfile' = 0
    BY <1>30, <1>c, CmdDone DEF ShutdownGone
  <2> QED
    BY <1>30, <2>1 DEF TypeOK, ShutdownGone, files, budget, names, clock
<1>31. ASSUME NEW s \in Slots, ShutdownTerm(s) PROVE TypeOK'
  <2>1. CmdOK' /\ pidfile' \in Pids \cup {0}
    BY <1>31, <1>c, CmdTarget, CmdDone DEF TypeOK, ShutdownTerm, Pcs, PollPcs,
        ShutdownPcs
  <2> QED
    BY <1>31, <2>1 DEF TypeOK, ShutdownTerm, files, budget, names, clock
<1>32. ASSUME NEW s \in Slots, ShutdownKill(s) PROVE TypeOK'
  <2>1. CmdOK'
    BY <1>32, <1>c, CmdGoto, CmdFinish DEF ShutdownKill, Pcs, PollPcs, ShutdownPcs
  <2> QED
    BY <1>32, <2>1 DEF TypeOK, ShutdownKill, vm, files, budget, names, clock
<1>33. ASSUME NEW s \in Slots, ShutdownStuck(s) PROVE TypeOK'
  <2>1. CmdOK'
    BY <1>33, <1>c, CmdFinish DEF ShutdownStuck, Pcs, PollPcs, ShutdownPcs
  <2> QED
    BY <1>33, <2>1 DEF TypeOK, ShutdownStuck, vm, files, budget, names, clock
<1>34. ASSUME NEW s \in Slots, TeardownContext(s) PROVE TypeOK'
  <2>1. CmdOK'
    BY <1>34, <1>c, CmdGoto DEF TeardownContext, Pcs, TeardownPcs
  <2> QED
    BY <1>34, <2>1 DEF TypeOK, TeardownContext, vm, files, budget, names, clock
<1>35. ASSUME NEW s \in Slots, TeardownFiles(s) PROVE TypeOK'
  <2>1. CmdOK'
    BY <1>35, <1>c, CmdGoto DEF TeardownFiles, Pcs, TeardownPcs
  <2>2. expiresAt' \in Deadlines
    BY <1>35, TimesAssumption DEF TeardownFiles, Deadlines
  <2> QED
    BY <1>35, <2>1, <2>2 DEF TypeOK, TeardownFiles, vm, names, clock
<1>36. ASSUME NEW s \in Slots, TeardownRecord(s) PROVE TypeOK'
  <2>1. CmdOK'
    BY <1>36, <1>c, CmdGoto, CmdFinish DEF TeardownRecord, Pcs, TeardownPcs
  <2> QED
    BY <1>36, <2>1 DEF TypeOK, TeardownRecord, vm, files, budget, names, clock
<1>37. ASSUME NEW s \in Slots, ReapPause(s) PROVE TypeOK'
  <2>1. CmdOK'
    BY <1>37, <1>c, CmdGoto, CmdFinish DEF ReapPause, Pcs
  <2> QED
    BY <1>37, <2>1 DEF TypeOK, ReapPause, SigStop, files, budget, names, clock
<1>38. ASSUME NEW s \in Slots, ReapDisarm(s) PROVE TypeOK'
  <2>1. CmdOK'
    BY <1>38, <1>c, CmdFinish DEF ReapDisarm, Pcs, PollPcs
  <2> QED
    BY <1>38, <2>1 DEF TypeOK, ReapDisarm, AfterDisarm, vm, files, budget, names,
        clock
<1>39. ASSUME NEW s \in Slots, Kill(s) PROVE TypeOK'
  <2>1. CmdOK'
    BY <1>39, <1>c, CmdFinish DEF Kill, Pcs, PollPcs
  <2> QED
    BY <1>39, <2>1 DEF TypeOK, Kill, vm, files, budget, names, clock
<1>40. ASSUME NEW p \in Pids, QemuExits(p) PROVE TypeOK'
  BY <1>40 DEF TypeOK, QemuExits, files, budget, names, clock
<1>41. ASSUME NEW p \in Pids, VMCrash(p) PROVE TypeOK'
  BY <1>41 DEF TypeOK, VMCrash, files, budget, names, clock
<1>42. ASSUME NEW p \in Pids, Recycle(p) PROVE TypeOK'
  BY <1>42 DEF TypeOK, Recycle, files, budget, names, clock
<1>43. ASSUME NEW p \in Pids, ForeignExits(p) PROVE TypeOK'
  BY <1>43 DEF TypeOK, ForeignExits, files, budget, names, clock
<1>44. ASSUME Reboot PROVE TypeOK'
  <2>1. CmdOK'
    BY <1>44 DEF Reboot, Idle, Command, Pcs
  <2> QED
    BY <1>44, <2>1 DEF TypeOK, Reboot, files, budget, names, clock
<1>45. ASSUME Tick PROVE TypeOK'
  BY <1>45, TimesAssumption DEF TypeOK, Tick, vm, files, budget, names
<1>46. CASE UNCHANGED vars
  BY <1>46 DEF TypeOK, vars
<1> QED
  <2>1. ASSUME NEW s \in Slots, Begin(s) PROVE TypeOK'
    BY <2>1, <1>1, <1>2, <1>3, <1>4, <1>5, <1>6, <1>8, <1>10, <1>11, <1>12, <1>13
        DEF Begin
  <2>2. ASSUME NEW s \in Slots, Continue(s) PROVE TypeOK'
    BY <2>2, <1>14, <1>15, <1>16, <1>17, <1>18, <1>19, <1>20, <1>21, <1>22, <1>23,
        <1>24, <1>25, <1>26, <1>27, <1>28, <1>29, <1>30, <1>31, <1>32, <1>33, <1>34,
        <1>35, <1>36, <1>37, <1>38
       DEF Continue, Provision, Shutdown, Teardown
  <2>3. CASE Environment
    BY <2>3, <1>39, <1>40, <1>41, <1>42, <1>43, <1>44, <1>45 DEF Environment
  <2> QED
    BY <2>1, <2>2, <2>3, <1>9, <1>46 DEF Next

\* Every variable stays within its type (QemuLifecycle!TypeOK), for all values
\* of the constants.
THEOREM TypeCorrect == Spec => []TypeOK
<1>1. Init => TypeOK
  <2> SUFFICES ASSUME Init PROVE TypeOK
    OBVIOUS
  <2>1. now \in 1 .. MaxTime /\ upSince \in 0 .. MaxTime /\ expiresAt \in Deadlines
    BY TimesAssumption DEF Init, Deadlines
  <2>2. cmd \in [Slots -> Command]
    BY DEF Init, Idle, Command, Pcs
  <2> QED
    BY <2>1, <2>2 DEF Init, TypeOK
<1> QED
  BY <1>1, TypeStep, PTL DEF Spec

--------------------------------------------------------------------------------
\* One CLI invocation at a time, the import verb apart (an imported disk need
\* not know the key on the host).
Sequential == \A a, b \in Slots : a = b
NoImport   == \A s \in Slots : "import" \notin Verbs[s]

\* A shutdown that ends with no qemu left preserves VMInv: the pidfile may go.
LEMMA DoneStep ==
    ASSUME Sequential, TypeOK, VMInv, NEW s \in Slots, ShutdownDone(s),
           ~Running, proc' = proc, UNCHANGED <<files, budget, names, timers, clock>>
    PROVE  VMInv'
<1>1. cmd' = [cmd EXCEPT ![s] = cmd'[s]] /\ cmd'[s].pc \in {"idle", "rp_disarm", "td_context"}
  BY DEF ShutdownDone, Idle, TypeOK, Command
<1> QED
  BY <1>1 DEF VMInv, VMAccounted, vmAlive, Running, TypeOK, Sequential, PollPcs,
      TeardownPcs,
     files, budget, names, clock

\* What a reap decides, it is a later step that acts.
LEMMA ReapCmd ==
    ASSUME CmdOK, NEW s \in Slots, NEW pending, ReapDecides(s, pending)
    PROVE  cmd' = cmd \/ cmd'[s].pc \in {"rp_pause", "sd_read"}
<1>1. \/ cmd' = cmd
      \/ Enter(s, "reap_pause", "rp_pause")
      \/ Enter(s, "reap_teardown", "sd_read")
      \/ Enter(s, "reap_stop", "sd_read")
  BY DEF ReapDecides
<1> QED
  BY <1>1 DEF Enter, Idle, CmdOK

\* One command at a time, every step preserves VMInv.
LEMMA VMInvStep ==
    ASSUME Sequential, NoImport, TypeOK, VMInv, [Next]_vars
    PROVE  VMInv'
<1> USE Sequential, TypeOK, VMInv DEF Sequential, TypeOK, Command,
    VMInv, VMAccounted, vmAlive, Running, PollPcs, TeardownPcs,
    vm, files, budget, names, clock
<1>1. ASSUME NEW s \in Slots, ProvisionBegin(s) PROVE VMInv'
  BY <1>1 DEF ProvisionBegin, Enter, Idle, MayRun
<1>2. ASSUME NEW s \in Slots, StartBegin(s) PROVE VMInv'
  BY <1>2 DEF StartBegin, Enter, Idle, Boot, Bootable
<1>3. ASSUME NEW s \in Slots, Pause(s) PROVE VMInv'
  BY <1>3 DEF Pause, SigStop, IsRunning
<1>4. ASSUME NEW s \in Slots, ResumeBegin(s) PROVE VMInv'
  BY <1>4 DEF ResumeBegin, Enter, Idle, IsRunning
<1>5. ASSUME NEW s \in Slots, StopBegin(s) PROVE VMInv'
  BY <1>5 DEF StopBegin, Enter, Idle
<1>6. ASSUME NEW s \in Slots, TeardownBegin(s) PROVE VMInv'
  BY <1>6 DEF TeardownBegin, Enter, Idle
<1>7. ASSUME NEW s \in Slots, Reap(s) PROVE VMInv'
  <2>1. cmd' = cmd \/ cmd'[s].pc \in {"rp_pause", "sd_read"}
    BY <1>7, ReapCmd DEF Reap, CmdOK
  <2> QED
    BY <1>7, <2>1 DEF Reap
<1>8. ASSUME NEW s \in Slots, Extend(s) PROVE VMInv'
  BY <1>8 DEF Extend
<1>9. ASSUME NEW s \in Slots, ArmAgain(s) PROVE VMInv'
  BY <1>9 DEF ArmAgain
<1>10. ASSUME NEW s \in Slots, Disarm(s) PROVE VMInv'
  BY <1>10 DEF Disarm
<1>11. ASSUME NEW s \in Slots, TimerFires(s) PROVE VMInv'
  <2>1. cmd' = cmd \/ cmd'[s].pc \in {"rp_pause", "sd_read"}
    BY <1>11, ReapCmd DEF TimerFires, CmdOK
  <2> QED
    BY <1>11, <2>1 DEF TimerFires
<1>12. ASSUME NEW s \in Slots, ProvisionDisk(s) PROVE VMInv'
  BY <1>12 DEF ProvisionDisk
<1>13. ASSUME NEW s \in Slots, ProvisionKey(s) PROVE VMInv'
  BY <1>13 DEF ProvisionKey, Goto
<1>14. ASSUME NEW s \in Slots, PrepareFails(s) PROVE VMInv'
  BY <1>14 DEF PrepareFails, Finish, Idle
<1>15. ASSUME NEW s \in Slots, ProvisionBoot(s) PROVE VMInv'
  BY <1>15 DEF ProvisionBoot, Goto, Boot, Bootable
<1>16. ASSUME NEW s \in Slots, ProvisionBootFails(s) PROVE VMInv'
  BY <1>16 DEF ProvisionBootFails, Finish, Idle
<1>17. ASSUME NEW s \in Slots, ProvisionSave(s) PROVE VMInv'
  BY <1>17 DEF ProvisionSave, Goto
<1>18. ASSUME NEW s \in Slots, ProvisionSsh(s) PROVE VMInv'
  BY <1>18 DEF ProvisionSsh, Goto
<1>19. ASSUME NEW s \in Slots, ProvisionInstall(s) PROVE VMInv'
  BY <1>19 DEF ProvisionInstall, Goto, Holding, SshWorks
<1>20. ASSUME NEW s \in Slots, ProvisionPlatform(s) PROVE VMInv'
  BY <1>20 DEF ProvisionPlatform, Goto, Holding
<1>21. ASSUME NEW s \in Slots, ProvisionStaged(s) PROVE VMInv'
  BY <1>21 DEF ProvisionStaged, Goto, SshWorks
<1>22. ASSUME NEW s \in Slots, WaitFails(s) PROVE VMInv'
  BY <1>22 DEF WaitFails, Finish, Idle, Holding
<1>23. ASSUME NEW s \in Slots, InstallTimer(s) PROVE VMInv'
  BY <1>23 DEF InstallTimer, Finish, Idle
<1>24. ASSUME NEW s \in Slots, StartSsh(s) PROVE VMInv'
  BY <1>24 DEF StartSsh, Goto
<1>25. ASSUME NEW s \in Slots, StartK3s(s) PROVE VMInv'
  BY <1>25 DEF StartK3s, Goto, SshWorks
<1>26. ASSUME NEW s \in Slots, ResumeBudget(s) PROVE VMInv'
  BY <1>26 DEF ResumeBudget, Goto
<1>27. ASSUME NEW s \in Slots, ShutdownRead(s) PROVE VMInv'
  <2>1. CASE IsRunning
    BY <1>27, <2>1 DEF ShutdownRead, Target, IsRunning
  <2>2. CASE ~IsRunning
    <3>1. ~Running
      BY <2>2, PidsAssumption DEF IsRunning
    <3> QED
      BY <1>27, <2>2, <3>1, DoneStep DEF ShutdownRead
  <2> QED
    BY <2>1, <2>2
<1>28. ASSUME NEW s \in Slots, ShutdownGone(s) PROVE VMInv'
  <2>1. ~Running
    BY <1>28 DEF ShutdownGone, pidAlive
  <2> QED
    BY <1>28, <2>1, DoneStep DEF ShutdownGone
<1>29. ASSUME NEW s \in Slots, ShutdownTerm(s) PROVE VMInv'
  <2>1. CASE IsRunning
    BY <1>29, <2>1 DEF ShutdownTerm, Target, IsRunning
  <2>2. CASE ~IsRunning
    <3>1. ~Running
      BY <2>2, PidsAssumption DEF IsRunning
    <3> QED
      BY <1>29, <2>2, <3>1, DoneStep DEF ShutdownTerm
  <2> QED
    BY <2>1, <2>2
<1>30. ASSUME NEW s \in Slots, ShutdownKill(s) PROVE VMInv'
  BY <1>30 DEF ShutdownKill, Goto, Finish, Idle
<1>31. ASSUME NEW s \in Slots, ShutdownStuck(s) PROVE VMInv'
  BY <1>31 DEF ShutdownStuck, Finish, Idle
<1>32. ASSUME NEW s \in Slots, TeardownContext(s) PROVE VMInv'
  BY <1>32 DEF TeardownContext, Goto
<1>33. ASSUME NEW s \in Slots, TeardownFiles(s) PROVE VMInv'
  BY <1>33 DEF TeardownFiles, Goto
<1>34. ASSUME NEW s \in Slots, TeardownRecord(s) PROVE VMInv'
  BY <1>34 DEF TeardownRecord, Goto, Finish, Idle
<1>35. ASSUME NEW s \in Slots, ReapPause(s) PROVE VMInv'
  BY <1>35 DEF ReapPause, SigStop, IsRunning, Goto, Finish, Idle
<1>36. ASSUME NEW s \in Slots, ReapDisarm(s) PROVE VMInv'
  BY <1>36 DEF ReapDisarm, Finish, Idle
<1>37. ASSUME NEW s \in Slots, Kill(s) PROVE VMInv'
  BY <1>37 DEF Kill, Finish, Idle
<1>38. ASSUME NEW p \in Pids, QemuExits(p) PROVE VMInv'
  BY <1>38 DEF QemuExits
<1>39. ASSUME NEW p \in Pids, VMCrash(p) PROVE VMInv'
  BY <1>39 DEF VMCrash
<1>40. ASSUME NEW p \in Pids, Recycle(p) PROVE VMInv'
  BY <1>40 DEF Recycle
<1>41. ASSUME NEW p \in Pids, ForeignExits(p) PROVE VMInv'
  BY <1>41 DEF ForeignExits
<1>42. ASSUME Reboot PROVE VMInv'
  BY <1>42 DEF Reboot, Idle
<1>43. ASSUME Tick PROVE VMInv'
  BY <1>43 DEF Tick
<1>44. CASE UNCHANGED vars
  BY <1>44 DEF vars
<1> QED
  <2>1. ASSUME NEW s \in Slots, Begin(s) PROVE VMInv'
    BY <2>1, NoImport, <1>1, <1>2, <1>3, <1>4, <1>5, <1>6, <1>7, <1>8, <1>9, <1>10
        DEF Begin, Import, MayRun, NoImport
  <2>2. ASSUME NEW s \in Slots, Continue(s) PROVE VMInv'
    BY <2>2, <1>12, <1>13, <1>14, <1>15, <1>16, <1>17, <1>18, <1>19, <1>20, <1>21,
        <1>22, <1>23, <1>24, <1>25, <1>26, <1>27, <1>28, <1>29, <1>30, <1>31, <1>32,
        <1>33, <1>34, <1>35, <1>36 DEF Continue, Provision, Shutdown, Teardown
  <2>3. CASE Environment
    BY <2>3, <1>37, <1>38, <1>39, <1>40, <1>41, <1>42, <1>43 DEF Environment
  <2> QED
    BY <2>1, <2>2, <2>3, <1>11, <1>44 DEF Next

\* While at most one invocation runs at a time -- the timer's reap included --
\* and whatever fails or is killed in between, a live qemu is the one the
\* pidfile names, its disk exists and the key on the host opens it.
THEOREM SequentialAccountsForVM ==
    ASSUME Sequential, NoImport
    PROVE  Spec => []VMAccounted
<1>1. Init => VMInv
  BY DEF Init, VMInv, VMAccounted, vmAlive, Idle, PollPcs, TeardownPcs
<1>2. TypeOK /\ VMInv /\ [Next]_vars => VMInv'
  BY VMInvStep, Sequential, NoImport
<1>3. VMInv => VMAccounted
  BY DEF VMInv
<1> QED
  BY <1>1, <1>2, <1>3, TypeCorrect, PTL DEF Spec

--------------------------------------------------------------------------------
\* What a step may do to foreign processes, for NoForeignSignal.
Spares == \A p \in Pids : proc[p] = "foreign" =>
             /\ proc'[p] \in {"foreign", "free"}
             /\ \A s \in Slots : cmd'[s].pid = p => cmd[s].pid = p

\* Any number of concurrent invocations: every step spares foreign processes.
LEMMA SparesStep == TypeOK /\ [Next]_vars => Spares
<1> SUFFICES ASSUME TypeOK, [Next]_vars PROVE Spares
  OBVIOUS
<1> USE TypeOK, PidsAssumption DEF TypeOK, Command
<1>e. ASSUME NEW s \in Slots, NEW v, NEW l, Enter(s, v, l)
      PROVE  \A t \in Slots : cmd'[t].pid \in {0, cmd[t].pid}
  BY <1>e DEF Enter, Idle
<1>f. ASSUME NEW s \in Slots, Finish(s)
      PROVE  \A t \in Slots : cmd'[t].pid \in {0, cmd[t].pid}
  BY <1>f DEF Finish, Idle
<1>g. ASSUME NEW s \in Slots, NEW l, Goto(s, l)
      PROVE  \A t \in Slots : cmd'[t].pid \in {0, cmd[t].pid}
  BY <1>g DEF Goto
<1>d. ASSUME NEW s \in Slots, ShutdownDone(s)
      PROVE  \A t \in Slots : cmd'[t].pid \in {0, cmd[t].pid}
  <2>1. cmd'[s].pid \in {0, cmd[s].pid}
    BY <1>d DEF ShutdownDone, Idle
  <2>2. \A t \in Slots \ {s} : cmd'[t] = cmd[t]
    BY <1>d DEF ShutdownDone
  <2> QED
    BY <2>1, <2>2
<1>q. ASSUME \A p \in Pids : proc[p] = "foreign" => proc'[p] \in {"foreign", "free"},
             \A t \in Slots : cmd'[t].pid \in {0, cmd[t].pid}
      PROVE  Spares
  BY <1>q DEF Spares
<1>1. ASSUME NEW s \in Slots, ProvisionBegin(s) PROVE Spares
  BY <1>1, <1>e, <1>q DEF ProvisionBegin, vm, files, budget, names, clock
<1>2. ASSUME NEW s \in Slots, StartBegin(s) PROVE Spares
  BY <1>2, <1>e, <1>q DEF StartBegin, Boot, vm, files, budget, names, clock
<1>3. ASSUME NEW s \in Slots, Pause(s) PROVE Spares
  BY <1>3, <1>q DEF Pause, SigStop, IsRunning, vmAlive, vm, files, budget, names,
      clock
<1>4. ASSUME NEW s \in Slots, ResumeBegin(s) PROVE Spares
  BY <1>4, <1>e, <1>q DEF ResumeBegin, IsRunning, vmAlive, vm, files, budget, names,
      clock
<1>5. ASSUME NEW s \in Slots, StopBegin(s) PROVE Spares
  BY <1>5, <1>e, <1>q DEF StopBegin, vm, files, budget, names, clock
<1>6. ASSUME NEW s \in Slots, TeardownBegin(s) PROVE Spares
  BY <1>6, <1>e, <1>q DEF TeardownBegin, vm, files, budget, names, clock
<1>7. ASSUME NEW s \in Slots, Reap(s) PROVE Spares
  BY <1>7, <1>e, <1>q DEF Reap, ReapDecides, vm, files, budget, names, clock
<1>8. ASSUME NEW s \in Slots, Extend(s) PROVE Spares
  BY <1>8, <1>q DEF Extend, vm, files, budget, names, clock
<1>9. ASSUME NEW s \in Slots, ArmAgain(s) PROVE Spares
  BY <1>9, <1>q DEF ArmAgain, vm, files, budget, names, clock
<1>10. ASSUME NEW s \in Slots, Disarm(s) PROVE Spares
  BY <1>10, <1>q DEF Disarm, vm, files, budget, names, clock
<1>11. ASSUME NEW s \in Slots, Import(s) PROVE Spares
  BY <1>11, <1>q DEF Import, vm, files, budget, names, clock
<1>12. ASSUME NEW s \in Slots, TimerFires(s) PROVE Spares
  BY <1>12, <1>e, <1>q DEF TimerFires, ReapDecides, vm, files, budget, names, clock
<1>13. ASSUME NEW s \in Slots, ProvisionDisk(s) PROVE Spares
  BY <1>13, <1>q DEF ProvisionDisk, vm, files, budget, names, clock
<1>14. ASSUME NEW s \in Slots, ProvisionKey(s) PROVE Spares
  BY <1>14, <1>g, <1>q DEF ProvisionKey, vm, files, budget, names, clock
<1>15. ASSUME NEW s \in Slots, PrepareFails(s) PROVE Spares
  BY <1>15, <1>f, <1>q DEF PrepareFails, vm, files, budget, names, clock
<1>16. ASSUME NEW s \in Slots, ProvisionBoot(s) PROVE Spares
  BY <1>16, <1>g, <1>q DEF ProvisionBoot, Boot, vm, files, budget, names, clock
<1>17. ASSUME NEW s \in Slots, ProvisionBootFails(s) PROVE Spares
  BY <1>17, <1>f, <1>q DEF ProvisionBootFails, vm, files, budget, names, clock
<1>18. ASSUME NEW s \in Slots, ProvisionSave(s) PROVE Spares
  BY <1>18, <1>g, <1>q DEF ProvisionSave, vm, files, budget, names, clock
<1>19. ASSUME NEW s \in Slots, ProvisionSsh(s) PROVE Spares
  BY <1>19, <1>g, <1>q DEF ProvisionSsh, vm, files, budget, names, clock
<1>20. ASSUME NEW s \in Slots, ProvisionInstall(s) PROVE Spares
  BY <1>20, <1>g, <1>q DEF ProvisionInstall, vm, files, budget, names, clock
<1>21. ASSUME NEW s \in Slots, ProvisionPlatform(s) PROVE Spares
  BY <1>21, <1>g, <1>q DEF ProvisionPlatform, vm, files, budget, names, clock
<1>22. ASSUME NEW s \in Slots, ProvisionStaged(s) PROVE Spares
  BY <1>22, <1>g, <1>q DEF ProvisionStaged, vm, files, budget, names, clock
<1>23. ASSUME NEW s \in Slots, WaitFails(s) PROVE Spares
  BY <1>23, <1>f, <1>q DEF WaitFails, vm, files, budget, names, clock
<1>24. ASSUME NEW s \in Slots, InstallTimer(s) PROVE Spares
  BY <1>24, <1>f, <1>q DEF InstallTimer, vm, files, budget, names, clock
<1>25. ASSUME NEW s \in Slots, StartSsh(s) PROVE Spares
  BY <1>25, <1>g, <1>q DEF StartSsh, vm, files, budget, names, clock
<1>26. ASSUME NEW s \in Slots, StartK3s(s) PROVE Spares
  BY <1>26, <1>g, <1>q DEF StartK3s, vm, files, budget, names, clock
<1>27. ASSUME NEW s \in Slots, ResumeBudget(s) PROVE Spares
  BY <1>27, <1>g, <1>q DEF ResumeBudget, vm, files, budget, names, clock
<1>28. ASSUME NEW s \in Slots, ShutdownRead(s) PROVE Spares
  BY <1>28, <1>d, <1>q DEF ShutdownRead, Target, IsRunning, vmAlive, Spares, vm,
      files, budget, names, clock
<1>29. ASSUME NEW s \in Slots, ShutdownGone(s) PROVE Spares
  BY <1>29, <1>d, <1>q DEF ShutdownGone, vm, files, budget, names, clock
<1>30. ASSUME NEW s \in Slots, ShutdownTerm(s) PROVE Spares
  BY <1>30, <1>d, <1>q DEF ShutdownTerm, Target, IsRunning, vmAlive, Spares, vm,
      files, budget, names, clock
<1>31. ASSUME NEW s \in Slots, ShutdownKill(s) PROVE Spares
  BY <1>31, <1>g, <1>f, <1>q DEF ShutdownKill, vm, files, budget, names, clock
<1>32. ASSUME NEW s \in Slots, ShutdownStuck(s) PROVE Spares
  BY <1>32, <1>f, <1>q DEF ShutdownStuck, vm, files, budget, names, clock
<1>33. ASSUME NEW s \in Slots, TeardownContext(s) PROVE Spares
  BY <1>33, <1>g, <1>q DEF TeardownContext, vm, files, budget, names, clock
<1>34. ASSUME NEW s \in Slots, TeardownFiles(s) PROVE Spares
  BY <1>34, <1>g, <1>q DEF TeardownFiles, vm, files, budget, names, clock
<1>35. ASSUME NEW s \in Slots, TeardownRecord(s) PROVE Spares
  BY <1>35, <1>g, <1>f, <1>q DEF TeardownRecord, vm, files, budget, names, clock
<1>36. ASSUME NEW s \in Slots, ReapPause(s) PROVE Spares
  BY <1>36, <1>g, <1>f, <1>q DEF ReapPause, SigStop, IsRunning, vmAlive, vm, files,
      budget, names, clock
<1>37. ASSUME NEW s \in Slots, ReapDisarm(s) PROVE Spares
  BY <1>37, <1>f, <1>q DEF ReapDisarm, vm, files, budget, names, clock
<1>38. ASSUME NEW s \in Slots, Kill(s) PROVE Spares
  BY <1>38, <1>f, <1>q DEF Kill, vm, files, budget, names, clock
<1>39. ASSUME NEW p \in Pids, QemuExits(p) PROVE Spares
  BY <1>39, <1>q DEF QemuExits, vmAlive, vm, files, budget, names, clock
<1>40. ASSUME NEW p \in Pids, VMCrash(p) PROVE Spares
  BY <1>40, <1>q DEF VMCrash, vmAlive, vm, files, budget, names, clock
<1>41. ASSUME NEW p \in Pids, Recycle(p) PROVE Spares
  BY <1>41, <1>q DEF Recycle, vmAlive, vm, files, budget, names, clock
<1>42. ASSUME NEW p \in Pids, ForeignExits(p) PROVE Spares
  BY <1>42, <1>q DEF ForeignExits, vmAlive, vm, files, budget, names, clock
<1>43. ASSUME Reboot PROVE Spares
  BY <1>43, <1>q DEF Reboot, Idle, vm, files, budget, names, clock
<1>44. ASSUME Tick PROVE Spares
  BY <1>44, <1>q DEF Tick, vm, files, budget, names, clock
<1>45. CASE UNCHANGED vars
  BY <1>45 DEF vars, Spares
<1> QED
  <2>1. ASSUME NEW s \in Slots, Begin(s) PROVE Spares
    BY <2>1, <1>1, <1>2, <1>3, <1>4, <1>5, <1>6, <1>7, <1>8, <1>9, <1>10, <1>11 DEF
        Begin
  <2>2. ASSUME NEW s \in Slots, Continue(s) PROVE Spares
    BY <2>2, <1>13, <1>14, <1>15, <1>16, <1>17, <1>18, <1>19, <1>20, <1>21, <1>22,
        <1>23, <1>24, <1>25, <1>26, <1>27, <1>28, <1>29, <1>30, <1>31, <1>32, <1>33,
        <1>34, <1>35, <1>36, <1>37 DEF Continue, Provision, Shutdown, Teardown
  <2>3. CASE Environment
    BY <2>3, <1>38, <1>39, <1>40, <1>41, <1>42, <1>43, <1>44 DEF Environment
  <2> QED
    BY <2>1, <2>2, <2>3, <1>12, <1>45 DEF Next

\* Whatever commands run at the same time, none signals or waits on a process
\* that is not this cluster's qemu, however stale the pidfile is.
THEOREM ForeignProcessesAreSafe == Spec => NoForeignSignal
<1>1. TypeOK /\ [Next]_vars => [Spares]_vars
  BY SparesStep
<1> QED
  BY <1>1, TypeCorrect, PTL DEF Spec, NoForeignSignal, Spares

--------------------------------------------------------------------------------
\* Where a shutdown that is done leaves its invocation.
LEMMA DoneCmd ==
    ASSUME CmdOK, NEW s \in Slots, ShutdownDone(s)
    PROVE  /\ cmd' = [cmd EXCEPT ![s] = cmd'[s]]
           /\ cmd'[s].pc \in {"idle", "rp_disarm", "td_context"}
           /\ cmd'[s].pid = 0 /\ pidfile' = 0
  BY DEF ShutdownDone, Idle, CmdOK, Command

\* What a reap that decides to act changes: its own slot, nothing watched yet.
LEMMA ReapEnters ==
    ASSUME CmdOK, NEW s \in Slots, NEW pending, ReapDecides(s, pending)
    PROVE  \/ cmd' = cmd
           \/ /\ cmd' = [cmd EXCEPT ![s] = cmd'[s]]
              /\ cmd'[s].pc \in {"rp_pause", "sd_read"} /\ cmd'[s].pid = 0
<1>1. \/ cmd' = cmd
      \/ Enter(s, "reap_pause", "rp_pause")
      \/ Enter(s, "reap_teardown", "sd_read")
      \/ Enter(s, "reap_stop", "sd_read")
  BY DEF ReapDecides
<1> QED
  BY <1>1 DEF Enter, Idle, CmdOK

\* One command at a time, every step preserves PlatformInv.
LEMMA PlatformInvStep ==
    ASSUME Sequential, TypeOK, PlatformInv, [Next]_vars
    PROVE  PlatformInv'
<1> USE Sequential, TypeOK, PlatformInv DEF Sequential, TypeOK, CmdOK, Command,
    PlatformInv, vm, files, budget, names, clock
<1>1. ASSUME NEW s \in Slots, ProvisionBegin(s) PROVE PlatformInv'
  BY <1>1 DEF ProvisionBegin, Enter, Idle, MayRun
<1>2. ASSUME NEW s \in Slots, StartBegin(s) PROVE PlatformInv'
  BY <1>2 DEF StartBegin, Enter, Idle, MayRun, Boot, Bootable
<1>3. ASSUME NEW s \in Slots, Pause(s) PROVE PlatformInv'
  BY <1>3 DEF Pause, SigStop, IsRunning, MayRun
<1>4. ASSUME NEW s \in Slots, ResumeBegin(s) PROVE PlatformInv'
  BY <1>4 DEF ResumeBegin, Enter, Idle, IsRunning, MayRun
<1>5. ASSUME NEW s \in Slots, StopBegin(s) PROVE PlatformInv'
  BY <1>5 DEF StopBegin, Enter, Idle, MayRun, AfterDisarm
<1>6. ASSUME NEW s \in Slots, TeardownBegin(s) PROVE PlatformInv'
  BY <1>6 DEF TeardownBegin, Enter, Idle, MayRun, AfterDisarm
<1>7. ASSUME NEW s \in Slots, Reap(s) PROVE PlatformInv'
  <2>1. \/ cmd' = cmd
        \/ /\ cmd' = [cmd EXCEPT ![s] = cmd'[s]]
           /\ cmd'[s].pc \in {"rp_pause", "sd_read"} /\ cmd'[s].pid = 0
    BY <1>7, ReapEnters DEF Reap
  <2> QED
    BY <1>7, <2>1 DEF Reap, MayRun
<1>8. ASSUME NEW s \in Slots, Extend(s) PROVE PlatformInv'
  BY <1>8 DEF Extend, MayRun
<1>9. ASSUME NEW s \in Slots, ArmAgain(s) PROVE PlatformInv'
  BY <1>9 DEF ArmAgain, MayRun
<1>10. ASSUME NEW s \in Slots, Disarm(s) PROVE PlatformInv'
  BY <1>10 DEF Disarm, MayRun
<1>11. ASSUME NEW s \in Slots, Import(s) PROVE PlatformInv'
  BY <1>11 DEF Import, MayRun
<1>12. ASSUME NEW s \in Slots, TimerFires(s) PROVE PlatformInv'
  <2>1. \/ cmd' = cmd
        \/ /\ cmd' = [cmd EXCEPT ![s] = cmd'[s]]
           /\ cmd'[s].pc \in {"rp_pause", "sd_read"} /\ cmd'[s].pid = 0
    BY <1>12, ReapEnters DEF TimerFires
  <2> QED
    BY <1>12, <2>1 DEF TimerFires, MayRun
<1>13. ASSUME NEW s \in Slots, ProvisionDisk(s) PROVE PlatformInv'
  BY <1>13 DEF ProvisionDisk
<1>14. ASSUME NEW s \in Slots, ProvisionKey(s) PROVE PlatformInv'
  BY <1>14 DEF ProvisionKey, Goto
<1>15. ASSUME NEW s \in Slots, PrepareFails(s) PROVE PlatformInv'
  BY <1>15 DEF PrepareFails, Finish, Idle
<1>16. ASSUME NEW s \in Slots, ProvisionBoot(s) PROVE PlatformInv'
  BY <1>16 DEF ProvisionBoot, Goto, Boot, Bootable
<1>17. ASSUME NEW s \in Slots, ProvisionBootFails(s) PROVE PlatformInv'
  BY <1>17 DEF ProvisionBootFails, Finish, Idle
<1>18. ASSUME NEW s \in Slots, ProvisionSave(s) PROVE PlatformInv'
  BY <1>18 DEF ProvisionSave, Goto
<1>19. ASSUME NEW s \in Slots, ProvisionSsh(s) PROVE PlatformInv'
  BY <1>19 DEF ProvisionSsh, Goto, SshWorks
<1>20. ASSUME NEW s \in Slots, ProvisionInstall(s) PROVE PlatformInv'
  BY <1>20 DEF ProvisionInstall, Goto, Holding, SshWorks
<1>21. ASSUME NEW s \in Slots, ProvisionPlatform(s) PROVE PlatformInv'
  BY <1>21 DEF ProvisionPlatform, Goto, Holding, SshWorks
<1>22. ASSUME NEW s \in Slots, ProvisionStaged(s) PROVE PlatformInv'
  BY <1>22 DEF ProvisionStaged, Goto, SshWorks
<1>23. ASSUME NEW s \in Slots, WaitFails(s) PROVE PlatformInv'
  BY <1>23 DEF WaitFails, Finish, Idle, Holding
<1>24. ASSUME NEW s \in Slots, InstallTimer(s) PROVE PlatformInv'
  BY <1>24 DEF InstallTimer, Finish, Idle
<1>25. ASSUME NEW s \in Slots, StartSsh(s) PROVE PlatformInv'
  BY <1>25 DEF StartSsh, Goto, SshWorks
<1>26. ASSUME NEW s \in Slots, StartK3s(s) PROVE PlatformInv'
  BY <1>26 DEF StartK3s, Goto, SshWorks, armLifetime
<1>27. ASSUME NEW s \in Slots, ResumeBudget(s) PROVE PlatformInv'
  BY <1>27 DEF ResumeBudget, Goto, armLifetime
<1>28. ASSUME NEW s \in Slots, ShutdownRead(s) PROVE PlatformInv'
  <2>1. CASE IsRunning
    BY <1>28, <2>1 DEF ShutdownRead, Target, IsRunning
  <2>2. CASE ~IsRunning
    BY <1>28, <2>2, DoneCmd DEF ShutdownRead, IsRunning
  <2> QED
    BY <2>1, <2>2
<1>29. ASSUME NEW s \in Slots, ShutdownGone(s) PROVE PlatformInv'
  BY <1>29, DoneCmd DEF ShutdownGone, pidAlive
<1>30. ASSUME NEW s \in Slots, ShutdownTerm(s) PROVE PlatformInv'
  <2>1. CASE IsRunning
    BY <1>30, <2>1 DEF ShutdownTerm, Target, IsRunning
  <2>2. CASE ~IsRunning
    BY <1>30, <2>2, DoneCmd DEF ShutdownTerm, IsRunning
  <2> QED
    BY <2>1, <2>2
<1>31. ASSUME NEW s \in Slots, ShutdownKill(s) PROVE PlatformInv'
  BY <1>31 DEF ShutdownKill, Goto, Finish, Idle, pidAlive
<1>32. ASSUME NEW s \in Slots, ShutdownStuck(s) PROVE PlatformInv'
  BY <1>32 DEF ShutdownStuck, Finish, Idle
<1>33. ASSUME NEW s \in Slots, TeardownContext(s) PROVE PlatformInv'
  BY <1>33 DEF TeardownContext, Goto
<1>34. ASSUME NEW s \in Slots, TeardownFiles(s) PROVE PlatformInv'
  BY <1>34 DEF TeardownFiles, Goto
<1>35. ASSUME NEW s \in Slots, TeardownRecord(s) PROVE PlatformInv'
  BY <1>35 DEF TeardownRecord, Goto, Finish, Idle
<1>36. ASSUME NEW s \in Slots, ReapPause(s) PROVE PlatformInv'
  BY <1>36 DEF ReapPause, SigStop, IsRunning, Goto, Finish, Idle
<1>37. ASSUME NEW s \in Slots, ReapDisarm(s) PROVE PlatformInv'
  BY <1>37 DEF ReapDisarm, Finish, Idle, AfterDisarm
<1>38. ASSUME NEW s \in Slots, Kill(s) PROVE PlatformInv'
  BY <1>38 DEF Kill, Finish, Idle
<1>39. ASSUME NEW p \in Pids, QemuExits(p) PROVE PlatformInv'
  BY <1>39 DEF QemuExits
<1>40. ASSUME NEW p \in Pids, VMCrash(p) PROVE PlatformInv'
  BY <1>40 DEF VMCrash
<1>41. ASSUME NEW p \in Pids, Recycle(p) PROVE PlatformInv'
  BY <1>41 DEF Recycle
<1>42. ASSUME NEW p \in Pids, ForeignExits(p) PROVE PlatformInv'
  BY <1>42 DEF ForeignExits
<1>43. ASSUME Reboot PROVE PlatformInv'
  BY <1>43 DEF Reboot, Idle
<1>44. ASSUME Tick PROVE PlatformInv'
  BY <1>44 DEF Tick
<1>45. CASE UNCHANGED vars
  BY <1>45 DEF vars
<1> QED
  <2>1. ASSUME NEW s \in Slots, Begin(s) PROVE PlatformInv'
    BY <2>1, <1>1, <1>2, <1>3, <1>4, <1>5, <1>6, <1>7, <1>8, <1>9, <1>10, <1>11
        DEF Begin
  <2>2. ASSUME NEW s \in Slots, Continue(s) PROVE PlatformInv'
    BY <2>2, <1>13, <1>14, <1>15, <1>16, <1>17, <1>18, <1>19, <1>20, <1>21, <1>22,
        <1>23, <1>24, <1>25, <1>26, <1>27, <1>28, <1>29, <1>30, <1>31, <1>32, <1>33,
        <1>34, <1>35, <1>36, <1>37
       DEF Continue, Provision, Shutdown, Teardown
  <2>3. CASE Environment
    BY <2>3, <1>38, <1>39, <1>40, <1>41, <1>42, <1>43, <1>44 DEF Environment
  <2> QED
    BY <2>1, <2>2, <2>3, <1>12, <1>45 DEF Next

\* A step on a disk with the platform leaves it or removes it.
Keeps == disk = "platform" => disk' \in {"platform", "none"}

\* What PlatformInv is for: nothing is written onto the platform.
LEMMA PlatformDiskStep == TypeOK /\ PlatformInv /\ [Next]_vars => Keeps
<1> SUFFICES ASSUME TypeOK, PlatformInv, [Next]_vars PROVE Keeps
  OBVIOUS
<1> USE TypeOK, PlatformInv DEF TypeOK, PlatformInv, Keeps, vm, files, budget, names,
    clock
<1>1. ASSUME NEW s \in Slots, Begin(s) PROVE Keeps
  BY <1>1 DEF Begin, ProvisionBegin, StartBegin, Pause, ResumeBegin, StopBegin,
      TeardownBegin, Reap, Extend, ArmAgain, Disarm, Import
<1>2. ASSUME NEW s \in Slots, TimerFires(s) PROVE Keeps
  BY <1>2 DEF TimerFires
<1>3. ASSUME NEW s \in Slots, Provision(s) PROVE Keeps
  BY <1>3 DEF Provision, ProvisionDisk, ProvisionKey, PrepareFails, ProvisionBoot,
      ProvisionBootFails, ProvisionSave, ProvisionSsh, ProvisionInstall,
      ProvisionPlatform, ProvisionStaged, Holding
<1>4. ASSUME NEW s \in Slots, WaitFails(s) PROVE Keeps
  BY <1>4 DEF WaitFails, Holding
<1>5. ASSUME NEW s \in Slots, Continue(s) PROVE Keeps
  <2>1. CASE Provision(s) \/ WaitFails(s)
    BY <2>1, <1>3, <1>4
  <2>2. CASE InstallTimer(s) \/ StartSsh(s) \/ StartK3s(s) \/ ResumeBudget(s)
               \/ ReapPause(s) \/ ReapDisarm(s)
    BY <2>2 DEF InstallTimer, StartSsh, StartK3s, ResumeBudget, ReapPause, ReapDisarm
  <2>3. CASE Shutdown(s) \/ Teardown(s)
    BY <2>3 DEF Shutdown, ShutdownRead, ShutdownGone, ShutdownTerm, ShutdownKill,
        ShutdownStuck, Teardown, TeardownContext, TeardownFiles, TeardownRecord
  <2> QED
    BY <1>5, <2>1, <2>2, <2>3 DEF Continue
<1>6. CASE Environment
  BY <1>6 DEF Environment, QemuExits, VMCrash, Recycle, ForeignExits, Kill, Reboot,
      Tick
<1> QED
  BY <1>1, <1>2, <1>5, <1>6 DEF Next, vars

\* One command at a time, import included and whatever fails: what holds the
\* platform is never installed over.
THEOREM PlatformIsKept ==
    ASSUME Sequential
    PROVE  Spec => PlatformNotClobbered
<1>1. Init => PlatformInv
  BY DEF Init, PlatformInv, Idle
<1>2. TypeOK /\ PlatformInv /\ [Next]_vars => PlatformInv'
  BY PlatformInvStep, Sequential
<1>3. TypeOK /\ PlatformInv /\ [Next]_vars
        => [Keeps]_vars
  BY PlatformDiskStep
<1> QED
  BY <1>1, <1>2, <1>3, TypeCorrect, PTL DEF Spec, PlatformNotClobbered, Keeps

--------------------------------------------------------------------------------
\* No invocation boots a VM.
NoBoot == \A s \in Slots : Verbs[s] \cap {"provision", "start"} = {}

\* Any number of concurrent shutdowns, pauses and resumes keep WatchInv.
LEMMA WatchInvStep ==
    ASSUME NoBoot, TypeOK, WatchInv, [Next]_vars,
           \A s \in Slots : cmd[s].pc \notin {"pv_disk", "pv_key", "pv_boot"}
    PROVE  /\ WatchInv'
           /\ \A s \in Slots : cmd'[s].pc \notin {"pv_disk", "pv_key", "pv_boot"}
<1> DEFINE W == /\ WatchInv'
                /\ \A s \in Slots : cmd'[s].pc \notin {"pv_disk", "pv_key", "pv_boot"}
<1> SUFFICES W
  OBVIOUS
<1> USE NoBoot, TypeOK, WatchInv, PidsAssumption DEF NoBoot, TypeOK, CmdOK, Command,
    WatchInv, vmAlive, PollPcs, vm, files, budget, names, clock
<1>1. ASSUME NEW s \in Slots, ProvisionBegin(s) PROVE W
  BY <1>1 DEF ProvisionBegin, Enter, Idle, MayRun
<1>2. ASSUME NEW s \in Slots, StartBegin(s) PROVE W
  BY <1>2 DEF StartBegin, Enter, Idle, MayRun, Boot, Bootable
<1>3. ASSUME NEW s \in Slots, Pause(s) PROVE W
  BY <1>3 DEF Pause, SigStop, IsRunning, MayRun
<1>4. ASSUME NEW s \in Slots, ResumeBegin(s) PROVE W
  BY <1>4 DEF ResumeBegin, Enter, Idle, IsRunning, MayRun
<1>5. ASSUME NEW s \in Slots, StopBegin(s) PROVE W
  BY <1>5 DEF StopBegin, Enter, Idle, MayRun, AfterDisarm
<1>6. ASSUME NEW s \in Slots, TeardownBegin(s) PROVE W
  BY <1>6 DEF TeardownBegin, Enter, Idle, MayRun, AfterDisarm
<1>7. ASSUME NEW s \in Slots, Reap(s) PROVE W
  <2>1. \/ cmd' = cmd
        \/ /\ cmd' = [cmd EXCEPT ![s] = cmd'[s]]
           /\ cmd'[s].pc \in {"rp_pause", "sd_read"} /\ cmd'[s].pid = 0
    BY <1>7, ReapEnters DEF Reap
  <2> QED
    BY <1>7, <2>1 DEF Reap, MayRun
<1>8. ASSUME NEW s \in Slots, Extend(s) PROVE W
  BY <1>8 DEF Extend, MayRun
<1>9. ASSUME NEW s \in Slots, ArmAgain(s) PROVE W
  BY <1>9 DEF ArmAgain, MayRun
<1>10. ASSUME NEW s \in Slots, Disarm(s) PROVE W
  BY <1>10 DEF Disarm, MayRun
<1>11. ASSUME NEW s \in Slots, Import(s) PROVE W
  BY <1>11 DEF Import, MayRun
<1>12. ASSUME NEW s \in Slots, TimerFires(s) PROVE W
  <2>1. \/ cmd' = cmd
        \/ /\ cmd' = [cmd EXCEPT ![s] = cmd'[s]]
           /\ cmd'[s].pc \in {"rp_pause", "sd_read"} /\ cmd'[s].pid = 0
    BY <1>12, ReapEnters DEF TimerFires
  <2> QED
    BY <1>12, <2>1 DEF TimerFires, MayRun
<1>13. ASSUME NEW s \in Slots, ProvisionDisk(s) PROVE W
  BY <1>13 DEF ProvisionDisk
<1>14. ASSUME NEW s \in Slots, ProvisionKey(s) PROVE W
  BY <1>14 DEF ProvisionKey, Goto
<1>15. ASSUME NEW s \in Slots, PrepareFails(s) PROVE W
  BY <1>15 DEF PrepareFails, Finish, Idle
<1>16. ASSUME NEW s \in Slots, ProvisionBoot(s) PROVE W
  BY <1>16 DEF ProvisionBoot, Goto, Boot, Bootable
<1>17. ASSUME NEW s \in Slots, ProvisionBootFails(s) PROVE W
  BY <1>17 DEF ProvisionBootFails, Finish, Idle
<1>18. ASSUME NEW s \in Slots, ProvisionSave(s) PROVE W
  BY <1>18 DEF ProvisionSave, Goto
<1>19. ASSUME NEW s \in Slots, ProvisionSsh(s) PROVE W
  BY <1>19 DEF ProvisionSsh, Goto, SshWorks
<1>20. ASSUME NEW s \in Slots, ProvisionInstall(s) PROVE W
  BY <1>20 DEF ProvisionInstall, Goto, Holding, SshWorks
<1>21. ASSUME NEW s \in Slots, ProvisionPlatform(s) PROVE W
  BY <1>21 DEF ProvisionPlatform, Goto, Holding, SshWorks
<1>22. ASSUME NEW s \in Slots, ProvisionStaged(s) PROVE W
  BY <1>22 DEF ProvisionStaged, Goto, SshWorks
<1>23. ASSUME NEW s \in Slots, WaitFails(s) PROVE W
  BY <1>23 DEF WaitFails, Finish, Idle, Holding
<1>24. ASSUME NEW s \in Slots, InstallTimer(s) PROVE W
  BY <1>24 DEF InstallTimer, Finish, Idle
<1>25. ASSUME NEW s \in Slots, StartSsh(s) PROVE W
  BY <1>25 DEF StartSsh, Goto, SshWorks
<1>26. ASSUME NEW s \in Slots, StartK3s(s) PROVE W
  BY <1>26 DEF StartK3s, Goto, SshWorks, armLifetime
<1>27. ASSUME NEW s \in Slots, ResumeBudget(s) PROVE W
  BY <1>27 DEF ResumeBudget, Goto, armLifetime
<1>28. ASSUME NEW s \in Slots, ShutdownRead(s) PROVE W
  <2>1. CASE IsRunning
    BY <1>28, <2>1 DEF ShutdownRead, Target, IsRunning
  <2>2. CASE ~IsRunning
    BY <1>28, <2>2, DoneCmd DEF ShutdownRead, IsRunning
  <2> QED
    BY <2>1, <2>2
<1>29. ASSUME NEW s \in Slots, ShutdownGone(s) PROVE W
  BY <1>29, DoneCmd DEF ShutdownGone, pidAlive
<1>30. ASSUME NEW s \in Slots, ShutdownTerm(s) PROVE W
  <2>1. CASE IsRunning
    BY <1>30, <2>1 DEF ShutdownTerm, Target, IsRunning
  <2>2. CASE ~IsRunning
    BY <1>30, <2>2, DoneCmd DEF ShutdownTerm, IsRunning
  <2> QED
    BY <2>1, <2>2
<1>31. ASSUME NEW s \in Slots, ShutdownKill(s) PROVE W
  BY <1>31 DEF ShutdownKill, Goto, Finish, Idle, pidAlive
<1>32. ASSUME NEW s \in Slots, ShutdownStuck(s) PROVE W
  BY <1>32 DEF ShutdownStuck, Finish, Idle
<1>33. ASSUME NEW s \in Slots, TeardownContext(s) PROVE W
  BY <1>33 DEF TeardownContext, Goto
<1>34. ASSUME NEW s \in Slots, TeardownFiles(s) PROVE W
  BY <1>34 DEF TeardownFiles, Goto
<1>35. ASSUME NEW s \in Slots, TeardownRecord(s) PROVE W
  BY <1>35 DEF TeardownRecord, Goto, Finish, Idle
<1>36. ASSUME NEW s \in Slots, ReapPause(s) PROVE W
  BY <1>36 DEF ReapPause, SigStop, IsRunning, Goto, Finish, Idle
<1>37. ASSUME NEW s \in Slots, ReapDisarm(s) PROVE W
  BY <1>37 DEF ReapDisarm, Finish, Idle, AfterDisarm
<1>38. ASSUME NEW s \in Slots, Kill(s) PROVE W
  BY <1>38 DEF Kill, Finish, Idle
<1>39. ASSUME NEW p \in Pids, QemuExits(p) PROVE W
  BY <1>39 DEF QemuExits
<1>40. ASSUME NEW p \in Pids, VMCrash(p) PROVE W
  BY <1>40 DEF VMCrash
<1>41. ASSUME NEW p \in Pids, Recycle(p) PROVE W
  BY <1>41 DEF Recycle
<1>42. ASSUME NEW p \in Pids, ForeignExits(p) PROVE W
  BY <1>42 DEF ForeignExits
<1>43. ASSUME Reboot PROVE W
  BY <1>43 DEF Reboot, Idle
<1>44. ASSUME Tick PROVE W
  BY <1>44 DEF Tick
<1>45. CASE UNCHANGED vars
  BY <1>45 DEF vars
<1> QED
  <2>1. ASSUME NEW s \in Slots, Begin(s) PROVE W
    BY <2>1, <1>1, <1>2, <1>3, <1>4, <1>5, <1>6, <1>7, <1>8, <1>9, <1>10, <1>11
        DEF Begin
  <2>2. ASSUME NEW s \in Slots, Continue(s) PROVE W
    BY <2>2, <1>13, <1>14, <1>15, <1>16, <1>17, <1>18, <1>19, <1>20, <1>21, <1>22,
        <1>23, <1>24, <1>25, <1>26, <1>27, <1>28, <1>29, <1>30, <1>31, <1>32, <1>33,
        <1>34, <1>35, <1>36, <1>37
       DEF Continue, Provision, Shutdown, Teardown
  <2>3. CASE Environment
    BY <2>3, <1>38, <1>39, <1>40, <1>41, <1>42, <1>43, <1>44 DEF Environment
  <2> QED
    BY <2>1, <2>2, <2>3, <1>12, <1>45 DEF Next

\* A step with which an invocation leaves its shutdown, for DownWhenDone.
Downs ==
    \A s \in Slots :
          /\ cmd[s].pc \in ShutdownPcs
          /\ cmd'[s].pc \notin ShutdownPcs
          => ~Running

\* A shutdown waits for the only qemu, and its only other way out is an error.
LEMMA DownsStep ==
    ASSUME Faults \cap {"stuck", "kill", "reboot"} = {}, TypeOK, WatchInv, [Next]_vars
    PROVE  Downs
<1> USE TypeOK, WatchInv, PidsAssumption DEF TypeOK, CmdOK, Command,
    WatchInv, vmAlive, Running, PollPcs, ShutdownPcs, Downs, vm, files, budget, names,
    clock
<1>1. ASSUME NEW s \in Slots, ProvisionBegin(s) PROVE Downs
  BY <1>1 DEF ProvisionBegin, Enter, Idle, MayRun
<1>2. ASSUME NEW s \in Slots, StartBegin(s) PROVE Downs
  BY <1>2 DEF StartBegin, Enter, Idle, MayRun, Boot, Bootable
<1>3. ASSUME NEW s \in Slots, Pause(s) PROVE Downs
  BY <1>3 DEF Pause, SigStop, IsRunning, MayRun
<1>4. ASSUME NEW s \in Slots, ResumeBegin(s) PROVE Downs
  BY <1>4 DEF ResumeBegin, Enter, Idle, IsRunning, MayRun
<1>5. ASSUME NEW s \in Slots, StopBegin(s) PROVE Downs
  BY <1>5 DEF StopBegin, Enter, Idle, MayRun, AfterDisarm
<1>6. ASSUME NEW s \in Slots, TeardownBegin(s) PROVE Downs
  BY <1>6 DEF TeardownBegin, Enter, Idle, MayRun, AfterDisarm
<1>7. ASSUME NEW s \in Slots, Reap(s) PROVE Downs
  <2>1. \/ cmd' = cmd
        \/ /\ cmd' = [cmd EXCEPT ![s] = cmd'[s]]
           /\ cmd'[s].pc \in {"rp_pause", "sd_read"} /\ cmd'[s].pid = 0
    BY <1>7, ReapEnters DEF Reap
  <2> QED
    BY <1>7, <2>1 DEF Reap, MayRun
<1>8. ASSUME NEW s \in Slots, Extend(s) PROVE Downs
  BY <1>8 DEF Extend, MayRun
<1>9. ASSUME NEW s \in Slots, ArmAgain(s) PROVE Downs
  BY <1>9 DEF ArmAgain, MayRun
<1>10. ASSUME NEW s \in Slots, Disarm(s) PROVE Downs
  BY <1>10 DEF Disarm, MayRun
<1>11. ASSUME NEW s \in Slots, Import(s) PROVE Downs
  BY <1>11 DEF Import, MayRun
<1>12. ASSUME NEW s \in Slots, TimerFires(s) PROVE Downs
  <2>1. \/ cmd' = cmd
        \/ /\ cmd' = [cmd EXCEPT ![s] = cmd'[s]]
           /\ cmd'[s].pc \in {"rp_pause", "sd_read"} /\ cmd'[s].pid = 0
    BY <1>12, ReapEnters DEF TimerFires
  <2> QED
    BY <1>12, <2>1 DEF TimerFires, MayRun
<1>13. ASSUME NEW s \in Slots, ProvisionDisk(s) PROVE Downs
  BY <1>13 DEF ProvisionDisk
<1>14. ASSUME NEW s \in Slots, ProvisionKey(s) PROVE Downs
  BY <1>14 DEF ProvisionKey, Goto
<1>15. ASSUME NEW s \in Slots, PrepareFails(s) PROVE Downs
  BY <1>15 DEF PrepareFails, Finish, Idle
<1>16. ASSUME NEW s \in Slots, ProvisionBoot(s) PROVE Downs
  BY <1>16 DEF ProvisionBoot, Goto, Boot, Bootable
<1>17. ASSUME NEW s \in Slots, ProvisionBootFails(s) PROVE Downs
  BY <1>17 DEF ProvisionBootFails, Finish, Idle
<1>18. ASSUME NEW s \in Slots, ProvisionSave(s) PROVE Downs
  BY <1>18 DEF ProvisionSave, Goto
<1>19. ASSUME NEW s \in Slots, ProvisionSsh(s) PROVE Downs
  BY <1>19 DEF ProvisionSsh, Goto, SshWorks
<1>20. ASSUME NEW s \in Slots, ProvisionInstall(s) PROVE Downs
  BY <1>20 DEF ProvisionInstall, Goto, Holding, SshWorks
<1>21. ASSUME NEW s \in Slots, ProvisionPlatform(s) PROVE Downs
  BY <1>21 DEF ProvisionPlatform, Goto, Holding, SshWorks
<1>22. ASSUME NEW s \in Slots, ProvisionStaged(s) PROVE Downs
  BY <1>22 DEF ProvisionStaged, Goto, SshWorks
<1>23. ASSUME NEW s \in Slots, WaitFails(s) PROVE Downs
  BY <1>23 DEF WaitFails, Finish, Idle, Holding
<1>24. ASSUME NEW s \in Slots, InstallTimer(s) PROVE Downs
  BY <1>24 DEF InstallTimer, Finish, Idle
<1>25. ASSUME NEW s \in Slots, StartSsh(s) PROVE Downs
  BY <1>25 DEF StartSsh, Goto, SshWorks
<1>26. ASSUME NEW s \in Slots, StartK3s(s) PROVE Downs
  BY <1>26 DEF StartK3s, Goto, SshWorks, armLifetime
<1>27. ASSUME NEW s \in Slots, ResumeBudget(s) PROVE Downs
  BY <1>27 DEF ResumeBudget, Goto, armLifetime
<1>28. ASSUME NEW s \in Slots, ShutdownRead(s) PROVE Downs
  <2>1. CASE IsRunning
    BY <1>28, <2>1 DEF ShutdownRead, Target, IsRunning
  <2>2. CASE ~IsRunning
    BY <1>28, <2>2, DoneCmd DEF ShutdownRead, IsRunning
  <2> QED
    BY <2>1, <2>2
<1>29. ASSUME NEW s \in Slots, ShutdownGone(s) PROVE Downs
  BY <1>29, DoneCmd DEF ShutdownGone, pidAlive
<1>30. ASSUME NEW s \in Slots, ShutdownTerm(s) PROVE Downs
  <2>1. CASE IsRunning
    BY <1>30, <2>1 DEF ShutdownTerm, Target, IsRunning
  <2>2. CASE ~IsRunning
    BY <1>30, <2>2, DoneCmd DEF ShutdownTerm, IsRunning
  <2> QED
    BY <2>1, <2>2
<1>31. ASSUME NEW s \in Slots, ShutdownKill(s) PROVE Downs
  BY <1>31 DEF ShutdownKill, Goto, Finish, Idle, pidAlive
<1>32. ASSUME NEW s \in Slots, ShutdownStuck(s) PROVE Downs
  BY <1>32 DEF ShutdownStuck, Finish, Idle
<1>33. ASSUME NEW s \in Slots, TeardownContext(s) PROVE Downs
  BY <1>33 DEF TeardownContext, Goto
<1>34. ASSUME NEW s \in Slots, TeardownFiles(s) PROVE Downs
  BY <1>34 DEF TeardownFiles, Goto
<1>35. ASSUME NEW s \in Slots, TeardownRecord(s) PROVE Downs
  BY <1>35 DEF TeardownRecord, Goto, Finish, Idle
<1>36. ASSUME NEW s \in Slots, ReapPause(s) PROVE Downs
  BY <1>36 DEF ReapPause, SigStop, IsRunning, Goto, Finish, Idle
<1>37. ASSUME NEW s \in Slots, ReapDisarm(s) PROVE Downs
  BY <1>37 DEF ReapDisarm, Finish, Idle, AfterDisarm
<1>38. ASSUME NEW s \in Slots, Kill(s) PROVE Downs
  BY <1>38 DEF Kill, Finish, Idle
<1>39. ASSUME NEW p \in Pids, QemuExits(p) PROVE Downs
  BY <1>39 DEF QemuExits
<1>40. ASSUME NEW p \in Pids, VMCrash(p) PROVE Downs
  BY <1>40 DEF VMCrash
<1>41. ASSUME NEW p \in Pids, Recycle(p) PROVE Downs
  BY <1>41 DEF Recycle
<1>42. ASSUME NEW p \in Pids, ForeignExits(p) PROVE Downs
  BY <1>42 DEF ForeignExits
<1>43. ASSUME Reboot PROVE Downs
  BY <1>43 DEF Reboot, Idle
<1>44. ASSUME Tick PROVE Downs
  BY <1>44 DEF Tick
<1>45. CASE UNCHANGED vars
  BY <1>45 DEF vars
<1> QED
  <2>1. ASSUME NEW s \in Slots, Begin(s) PROVE Downs
    BY <2>1, <1>1, <1>2, <1>3, <1>4, <1>5, <1>6, <1>7, <1>8, <1>9, <1>10, <1>11
        DEF Begin
  <2>2. ASSUME NEW s \in Slots, Continue(s) PROVE Downs
    BY <2>2, <1>13, <1>14, <1>15, <1>16, <1>17, <1>18, <1>19, <1>20, <1>21, <1>22,
        <1>23, <1>24, <1>25, <1>26, <1>27, <1>28, <1>29, <1>30, <1>31, <1>32, <1>33,
        <1>34, <1>35, <1>36, <1>37
       DEF Continue, Provision, Shutdown, Teardown
  <2>3. CASE Environment
    BY <2>3, <1>38, <1>39, <1>40, <1>41, <1>42, <1>43, <1>44 DEF Environment
  <2> QED
    BY <2>1, <2>2, <2>3, <1>12, <1>45 DEF Next

\* Any number of invocations that shut one VM down, pause, resume or reap it at
\* the same time: whichever returns without an error has left no VM up.
THEOREM ShutdownsAreDown ==
    ASSUME NoBoot, Faults \cap {"stuck", "kill", "reboot"} = {}
    PROVE  InitProvisioned /\ [][Next]_vars => DownWhenDone
<1> DEFINE Q == \A s \in Slots : cmd[s].pc \notin {"pv_disk", "pv_key", "pv_boot"}
<1>1. InitProvisioned => TypeOK /\ WatchInv /\ Q
  <2> SUFFICES ASSUME InitProvisioned PROVE TypeOK /\ WatchInv /\ Q
    OBVIOUS
  <2>1. cmd = [s \in Slots |-> Idle] /\ Idle \in Command
    BY DEF InitProvisioned, Idle, Command, Pcs
  <2>2. WatchInv /\ Q
    BY <2>1 DEF InitProvisioned, WatchInv, vmAlive, PollPcs, Idle
  <2>3. now \in 1 .. MaxTime /\ upSince \in 0 .. MaxTime /\ expiresAt \in Deadlines
    BY TimesAssumption DEF InitProvisioned, Deadlines
  <2>4. timers \subseteq Deadlines
    BY TimesAssumption DEF InitProvisioned, Deadlines
  <2>5. proc \in [Pids -> {"free", "qemu", "paused", "foreign"}]
        /\ pidfile \in Pids \cup {0} /\ onExpiry \in OnExpiries \cup {"stop"}
    BY DEF InitProvisioned
  <2> QED
    BY <2>1, <2>2, <2>3, <2>4, <2>5 DEF TypeOK, InitProvisioned
<1>2. TypeOK /\ WatchInv /\ Q /\ [Next]_vars => WatchInv' /\ Q'
  BY WatchInvStep, NoBoot
<1>3. TypeOK /\ WatchInv /\ [Next]_vars => [Downs]_vars
  BY DownsStep
<1> QED
  BY <1>1, <1>2, <1>3, TypeStep, PTL DEF DownWhenDone, Downs

\* The same with one command at a time, from an empty host and with every verb
\* but import.
THEOREM SequentialShutdownsAreDown ==
    ASSUME Sequential, NoImport, Faults \cap {"stuck", "kill", "reboot"} = {}
    PROVE  Spec => DownWhenDone
<1>1. Init => VMInv
  BY DEF Init, VMInv, VMAccounted, vmAlive, Idle, PollPcs, TeardownPcs
<1>2. TypeOK /\ VMInv /\ [Next]_vars => VMInv'
  BY VMInvStep, Sequential, NoImport
<1>3. VMInv => WatchInv
  BY DEF VMInv, VMAccounted, WatchInv
<1>4. TypeOK /\ WatchInv /\ [Next]_vars => [Downs]_vars
  BY DownsStep
<1> QED
  BY <1>1, <1>2, <1>3, <1>4, TypeCorrect, PTL DEF Spec, DownWhenDone, Downs

--------------------------------------------------------------------------------
\* One command at a time, none hanging or killed, every sidecar written:
\* PowerInv is preserved.
LEMMA PowerInvStep ==
    ASSUME Sequential, Faults \cap {"hang", "kill", "sidecar"} = {}, TypeOK, VMInv,
           PowerInv, [Next]_vars
    PROVE  PowerInv'
<1> USE Sequential, TypeOK, VMInv, PowerInv, PidsAssumption DEF Sequential, TypeOK,
    CmdOK, Command, VMInv, VMAccounted, PowerInv, NoHardPowerOff, vmAlive, Running,
    PollPcs, TeardownPcs, vm, files, budget, names, clock
<1>1. ASSUME NEW s \in Slots, ProvisionBegin(s) PROVE PowerInv'
  BY <1>1 DEF ProvisionBegin, Enter, Idle, MayRun
<1>2. ASSUME NEW s \in Slots, StartBegin(s) PROVE PowerInv'
  BY <1>2 DEF StartBegin, Enter, Idle, MayRun, Boot, Bootable
<1>3. ASSUME NEW s \in Slots, Pause(s) PROVE PowerInv'
  BY <1>3 DEF Pause, SigStop, IsRunning, MayRun
<1>4. ASSUME NEW s \in Slots, ResumeBegin(s) PROVE PowerInv'
  BY <1>4 DEF ResumeBegin, Enter, Idle, IsRunning, MayRun
<1>5. ASSUME NEW s \in Slots, StopBegin(s) PROVE PowerInv'
  BY <1>5 DEF StopBegin, Enter, Idle, MayRun, AfterDisarm
<1>6. ASSUME NEW s \in Slots, TeardownBegin(s) PROVE PowerInv'
  BY <1>6 DEF TeardownBegin, Enter, Idle, MayRun, AfterDisarm
<1>7. ASSUME NEW s \in Slots, Reap(s) PROVE PowerInv'
  <2>1. \/ cmd' = cmd
        \/ /\ cmd' = [cmd EXCEPT ![s] = cmd'[s]]
           /\ cmd'[s].pc \in {"rp_pause", "sd_read"} /\ cmd'[s].pid = 0
    BY <1>7, ReapEnters DEF Reap
  <2> QED
    BY <1>7, <2>1 DEF Reap, MayRun
<1>8. ASSUME NEW s \in Slots, Extend(s) PROVE PowerInv'
  BY <1>8 DEF Extend, MayRun
<1>9. ASSUME NEW s \in Slots, ArmAgain(s) PROVE PowerInv'
  BY <1>9 DEF ArmAgain, MayRun
<1>10. ASSUME NEW s \in Slots, Disarm(s) PROVE PowerInv'
  BY <1>10 DEF Disarm, MayRun
<1>11. ASSUME NEW s \in Slots, Import(s) PROVE PowerInv'
  BY <1>11 DEF Import, MayRun
<1>12. ASSUME NEW s \in Slots, TimerFires(s) PROVE PowerInv'
  <2>1. \/ cmd' = cmd
        \/ /\ cmd' = [cmd EXCEPT ![s] = cmd'[s]]
           /\ cmd'[s].pc \in {"rp_pause", "sd_read"} /\ cmd'[s].pid = 0
    BY <1>12, ReapEnters DEF TimerFires
  <2> QED
    BY <1>12, <2>1 DEF TimerFires, MayRun
<1>13. ASSUME NEW s \in Slots, ProvisionDisk(s) PROVE PowerInv'
  BY <1>13 DEF ProvisionDisk
<1>14. ASSUME NEW s \in Slots, ProvisionKey(s) PROVE PowerInv'
  BY <1>14 DEF ProvisionKey, Goto
<1>15. ASSUME NEW s \in Slots, PrepareFails(s) PROVE PowerInv'
  BY <1>15 DEF PrepareFails, Finish, Idle
<1>16. ASSUME NEW s \in Slots, ProvisionBoot(s) PROVE PowerInv'
  BY <1>16 DEF ProvisionBoot, Goto, Boot, Bootable
<1>17. ASSUME NEW s \in Slots, ProvisionBootFails(s) PROVE PowerInv'
  BY <1>17 DEF ProvisionBootFails, Finish, Idle
<1>18. ASSUME NEW s \in Slots, ProvisionSave(s) PROVE PowerInv'
  BY <1>18 DEF ProvisionSave, Goto
<1>19. ASSUME NEW s \in Slots, ProvisionSsh(s) PROVE PowerInv'
  BY <1>19 DEF ProvisionSsh, Goto, SshWorks
<1>20. ASSUME NEW s \in Slots, ProvisionInstall(s) PROVE PowerInv'
  BY <1>20 DEF ProvisionInstall, Goto, Holding, SshWorks
<1>21. ASSUME NEW s \in Slots, ProvisionPlatform(s) PROVE PowerInv'
  BY <1>21 DEF ProvisionPlatform, Goto, Holding, SshWorks
<1>22. ASSUME NEW s \in Slots, ProvisionStaged(s) PROVE PowerInv'
  BY <1>22 DEF ProvisionStaged, Goto, SshWorks
<1>23. ASSUME NEW s \in Slots, WaitFails(s) PROVE PowerInv'
  BY <1>23 DEF WaitFails, Finish, Idle, Holding
<1>24. ASSUME NEW s \in Slots, InstallTimer(s) PROVE PowerInv'
  BY <1>24 DEF InstallTimer, Finish, Idle
<1>25. ASSUME NEW s \in Slots, StartSsh(s) PROVE PowerInv'
  BY <1>25 DEF StartSsh, Goto, SshWorks
<1>26. ASSUME NEW s \in Slots, StartK3s(s) PROVE PowerInv'
  BY <1>26 DEF StartK3s, Goto, SshWorks, armLifetime
<1>27. ASSUME NEW s \in Slots, ResumeBudget(s) PROVE PowerInv'
  BY <1>27 DEF ResumeBudget, Goto, armLifetime
<1>28. ASSUME NEW s \in Slots, ShutdownRead(s) PROVE PowerInv'
  <2>1. CASE IsRunning
    BY <1>28, <2>1 DEF ShutdownRead, Target, IsRunning
  <2>2. CASE ~IsRunning
    BY <1>28, <2>2, DoneCmd DEF ShutdownRead, IsRunning
  <2> QED
    BY <2>1, <2>2
<1>29. ASSUME NEW s \in Slots, ShutdownGone(s) PROVE PowerInv'
  BY <1>29, DoneCmd DEF ShutdownGone, pidAlive
<1>30. ASSUME NEW s \in Slots, ShutdownTerm(s) PROVE PowerInv'
  <2>1. CASE IsRunning
    BY <1>30, <2>1 DEF ShutdownTerm, Target, IsRunning
  <2>2. CASE ~IsRunning
    BY <1>30, <2>2, DoneCmd DEF ShutdownTerm, IsRunning
  <2> QED
    BY <2>1, <2>2
<1>31. ASSUME NEW s \in Slots, ShutdownKill(s) PROVE PowerInv'
  BY <1>31 DEF ShutdownKill, Goto, Finish, Idle, pidAlive
<1>32. ASSUME NEW s \in Slots, ShutdownStuck(s) PROVE PowerInv'
  BY <1>32 DEF ShutdownStuck, Finish, Idle
<1>33. ASSUME NEW s \in Slots, TeardownContext(s) PROVE PowerInv'
  BY <1>33 DEF TeardownContext, Goto
<1>34. ASSUME NEW s \in Slots, TeardownFiles(s) PROVE PowerInv'
  BY <1>34 DEF TeardownFiles, Goto
<1>35. ASSUME NEW s \in Slots, TeardownRecord(s) PROVE PowerInv'
  BY <1>35 DEF TeardownRecord, Goto, Finish, Idle
<1>36. ASSUME NEW s \in Slots, ReapPause(s) PROVE PowerInv'
  BY <1>36 DEF ReapPause, SigStop, IsRunning, Goto, Finish, Idle
<1>37. ASSUME NEW s \in Slots, ReapDisarm(s) PROVE PowerInv'
  BY <1>37 DEF ReapDisarm, Finish, Idle, AfterDisarm
<1>38. ASSUME NEW s \in Slots, Kill(s) PROVE PowerInv'
  BY <1>38 DEF Kill, Finish, Idle
<1>39. ASSUME NEW p \in Pids, QemuExits(p) PROVE PowerInv'
  BY <1>39 DEF QemuExits
<1>40. ASSUME NEW p \in Pids, VMCrash(p) PROVE PowerInv'
  BY <1>40 DEF VMCrash
<1>41. ASSUME NEW p \in Pids, Recycle(p) PROVE PowerInv'
  BY <1>41 DEF Recycle
<1>42. ASSUME NEW p \in Pids, ForeignExits(p) PROVE PowerInv'
  BY <1>42 DEF ForeignExits
<1>43. ASSUME Reboot PROVE PowerInv'
  BY <1>43 DEF Reboot, Idle
<1>44. ASSUME Tick PROVE PowerInv'
  BY <1>44 DEF Tick
<1>45. CASE UNCHANGED vars
  BY <1>45 DEF vars
<1> QED
  <2>1. ASSUME NEW s \in Slots, Begin(s) PROVE PowerInv'
    BY <2>1, <1>1, <1>2, <1>3, <1>4, <1>5, <1>6, <1>7, <1>8, <1>9, <1>10, <1>11
        DEF Begin
  <2>2. ASSUME NEW s \in Slots, Continue(s) PROVE PowerInv'
    BY <2>2, <1>13, <1>14, <1>15, <1>16, <1>17, <1>18, <1>19, <1>20, <1>21, <1>22,
        <1>23, <1>24, <1>25, <1>26, <1>27, <1>28, <1>29, <1>30, <1>31, <1>32, <1>33,
        <1>34, <1>35, <1>36, <1>37
       DEF Continue, Provision, Shutdown, Teardown
  <2>3. CASE Environment
    BY <2>3, <1>38, <1>39, <1>40, <1>41, <1>42, <1>43, <1>44 DEF Environment
  <2> QED
    BY <2>1, <2>2, <2>3, <1>12, <1>45 DEF Next

\* One command at a time, import apart, with a guest that honours poweroff:
\* whatever else fails, no shutdown comes to SIGTERM or SIGKILL.  A killed
\* provision, and one that could not save, are excluded since they leave a VM
\* without a sidecar.
THEOREM GuestsArePoweredOff ==
    ASSUME Sequential, NoImport, Faults \cap {"hang", "kill", "sidecar"} = {}
    PROVE  Spec => []NoHardPowerOff
<1>1. Init => VMInv /\ PowerInv
  BY DEF Init, VMInv, VMAccounted, PowerInv, NoHardPowerOff, Running, vmAlive, Idle,
      PollPcs, TeardownPcs
<1>2. TypeOK /\ VMInv /\ PowerInv /\ [Next]_vars => VMInv' /\ PowerInv'
  BY VMInvStep, PowerInvStep, Sequential, NoImport
<1>3. PowerInv => NoHardPowerOff
  BY DEF PowerInv
<1> QED
  BY <1>1, <1>2, <1>3, TypeCorrect, PTL DEF Spec

--------------------------------------------------------------------------------
\* Times are numbers.
LEMMA Numbers ==
    ASSUME TypeOK
    PROVE  {now, upSince, expiresAt, MaxRun} \subseteq Nat
  BY TimesAssumption DEF TypeOK, Deadlines

\* One command at a time, and none interrupted between a boot and the new
\* deadline: BudgetInv is preserved.
LEMMA BudgetInvStep ==
    ASSUME Sequential, NoImport,
           Faults \cap {"ssh", "kill", "vmcrash", "reboot", "sidecar"} = {},
           TypeOK, VMInv, BudgetInv, [Next]_vars
    PROVE  BudgetInv'
<1>n. {now, upSince, expiresAt, MaxRun} \subseteq Nat
  BY Numbers
<1> USE <1>n, Sequential, NoImport, TypeOK, VMInv, BudgetInv, PidsAssumption
    DEF Sequential, NoImport, TypeOK, CmdOK, Command, VMInv, VMAccounted, BudgetInv,
    SshWorks, Expired, vmAlive, Running, PollPcs, TeardownPcs, vm, files, budget,
    names, clock
<1>1. ASSUME NEW s \in Slots, ProvisionBegin(s) PROVE BudgetInv'
  BY <1>1 DEF ProvisionBegin, Enter, Idle, MayRun
<1>2. ASSUME NEW s \in Slots, StartBegin(s) PROVE BudgetInv'
  BY <1>2 DEF StartBegin, Enter, Idle, MayRun, Boot, Bootable
<1>3. ASSUME NEW s \in Slots, Pause(s) PROVE BudgetInv'
  BY <1>3 DEF Pause, SigStop, IsRunning, MayRun
<1>4. ASSUME NEW s \in Slots, ResumeBegin(s) PROVE BudgetInv'
  BY <1>4 DEF ResumeBegin, Enter, Idle, IsRunning, MayRun
<1>5. ASSUME NEW s \in Slots, StopBegin(s) PROVE BudgetInv'
  BY <1>5 DEF StopBegin, Enter, Idle, MayRun, AfterDisarm
<1>6. ASSUME NEW s \in Slots, TeardownBegin(s) PROVE BudgetInv'
  BY <1>6 DEF TeardownBegin, Enter, Idle, MayRun, AfterDisarm
<1>7. ASSUME NEW s \in Slots, Reap(s) PROVE BudgetInv'
  <2>1. \/ cmd' = cmd
        \/ /\ cmd' = [cmd EXCEPT ![s] = cmd'[s]]
           /\ cmd'[s].pc \in {"rp_pause", "sd_read"} /\ cmd'[s].pid = 0
    BY <1>7, ReapEnters DEF Reap
  <2> QED
    BY <1>7, <2>1 DEF Reap, MayRun
<1>8. ASSUME NEW s \in Slots, Extend(s) PROVE BudgetInv'
  BY <1>8 DEF Extend, MayRun
<1>9. ASSUME NEW s \in Slots, ArmAgain(s) PROVE BudgetInv'
  BY <1>9 DEF ArmAgain, MayRun
<1>10. ASSUME NEW s \in Slots, Disarm(s) PROVE BudgetInv'
  BY <1>10 DEF Disarm, MayRun
<1>11. ASSUME NEW s \in Slots, Import(s) PROVE BudgetInv'
  BY <1>11 DEF Import, MayRun
<1>12. ASSUME NEW s \in Slots, TimerFires(s) PROVE BudgetInv'
  <2>1. \/ cmd' = cmd
        \/ /\ cmd' = [cmd EXCEPT ![s] = cmd'[s]]
           /\ cmd'[s].pc \in {"rp_pause", "sd_read"} /\ cmd'[s].pid = 0
    BY <1>12, ReapEnters DEF TimerFires
  <2> QED
    BY <1>12, <2>1 DEF TimerFires, MayRun
<1>13. ASSUME NEW s \in Slots, ProvisionDisk(s) PROVE BudgetInv'
  BY <1>13 DEF ProvisionDisk
<1>14. ASSUME NEW s \in Slots, ProvisionKey(s) PROVE BudgetInv'
  BY <1>14 DEF ProvisionKey, Goto
<1>15. ASSUME NEW s \in Slots, PrepareFails(s) PROVE BudgetInv'
  BY <1>15 DEF PrepareFails, Finish, Idle
<1>16. ASSUME NEW s \in Slots, ProvisionBoot(s) PROVE BudgetInv'
  BY <1>16 DEF ProvisionBoot, Goto, Boot, Bootable
<1>17. ASSUME NEW s \in Slots, ProvisionBootFails(s) PROVE BudgetInv'
  BY <1>17 DEF ProvisionBootFails, Finish, Idle
<1>18. ASSUME NEW s \in Slots, ProvisionSave(s) PROVE BudgetInv'
  BY <1>18 DEF ProvisionSave, Goto
<1>19. ASSUME NEW s \in Slots, ProvisionSsh(s) PROVE BudgetInv'
  BY <1>19 DEF ProvisionSsh, Goto, SshWorks
<1>20. ASSUME NEW s \in Slots, ProvisionInstall(s) PROVE BudgetInv'
  BY <1>20 DEF ProvisionInstall, Goto, Holding, SshWorks
<1>21. ASSUME NEW s \in Slots, ProvisionPlatform(s) PROVE BudgetInv'
  BY <1>21 DEF ProvisionPlatform, Goto, Holding, SshWorks
<1>22. ASSUME NEW s \in Slots, ProvisionStaged(s) PROVE BudgetInv'
  BY <1>22 DEF ProvisionStaged, Goto, SshWorks
<1>23. ASSUME NEW s \in Slots, WaitFails(s) PROVE BudgetInv'
  BY <1>23 DEF WaitFails, Finish, Idle, Holding
<1>24. ASSUME NEW s \in Slots, InstallTimer(s) PROVE BudgetInv'
  BY <1>24 DEF InstallTimer, Finish, Idle
<1>25. ASSUME NEW s \in Slots, StartSsh(s) PROVE BudgetInv'
  BY <1>25 DEF StartSsh, Goto, SshWorks
<1>26. ASSUME NEW s \in Slots, StartK3s(s) PROVE BudgetInv'
  BY <1>26 DEF StartK3s, Goto, SshWorks, armLifetime
<1>27. ASSUME NEW s \in Slots, ResumeBudget(s) PROVE BudgetInv'
  BY <1>27 DEF ResumeBudget, Goto, armLifetime
<1>28. ASSUME NEW s \in Slots, ShutdownRead(s) PROVE BudgetInv'
  <2>1. CASE IsRunning
    BY <1>28, <2>1 DEF ShutdownRead, Target, IsRunning
  <2>2. CASE ~IsRunning
    BY <1>28, <2>2, DoneCmd DEF ShutdownRead, IsRunning
  <2> QED
    BY <2>1, <2>2
<1>29. ASSUME NEW s \in Slots, ShutdownGone(s) PROVE BudgetInv'
  BY <1>29, DoneCmd DEF ShutdownGone, pidAlive
<1>30. ASSUME NEW s \in Slots, ShutdownTerm(s) PROVE BudgetInv'
  <2>1. CASE IsRunning
    BY <1>30, <2>1 DEF ShutdownTerm, Target, IsRunning
  <2>2. CASE ~IsRunning
    BY <1>30, <2>2, DoneCmd DEF ShutdownTerm, IsRunning
  <2> QED
    BY <2>1, <2>2
<1>31. ASSUME NEW s \in Slots, ShutdownKill(s) PROVE BudgetInv'
  BY <1>31 DEF ShutdownKill, Goto, Finish, Idle, pidAlive
<1>32. ASSUME NEW s \in Slots, ShutdownStuck(s) PROVE BudgetInv'
  BY <1>32 DEF ShutdownStuck, Finish, Idle
<1>33. ASSUME NEW s \in Slots, TeardownContext(s) PROVE BudgetInv'
  BY <1>33 DEF TeardownContext, Goto
<1>34. ASSUME NEW s \in Slots, TeardownFiles(s) PROVE BudgetInv'
  BY <1>34 DEF TeardownFiles, Goto
<1>35. ASSUME NEW s \in Slots, TeardownRecord(s) PROVE BudgetInv'
  BY <1>35 DEF TeardownRecord, Goto, Finish, Idle
<1>36. ASSUME NEW s \in Slots, ReapPause(s) PROVE BudgetInv'
  BY <1>36 DEF ReapPause, SigStop, IsRunning, Goto, Finish, Idle
<1>37. ASSUME NEW s \in Slots, ReapDisarm(s) PROVE BudgetInv'
  BY <1>37 DEF ReapDisarm, Finish, Idle, AfterDisarm
<1>38. ASSUME NEW s \in Slots, Kill(s) PROVE BudgetInv'
  BY <1>38 DEF Kill, Finish, Idle
<1>39. ASSUME NEW p \in Pids, QemuExits(p) PROVE BudgetInv'
  BY <1>39 DEF QemuExits
<1>40. ASSUME NEW p \in Pids, VMCrash(p) PROVE BudgetInv'
  BY <1>40 DEF VMCrash
<1>41. ASSUME NEW p \in Pids, Recycle(p) PROVE BudgetInv'
  BY <1>41 DEF Recycle
<1>42. ASSUME NEW p \in Pids, ForeignExits(p) PROVE BudgetInv'
  BY <1>42 DEF ForeignExits
<1>43. ASSUME Reboot PROVE BudgetInv'
  BY <1>43 DEF Reboot, Idle
<1>44. ASSUME Tick PROVE BudgetInv'
  BY <1>44 DEF Tick
<1>45. CASE UNCHANGED vars
  BY <1>45 DEF vars
<1> QED
  <2>1. ASSUME NEW s \in Slots, Begin(s) PROVE BudgetInv'
    BY <2>1, <1>1, <1>2, <1>3, <1>4, <1>5, <1>6, <1>7, <1>8, <1>9, <1>10, <1>11
        DEF Begin
  <2>2. ASSUME NEW s \in Slots, Continue(s) PROVE BudgetInv'
    BY <2>2, <1>13, <1>14, <1>15, <1>16, <1>17, <1>18, <1>19, <1>20, <1>21, <1>22,
        <1>23, <1>24, <1>25, <1>26, <1>27, <1>28, <1>29, <1>30, <1>31, <1>32, <1>33,
        <1>34, <1>35, <1>36, <1>37
       DEF Continue, Provision, Shutdown, Teardown
  <2>3. CASE Environment
    BY <2>3, <1>38, <1>39, <1>40, <1>41, <1>42, <1>43, <1>44 DEF Environment
  <2> QED
    BY <2>1, <2>2, <2>3, <1>12, <1>45 DEF Next

\* A reap enters a verb only once the budget is over, for FullBudget.
Waits ==
    \A s \in Slots : cmd[s].verb # cmd'[s].verb /\ cmd'[s].verb \in ReapVerbs
          => now >= upSince + MaxRun

\* What BudgetInv is for: a deadline that passed is a budget used up.
LEMMA WaitsStep ==
    ASSUME Sequential, TypeOK, BudgetInv, [Next]_vars
    PROVE  Waits
<1>n. {now, upSince, expiresAt, MaxRun} \subseteq Nat
  BY Numbers
<1> USE <1>n, Sequential, TypeOK, BudgetInv
    DEF Sequential, TypeOK, CmdOK, Command, BudgetInv,
    Expired, Waits, ReapVerbs, vm, files, budget, names, clock
<1>r. ASSUME NEW s \in Slots, MayRun(s, "reap"), NEW pending, ReapDecides(s, pending),
             UNCHANGED clock
      PROVE  Waits
  <2>1. CASE cmd' = cmd
    BY <2>1
  <2>2. CASE cmd' # cmd
    <3>1. expiresAt # 0 /\ expiresAt <= now
      BY <1>r, <2>2 DEF ReapDecides
    <3>2. expiresAt >= upSince + MaxRun
      BY <1>r, <3>1 DEF MayRun
    <3> QED
      BY <3>1, <3>2
  <2> QED
    BY <2>1, <2>2
<1>d. ASSUME NEW s \in Slots, ShutdownDone(s) PROVE Waits
  <2>1. cmd'[s].verb \in {"none", cmd[s].verb} /\ \A r \in Slots \ {s} : cmd'[r] = cmd[r]
    BY <1>d DEF ShutdownDone, Idle
  <2> QED
    BY <2>1
<1>1. ASSUME NEW s \in Slots, ProvisionBegin(s) PROVE Waits
  BY <1>1 DEF ProvisionBegin, Enter, Idle, MayRun
<1>2. ASSUME NEW s \in Slots, StartBegin(s) PROVE Waits
  BY <1>2 DEF StartBegin, Enter, Idle, MayRun, Boot, Bootable
<1>3. ASSUME NEW s \in Slots, Pause(s) PROVE Waits
  BY <1>3 DEF Pause, SigStop, IsRunning, MayRun
<1>4. ASSUME NEW s \in Slots, ResumeBegin(s) PROVE Waits
  BY <1>4 DEF ResumeBegin, Enter, Idle, IsRunning, MayRun
<1>5. ASSUME NEW s \in Slots, StopBegin(s) PROVE Waits
  BY <1>5 DEF StopBegin, Enter, Idle, MayRun, AfterDisarm
<1>6. ASSUME NEW s \in Slots, TeardownBegin(s) PROVE Waits
  BY <1>6 DEF TeardownBegin, Enter, Idle, MayRun, AfterDisarm
<1>7. ASSUME NEW s \in Slots, Reap(s) PROVE Waits
  BY <1>7, <1>r DEF Reap
<1>8. ASSUME NEW s \in Slots, Extend(s) PROVE Waits
  BY <1>8 DEF Extend, MayRun
<1>9. ASSUME NEW s \in Slots, ArmAgain(s) PROVE Waits
  BY <1>9 DEF ArmAgain, MayRun
<1>10. ASSUME NEW s \in Slots, Disarm(s) PROVE Waits
  BY <1>10 DEF Disarm, MayRun
<1>11. ASSUME NEW s \in Slots, Import(s) PROVE Waits
  BY <1>11 DEF Import, MayRun
<1>12. ASSUME NEW s \in Slots, TimerFires(s) PROVE Waits
  BY <1>12, <1>r DEF TimerFires
<1>13. ASSUME NEW s \in Slots, ProvisionDisk(s) PROVE Waits
  BY <1>13 DEF ProvisionDisk
<1>14. ASSUME NEW s \in Slots, ProvisionKey(s) PROVE Waits
  BY <1>14 DEF ProvisionKey, Goto
<1>15. ASSUME NEW s \in Slots, PrepareFails(s) PROVE Waits
  BY <1>15 DEF PrepareFails, Finish, Idle
<1>16. ASSUME NEW s \in Slots, ProvisionBoot(s) PROVE Waits
  BY <1>16 DEF ProvisionBoot, Goto, Boot, Bootable
<1>17. ASSUME NEW s \in Slots, ProvisionBootFails(s) PROVE Waits
  BY <1>17 DEF ProvisionBootFails, Finish, Idle
<1>18. ASSUME NEW s \in Slots, ProvisionSave(s) PROVE Waits
  BY <1>18 DEF ProvisionSave, Goto
<1>19. ASSUME NEW s \in Slots, ProvisionSsh(s) PROVE Waits
  BY <1>19 DEF ProvisionSsh, Goto, SshWorks
<1>20. ASSUME NEW s \in Slots, ProvisionInstall(s) PROVE Waits
  BY <1>20 DEF ProvisionInstall, Goto, Holding, SshWorks
<1>21. ASSUME NEW s \in Slots, ProvisionPlatform(s) PROVE Waits
  BY <1>21 DEF ProvisionPlatform, Goto, Holding, SshWorks
<1>22. ASSUME NEW s \in Slots, ProvisionStaged(s) PROVE Waits
  BY <1>22 DEF ProvisionStaged, Goto, SshWorks
<1>23. ASSUME NEW s \in Slots, WaitFails(s) PROVE Waits
  BY <1>23 DEF WaitFails, Finish, Idle, Holding
<1>24. ASSUME NEW s \in Slots, InstallTimer(s) PROVE Waits
  BY <1>24 DEF InstallTimer, Finish, Idle
<1>25. ASSUME NEW s \in Slots, StartSsh(s) PROVE Waits
  BY <1>25 DEF StartSsh, Goto, SshWorks
<1>26. ASSUME NEW s \in Slots, StartK3s(s) PROVE Waits
  BY <1>26 DEF StartK3s, Goto, SshWorks, armLifetime
<1>27. ASSUME NEW s \in Slots, ResumeBudget(s) PROVE Waits
  BY <1>27 DEF ResumeBudget, Goto, armLifetime
<1>28. ASSUME NEW s \in Slots, ShutdownRead(s) PROVE Waits
  BY <1>28, <1>d DEF ShutdownRead, Target
<1>29. ASSUME NEW s \in Slots, ShutdownGone(s) PROVE Waits
  BY <1>29, <1>d DEF ShutdownGone
<1>30. ASSUME NEW s \in Slots, ShutdownTerm(s) PROVE Waits
  BY <1>30, <1>d DEF ShutdownTerm, Target
<1>31. ASSUME NEW s \in Slots, ShutdownKill(s) PROVE Waits
  BY <1>31 DEF ShutdownKill, Goto, Finish, Idle, pidAlive
<1>32. ASSUME NEW s \in Slots, ShutdownStuck(s) PROVE Waits
  BY <1>32 DEF ShutdownStuck, Finish, Idle
<1>33. ASSUME NEW s \in Slots, TeardownContext(s) PROVE Waits
  BY <1>33 DEF TeardownContext, Goto
<1>34. ASSUME NEW s \in Slots, TeardownFiles(s) PROVE Waits
  BY <1>34 DEF TeardownFiles, Goto
<1>35. ASSUME NEW s \in Slots, TeardownRecord(s) PROVE Waits
  BY <1>35 DEF TeardownRecord, Goto, Finish, Idle
<1>36. ASSUME NEW s \in Slots, ReapPause(s) PROVE Waits
  BY <1>36 DEF ReapPause, SigStop, IsRunning, Goto, Finish, Idle
<1>37. ASSUME NEW s \in Slots, ReapDisarm(s) PROVE Waits
  BY <1>37 DEF ReapDisarm, Finish, Idle, AfterDisarm
<1>38. ASSUME NEW s \in Slots, Kill(s) PROVE Waits
  BY <1>38 DEF Kill, Finish, Idle
<1>39. ASSUME NEW p \in Pids, QemuExits(p) PROVE Waits
  BY <1>39 DEF QemuExits
<1>40. ASSUME NEW p \in Pids, VMCrash(p) PROVE Waits
  BY <1>40 DEF VMCrash
<1>41. ASSUME NEW p \in Pids, Recycle(p) PROVE Waits
  BY <1>41 DEF Recycle
<1>42. ASSUME NEW p \in Pids, ForeignExits(p) PROVE Waits
  BY <1>42 DEF ForeignExits
<1>43. ASSUME Reboot PROVE Waits
  BY <1>43 DEF Reboot, Idle
<1>44. ASSUME Tick PROVE Waits
  BY <1>44 DEF Tick
<1>45. CASE UNCHANGED vars
  BY <1>45 DEF vars
<1> QED
  <2>1. ASSUME NEW s \in Slots, Begin(s) PROVE Waits
    BY <2>1, <1>1, <1>2, <1>3, <1>4, <1>5, <1>6, <1>7, <1>8, <1>9, <1>10, <1>11
        DEF Begin
  <2>2. ASSUME NEW s \in Slots, Continue(s) PROVE Waits
    BY <2>2, <1>13, <1>14, <1>15, <1>16, <1>17, <1>18, <1>19, <1>20, <1>21, <1>22,
        <1>23, <1>24, <1>25, <1>26, <1>27, <1>28, <1>29, <1>30, <1>31, <1>32, <1>33,
        <1>34, <1>35, <1>36, <1>37
       DEF Continue, Provision, Shutdown, Teardown
  <2>3. CASE Environment
    BY <2>3, <1>38, <1>39, <1>40, <1>41, <1>42, <1>43, <1>44 DEF Environment
  <2> QED
    BY <2>1, <2>2, <2>3, <1>12, <1>45 DEF Next

\* One command at a time, import apart, every start and resume coming to its
\* new deadline: no reap acts before the budget of the VM's last boot is over.
\* Outside these hypotheses one may, see QemuLifecycle's start (StartK3s).
THEOREM BudgetsAreFull ==
    ASSUME Sequential, NoImport,
           Faults \cap {"ssh", "kill", "vmcrash", "reboot", "sidecar"} = {}
    PROVE  Spec => FullBudget
<1>1. Init => VMInv /\ BudgetInv
  BY TimesAssumption DEF Init, VMInv, VMAccounted, BudgetInv, vmAlive, Idle, PollPcs,
      TeardownPcs
<1>2. TypeOK /\ VMInv /\ BudgetInv /\ [Next]_vars => VMInv' /\ BudgetInv'
  BY VMInvStep, BudgetInvStep, Sequential, NoImport
<1>3. TypeOK /\ BudgetInv /\ [Next]_vars => [Waits]_vars
  BY WaitsStep, Sequential
<1> QED
  BY <1>1, <1>2, <1>3, TypeCorrect, PTL DEF Spec, FullBudget, Waits

--------------------------------------------------------------------------------
\* No verb takes the timer off on purpose.
NoDisarm == \A s \in Slots : "disarm" \notin Verbs[s]

\* Arming, where the scheduler takes the timer, leaves one that fires at the
\* deadline, or at once.
LEMMA Armed ==
    ASSUME NEW pending, NEW d, "arm" \notin Faults, Arm(pending, d)
    PROVE  LaterOf(d, now) \in timers'
  BY DEF Arm

\* An invocation that was entered is at the point it was entered at.
LEMMA EnterAt ==
    ASSUME CmdOK, NEW s \in Slots, NEW v, NEW l, Enter(s, v, l)
    PROVE  cmd'[s].pc = l
  BY DEF CmdOK, Enter, Idle

\* One command at a time, where no step of one fails: ArmedInv is preserved.
LEMMA ArmedInvStep ==
    ASSUME Sequential, NoImport, NoDisarm, MaxRun > 0,
           Faults \subseteq {"hang", "recycle", "disarm"},
           TypeOK, VMInv, ArmedInv, [Next]_vars
    PROVE  ArmedInv'
<1>n. {now, upSince, expiresAt, MaxRun} \subseteq Nat
  BY Numbers
<1>t. timers \subseteq Nat
  BY TimesAssumption DEF TypeOK, Deadlines
<1>w. ASSUME NEW pending, Arm(pending, expiresAt'), now' = now, expiresAt' # 0,
             expiresAt' \in Nat
      PROVE  ArmedWhileUp'
  <2>1. LaterOf(expiresAt', now) \in timers'
    BY <1>w, Armed
  <2>2. LaterOf(expiresAt', now) <= LaterOf(expiresAt', now')
    BY <1>w, <1>n DEF LaterOf
  <2> QED
    BY <1>w, <2>1, <2>2 DEF ArmedWhileUp
<1>u. ASSUME ~VMUp' \/ \E s \in Slots : cmd'[s].pc # "idle" PROVE ArmedWhileUp'
  BY <1>u DEF ArmedWhileUp, AllIdle
<1> USE <1>n, <1>t, Sequential, NoImport, NoDisarm, TypeOK, VMInv, ArmedInv,
        PidsAssumption, SlotsAssumption
    DEF Sequential, NoImport, NoDisarm, TypeOK, CmdOK, Command, VMInv, VMAccounted,
    ArmedInv, ArmedWhileUp, LaterOf, AllIdle, VMUp, UpPcs, SshWorks, Expired, vmAlive,
    Running, PollPcs, TeardownPcs, vm, files, budget, names, clock
<1>r. ASSUME NEW s \in Slots, MayRun(s, "reap"), NEW pending, ReapDecides(s, pending),
             UNCHANGED <<vm, files, budget, names, clock>>
      PROVE  ArmedWhileUp'
  <2>1. CASE ~VMUp
    <3>1. ~VMUp'
      BY <1>r, <2>1
    <3> QED
      BY <3>1, <1>u
  <2>2. CASE VMUp
    <3>1. context /\ sidecar /\ expiresAt # 0
      BY <1>r, <2>2 DEF MayRun
    <3>2. CASE Expired
      <4>1. \/ Enter(s, "reap_pause", "rp_pause")
            \/ Enter(s, "reap_teardown", "sd_read")
            \/ Enter(s, "reap_stop", "sd_read")
        BY <1>r, <3>1, <3>2 DEF ReapDecides
      <4>2. cmd'[s].pc # "idle"
        BY <4>1, EnterAt
      <4> QED
        BY <4>2, <1>u
    <3>3. CASE ~Expired
      <4>1. Arm(pending, expiresAt)
        BY <1>r, <3>1, <3>3 DEF ReapDecides
      <4> QED
        BY <1>r, <3>1, <4>1, <1>w
    <3> QED
      BY <3>2, <3>3
  <2> QED
    BY <2>1, <2>2
<1>1. ASSUME NEW s \in Slots, ProvisionBegin(s) PROVE ArmedInv'
  BY <1>1 DEF ProvisionBegin, Enter, Idle, MayRun
<1>2. ASSUME NEW s \in Slots, StartBegin(s) PROVE ArmedInv'
  BY <1>2 DEF StartBegin, Enter, Idle, MayRun, Boot, Bootable
<1>3. ASSUME NEW s \in Slots, Pause(s) PROVE ArmedInv'
  BY <1>3 DEF Pause, SigStop, IsRunning, MayRun
<1>4. ASSUME NEW s \in Slots, ResumeBegin(s) PROVE ArmedInv'
  BY <1>4 DEF ResumeBegin, Enter, Idle, IsRunning, MayRun
<1>5. ASSUME NEW s \in Slots, StopBegin(s) PROVE ArmedInv'
  BY <1>5 DEF StopBegin, Enter, Idle, MayRun, AfterDisarm
<1>6. ASSUME NEW s \in Slots, TeardownBegin(s) PROVE ArmedInv'
  BY <1>6 DEF TeardownBegin, Enter, Idle, MayRun, AfterDisarm
<1>7. ASSUME NEW s \in Slots, Reap(s) PROVE ArmedInv'
  <2>1. ArmedWhileUp'
    BY <1>7, <1>r DEF Reap
  <2>2. \/ cmd' = cmd
        \/ /\ cmd' = [cmd EXCEPT ![s] = cmd'[s]]
           /\ cmd'[s].pc \in {"rp_pause", "sd_read"} /\ cmd'[s].pid = 0
    BY <1>7, ReapEnters DEF Reap
  <2> QED
    BY <1>7, <2>1, <2>2 DEF Reap, MayRun
<1>8. ASSUME NEW s \in Slots, Extend(s) PROVE ArmedInv'
  <2>1. ArmedWhileUp'
    BY <1>8, <1>w DEF Extend
  <2> QED
    BY <1>8, <2>1 DEF Extend, MayRun
<1>9. ASSUME NEW s \in Slots, ArmAgain(s) PROVE ArmedInv'
  <2>1. ArmedWhileUp'
    BY <1>9, <1>w DEF ArmAgain
  <2> QED
    BY <1>9, <2>1 DEF ArmAgain, MayRun
<1>10. ASSUME NEW s \in Slots, Disarm(s) PROVE ArmedInv'
  BY <1>10 DEF Disarm, MayRun
<1>11. ASSUME NEW s \in Slots, Import(s) PROVE ArmedInv'
  BY <1>11 DEF Import, MayRun
<1>12. ASSUME NEW s \in Slots, TimerFires(s) PROVE ArmedInv'
  <2>1. ArmedWhileUp'
    BY <1>12, <1>r DEF TimerFires
  <2>2. \/ cmd' = cmd
        \/ /\ cmd' = [cmd EXCEPT ![s] = cmd'[s]]
           /\ cmd'[s].pc \in {"rp_pause", "sd_read"} /\ cmd'[s].pid = 0
    BY <1>12, ReapEnters DEF TimerFires
  <2> QED
    BY <1>12, <2>1, <2>2 DEF TimerFires, MayRun
<1>13. ASSUME NEW s \in Slots, ProvisionDisk(s) PROVE ArmedInv'
  BY <1>13 DEF ProvisionDisk
<1>14. ASSUME NEW s \in Slots, ProvisionKey(s) PROVE ArmedInv'
  BY <1>14 DEF ProvisionKey, Goto
<1>15. ASSUME NEW s \in Slots, PrepareFails(s) PROVE ArmedInv'
  BY <1>15 DEF PrepareFails, Finish, Idle
<1>16. ASSUME NEW s \in Slots, ProvisionBoot(s) PROVE ArmedInv'
  BY <1>16 DEF ProvisionBoot, Goto, Boot, Bootable
<1>17. ASSUME NEW s \in Slots, ProvisionBootFails(s) PROVE ArmedInv'
  <2>1. ~Bootable
    BY <1>17 DEF ProvisionBootFails
  <2> QED
    BY <1>17, <2>1 DEF ProvisionBootFails, Bootable
<1>18. ASSUME NEW s \in Slots, ProvisionSave(s) PROVE ArmedInv'
  BY <1>18 DEF ProvisionSave, Goto
<1>19. ASSUME NEW s \in Slots, ProvisionSsh(s) PROVE ArmedInv'
  BY <1>19 DEF ProvisionSsh, Goto, SshWorks
<1>20. ASSUME NEW s \in Slots, ProvisionInstall(s) PROVE ArmedInv'
  BY <1>20 DEF ProvisionInstall, Goto, Holding, SshWorks
<1>21. ASSUME NEW s \in Slots, ProvisionPlatform(s) PROVE ArmedInv'
  BY <1>21 DEF ProvisionPlatform, Goto, Holding, SshWorks
<1>22. ASSUME NEW s \in Slots, ProvisionStaged(s) PROVE ArmedInv'
  BY <1>22 DEF ProvisionStaged, Goto, SshWorks
<1>23. ASSUME NEW s \in Slots, WaitFails(s) PROVE ArmedInv'
  BY <1>23 DEF WaitFails, Finish, Idle, Holding
<1>24. ASSUME NEW s \in Slots, InstallTimer(s) PROVE ArmedInv'
  <2>1. expiresAt # 0 /\ expiresAt' = expiresAt
    BY <1>24 DEF InstallTimer
  <2>2. ArmedWhileUp'
    BY <1>24, <1>w, <2>1 DEF InstallTimer
  <2> QED
    BY <1>24, <2>2 DEF InstallTimer, Finish, Idle
<1>25. ASSUME NEW s \in Slots, StartSsh(s) PROVE ArmedInv'
  BY <1>25 DEF StartSsh, Goto, SshWorks
<1>26. ASSUME NEW s \in Slots, StartK3s(s) PROVE ArmedInv'
  BY <1>26 DEF StartK3s, Goto, SshWorks, armLifetime
<1>27. ASSUME NEW s \in Slots, ResumeBudget(s) PROVE ArmedInv'
  BY <1>27 DEF ResumeBudget, Goto, armLifetime
<1>28. ASSUME NEW s \in Slots, ShutdownRead(s) PROVE ArmedInv'
  <2>1. CASE IsRunning
    BY <1>28, <2>1 DEF ShutdownRead, Target, IsRunning
  <2>2. CASE ~IsRunning
    BY <1>28, <2>2, DoneCmd DEF ShutdownRead, IsRunning
  <2> QED
    BY <2>1, <2>2
<1>29. ASSUME NEW s \in Slots, ShutdownGone(s) PROVE ArmedInv'
  BY <1>29, DoneCmd DEF ShutdownGone, pidAlive
<1>30. ASSUME NEW s \in Slots, ShutdownTerm(s) PROVE ArmedInv'
  <2>1. CASE IsRunning
    BY <1>30, <2>1 DEF ShutdownTerm, Target, IsRunning
  <2>2. CASE ~IsRunning
    BY <1>30, <2>2, DoneCmd DEF ShutdownTerm, IsRunning
  <2> QED
    BY <2>1, <2>2
<1>31. ASSUME NEW s \in Slots, ShutdownKill(s) PROVE ArmedInv'
  BY <1>31 DEF ShutdownKill, Goto, Finish, Idle, pidAlive
<1>32. ASSUME NEW s \in Slots, ShutdownStuck(s) PROVE ArmedInv'
  BY <1>32 DEF ShutdownStuck, Finish, Idle
<1>33. ASSUME NEW s \in Slots, TeardownContext(s) PROVE ArmedInv'
  BY <1>33 DEF TeardownContext, Goto
<1>34. ASSUME NEW s \in Slots, TeardownFiles(s) PROVE ArmedInv'
  BY <1>34 DEF TeardownFiles, Goto
<1>35. ASSUME NEW s \in Slots, TeardownRecord(s) PROVE ArmedInv'
  BY <1>35 DEF TeardownRecord, Goto, Finish, Idle
<1>36. ASSUME NEW s \in Slots, ReapPause(s) PROVE ArmedInv'
  BY <1>36 DEF ReapPause, SigStop, IsRunning, Goto, Finish, Idle
<1>37. ASSUME NEW s \in Slots, ReapDisarm(s) PROVE ArmedInv'
  BY <1>37 DEF ReapDisarm, Finish, Idle, AfterDisarm
<1>38. ASSUME NEW s \in Slots, Kill(s) PROVE ArmedInv'
  BY <1>38 DEF Kill, Finish, Idle
<1>39. ASSUME NEW p \in Pids, QemuExits(p) PROVE ArmedInv'
  BY <1>39 DEF QemuExits
<1>40. ASSUME NEW p \in Pids, VMCrash(p) PROVE ArmedInv'
  BY <1>40 DEF VMCrash
<1>41. ASSUME NEW p \in Pids, Recycle(p) PROVE ArmedInv'
  BY <1>41 DEF Recycle
<1>42. ASSUME NEW p \in Pids, ForeignExits(p) PROVE ArmedInv'
  BY <1>42 DEF ForeignExits
<1>43. ASSUME Reboot PROVE ArmedInv'
  BY <1>43 DEF Reboot, Idle
<1>44. ASSUME Tick PROVE ArmedInv'
  <2>1. \A k \in Nat : k <= LaterOf(expiresAt, now) => k <= LaterOf(expiresAt, now')
    BY <1>44 DEF Tick
  <2>2. ArmedWhileUp'
    BY <1>44, <2>1 DEF Tick
  <2> QED
    BY <1>44, <2>2 DEF Tick
<1>45. CASE UNCHANGED vars
  BY <1>45 DEF vars
<1> QED
  <2>1. ASSUME NEW s \in Slots, Begin(s) PROVE ArmedInv'
    BY <2>1, <1>1, <1>2, <1>3, <1>4, <1>5, <1>6, <1>7, <1>8, <1>9, <1>10, <1>11
        DEF Begin
  <2>2. ASSUME NEW s \in Slots, Continue(s) PROVE ArmedInv'
    BY <2>2, <1>13, <1>14, <1>15, <1>16, <1>17, <1>18, <1>19, <1>20, <1>21, <1>22,
        <1>23, <1>24, <1>25, <1>26, <1>27, <1>28, <1>29, <1>30, <1>31, <1>32, <1>33,
        <1>34, <1>35, <1>36, <1>37
       DEF Continue, Provision, Shutdown, Teardown
  <2>3. CASE Environment
    BY <2>3, <1>38, <1>39, <1>40, <1>41, <1>42, <1>43, <1>44 DEF Environment
  <2> QED
    BY <2>1, <2>2, <2>3, <1>12, <1>45 DEF Next

\* One command at a time, none of whose waits fails, and no disarm or import:
\* whenever a VM runs on a budget between two commands it has a deadline and a
\* timer for it, also when timers are left behind or fire early.
THEOREM TimersAreArmed ==
    ASSUME Sequential, NoImport, NoDisarm, Faults \subseteq {"hang", "recycle", "disarm"}
    PROVE  Spec => []ArmedWhileUp
<1>1. CASE MaxRun > 0
  <2>1. Init => VMInv /\ ArmedInv
    BY DEF Init, VMInv, VMAccounted, ArmedInv, ArmedWhileUp, VMUp, Running, vmAlive,
        Idle, UpPcs, PollPcs, TeardownPcs
  <2>2. TypeOK /\ VMInv /\ ArmedInv /\ [Next]_vars => VMInv' /\ ArmedInv'
    BY <1>1, VMInvStep, ArmedInvStep, Sequential, NoImport, NoDisarm
  <2>3. ArmedInv => ArmedWhileUp
    BY DEF ArmedInv
  <2> QED
    BY <2>1, <2>2, <2>3, TypeCorrect, PTL DEF Spec
<1>2. CASE ~(MaxRun > 0)
  <2>1. ArmedWhileUp
    BY <1>2 DEF ArmedWhileUp
  <2> QED
    BY <2>1, PTL
<1> QED
  BY <1>1, <1>2

================================================================================
