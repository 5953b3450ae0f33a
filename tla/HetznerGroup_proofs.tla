--------------------------- MODULE HetznerGroup_proofs ---------------------------
(****************************************************************************)
(* Proofs about HetznerGroup, for any number of contexts:                   *)
(*                                                                          *)
(*   GroupTypeCorrect           TypeOK, whatever fails                      *)
(*   CertificatesAreOwned       LBOwned, for any number of commands at      *)
(*                              once, none of them cut short between the    *)
(*                              load balancer's creation and its save       *)
(*   SequentialKeepsCertificates  CertOnLB, one command at a time           *)
(*                                                                          *)
(* Each rests on an inductive invariant of HetznerGroup (CloudInv, GroupInv,*)
(* SequentialInv).  One lemma per part, one step per action; an action that *)
(* leaves a part's variables alone is in the part's first leaf.             *)
(****************************************************************************)
EXTENDS HetznerGroup, FiniteSetTheorems, TLAPS

CmdOK == cmd \in [Contexts -> Command]

\* Every assignment the steps make to cmd keeps its type.
LEMMA CmdGoto ==
    ASSUME CmdOK, NEW c \in Contexts, NEW l \in Pcs, Goto(c, l)
    PROVE  CmdOK'
  BY DEF CmdOK, Command, Goto

LEMMA CmdFinish ==
    ASSUME CmdOK, NEW c \in Contexts, Finish(c)
    PROVE  CmdOK'
  BY DEF CmdOK, Command, Finish, Idle, NoState, State, Pcs

LEMMA CmdViews ==
    ASSUME CmdOK, NEW c \in Contexts
    PROVE  cmd[c].view \in SUBSET Ids /\ cmd[c].at \in Ids \cup {0} /\ cmd[c].st \in State
  BY DEF CmdOK, Command

LEMMA CmdAt ==
    ASSUME CmdOK, NEW c \in Contexts, NEW l \in Pcs, NEW a \in Ids \cup {0},
           cmd' = [cmd EXCEPT ![c].pc = l, ![c].at = a]
    PROVE  CmdOK'
  BY DEF CmdOK, Command

LEMMA CmdRead ==
    ASSUME CmdOK, NEW c \in Contexts, NEW l \in Pcs, NEW a \in SUBSET Ids,
           cmd' = [cmd EXCEPT ![c].pc = l, ![c].view = a]
    PROVE  CmdOK'
  BY DEF CmdOK, Command

LEMMA CmdReadAt ==
    ASSUME CmdOK, NEW c \in Contexts, NEW l \in Pcs, NEW a \in Ids \cup {0},
           NEW v \in SUBSET Ids,
           cmd' = [cmd EXCEPT ![c].pc = l, ![c].at = a, ![c].view = v]
    PROVE  CmdOK'
<1>1. cmd[c] \in Command
  BY DEF CmdOK
<1>2. cmd' = [cmd EXCEPT ![c] = [@ EXCEPT !.pc = l, !.at = a, !.view = v]]
  BY DEF CmdOK
<1>3. [cmd[c] EXCEPT !.pc = l, !.at = a, !.view = v] \in Command
  BY <1>1 DEF Command
<1> QED
  BY <1>2, <1>3 DEF CmdOK

LEMMA CmdLoad ==
    ASSUME CmdOK, NEW c \in Contexts, NEW l \in Pcs, NEW a \in State,
           cmd' = [cmd EXCEPT ![c].pc = l, ![c].st = a]
    PROVE  CmdOK'
  BY DEF CmdOK, Command

\* The types.  A provision about to attach has a certificate and a load balancer,
\* which is what keeps lbCerts empty exactly when there is none.
LEMMA TypeStep == TypeOK /\ KeyHeld /\ LBHeld /\ [Next]_vars => TypeOK'
<1> SUFFICES ASSUME TypeOK, KeyHeld, LBHeld, [Next]_vars PROVE TypeOK'
  OBVIOUS
<1>c. CmdOK
  BY DEF TypeOK, CmdOK
<1>b. busy' \in 1 .. Busy
  BY DEF TypeOK, Next, vars
<1> USE <1>b, GroupBounds DEF CmdOK, TypeOK
<1>1. ASSUME NEW c \in Contexts, ProvisionBegin(c) PROVE TypeOK'
  <2>1. CmdOK'
    BY <1>1, <1>c, CmdGoto, CmdFinish DEF ProvisionBegin, Pcs, ProvisionPcs, TeardownPcs
  <2> QED
    BY <1>1, <2>1 DEF ProvisionBegin, cloud, Ids
<1>2. ASSUME NEW c \in Contexts, ProvisionKey(c) PROVE TypeOK'
  <2>1. CmdOK'
    BY <1>2, <1>c, CmdGoto, CmdFinish DEF ProvisionKey, At, Pcs, ProvisionPcs,
        TeardownPcs
  <2> QED
    BY <1>2, <2>1 DEF ProvisionKey, counters, NoState, Ids
<1>3. ASSUME NEW c \in Contexts, ProvisionServer(c) PROVE TypeOK'
  <2>1. CmdOK'
    BY <1>3, <1>c, CmdGoto, CmdFinish DEF ProvisionServer, At, Pcs, ProvisionPcs,
        TeardownPcs
  <2> QED
    BY <1>3, <2>1 DEF ProvisionServer, counters, Ids
<1>4. ASSUME NEW c \in Contexts, ProvisionServerFails(c) PROVE TypeOK'
  <2>1. CmdOK'
    BY <1>4, <1>c, CmdGoto, CmdFinish DEF ProvisionServerFails, At, Pcs, ProvisionPcs,
        TeardownPcs
  <2> QED
    BY <1>4, <2>1 DEF MayFail, ProvisionServerFails, cloud, counters, ServerGoes, State,
        NoState, Job, NoJob, Ids
<1>5. ASSUME NEW c \in Contexts, ProvisionSave(c) PROVE TypeOK'
  <2>1. CmdOK'
    BY <1>5, <1>c, CmdGoto, CmdFinish DEF ProvisionSave, At, Pcs, ProvisionPcs,
        TeardownPcs
  <2> QED
    BY <1>5, <2>1 DEF ProvisionSave, cloud, counters, NoState, Ids, State, Job
<1>6. ASSUME NEW c \in Contexts, ProvisionInstall(c) PROVE TypeOK'
  <2>1. CmdOK'
    BY <1>6, <1>c, CmdGoto, CmdFinish DEF ProvisionInstall, At, Pcs, ProvisionPcs,
        TeardownPcs
  <2> QED
    BY <1>6, <2>1 DEF ProvisionInstall, cloud, counters, Ids
<1>7. ASSUME NEW c \in Contexts, ProvisionCert(c) PROVE TypeOK'
  <2>1. CmdOK'
    BY <1>7, <1>c, CmdGoto, CmdFinish DEF ProvisionCert, At, Pcs, ProvisionPcs,
        TeardownPcs
  <2>2. nextId \in Ids
    BY <1>7 DEF ProvisionCert
  <2>3. cert' \in [Contexts -> Ids \cup {0}]
    BY <1>7, <2>2 DEF ProvisionCert
  <2>4. nextId' \in 1 .. MaxId + 1
    BY <1>7, <2>2 DEF ProvisionCert, Ids
  <2> QED
    BY <1>7, <2>1, <2>3, <2>4 DEF ProvisionCert, counters
<1>8. ASSUME NEW c \in Contexts, ProvisionCertSave(c) PROVE TypeOK'
  <2>1. CmdOK'
    BY <1>8, <1>c, CmdGoto, CmdFinish DEF ProvisionCertSave, At, Pcs, ProvisionPcs,
        TeardownPcs
  <2>2. sidecar' \in [Contexts -> State]
    <3>1. sidecar[c] \in State /\ cert[c] \in Ids \cup {0}
      OBVIOUS
    <3>2. [sidecar[c] EXCEPT !.cert = cert[c]] \in State
      BY <3>1 DEF State
    <3> QED
      BY <1>8, <3>2 DEF ProvisionCertSave
  <2> QED
    BY <1>8, <2>1, <2>2 DEF ProvisionCertSave, cloud, counters
<1>9. ASSUME NEW c \in Contexts, ProvisionLB(c) PROVE TypeOK'
  <2>1. CASE lb # 0
    <3>1. CmdOK'
      BY <1>9, <1>c, <2>1, CmdReadAt DEF ProvisionLB, Pcs, ProvisionPcs
    <3> QED
      BY <1>9, <2>1, <3>1 DEF ProvisionLB, counters
  <2>2. CASE lb = 0
    <3>1. nextId \in Ids /\ nextId \in Nat \ {0} /\ nextId' \in 1 .. MaxId + 1
      BY <1>9, <2>2 DEF ProvisionLB, Ids
    <3>2. CmdOK'
      BY <1>9, <1>c, <2>2, <3>1, CmdAt DEF ProvisionLB, Pcs, ProvisionPcs
    <3>3. cert[c] \in Ids
      BY <1>9 DEF ProvisionLB, At, KeyHeld
    <3> QED
      BY <1>9, <2>2, <3>1, <3>2, <3>3 DEF ProvisionLB, counters
  <2> QED
    BY <2>1, <2>2
<1>10. ASSUME NEW c \in Contexts, ProvisionLBWait(c) PROVE TypeOK'
  <2>1. CmdOK'
    BY <1>10, <1>c, CmdFinish, CmdRead DEF
        ProvisionLBWait, At, Pcs, ProvisionPcs, TeardownPcs
  <2> QED
    BY <1>10, <2>1 DEF ProvisionLBWait, cloud, counters, NoState, Ids
<1>11. ASSUME NEW c \in Contexts, ProvisionLBSave(c) PROVE TypeOK'
  <2>1. CmdOK'
    BY <1>11, <1>c, CmdGoto DEF ProvisionLBSave, Pcs, ProvisionPcs
  <2>2. cmd[c].at \in Ids \cup {0}
    BY <1>c, CmdViews
  <2>3. sidecar' \in [Contexts -> State]
    <3>1. sidecar[c] \in State
      OBVIOUS
    <3>2. [sidecar[c] EXCEPT !.group = TRUE, !.lb = cmd[c].at] \in State
      BY <2>2, <3>1 DEF State
    <3> QED
      BY <1>11, <3>2 DEF ProvisionLBSave
  <2> QED
    BY <1>11, <2>1, <2>3 DEF ProvisionLBSave, cloud, counters
<1>12. ASSUME NEW c \in Contexts, ProvisionAttach(c) PROVE TypeOK'
  <2>1. CmdOK'
    BY <1>12, <1>c, CmdGoto, CmdFinish DEF ProvisionAttach, Pcs, ProvisionPcs
  <2>2. cert[c] \in Ids /\ cmd[c].view \in SUBSET Ids
    BY <1>12, <1>c, CmdViews DEF ProvisionAttach, At, KeyHeld
  <2>3. lb # 0
    BY <1>12 DEF ProvisionAttach, At, LBHeld
  <2>4. lbCerts' = lbCerts \/ lbCerts' = cmd[c].view \cup {cert[c]}
    BY <1>12 DEF ProvisionAttach
  <2> QED
    BY <1>12, <2>1, <2>2, <2>3, <2>4 DEF ProvisionAttach, counters
<1>13. ASSUME NEW c \in Contexts, ProvisionReaper(c) PROVE TypeOK'
  <2>1. CmdOK'
    BY <1>13, <1>c, CmdGoto, CmdFinish DEF ProvisionReaper, At, Pcs, ProvisionPcs,
        TeardownPcs
  <2> QED
    BY <1>13, <1>c, <2>1, CmdViews DEF UpdateServiceWorks, Uploaded, LBHeld, At,
        ProvisionReaper, cloud, counters, ServerGoes, State, NoState, Job, NoJob, Ids
<1>14. ASSUME NEW c \in Contexts, TeardownBegin(c) PROVE TypeOK'
  <2>1. CmdOK'
    BY <1>14, <1>c, CmdLoad DEF
        TeardownBegin, Pcs, ProvisionPcs, TeardownPcs
  <2> QED
    BY <1>14, <2>1 DEF TeardownBegin, cloud, counters, Ids
<1>15. ASSUME NEW c \in Contexts, TeardownServer(c) PROVE TypeOK'
  <2>1. CmdOK'
    BY <1>15, <1>c, CmdGoto, CmdFinish DEF TeardownServer, At, Pcs, ProvisionPcs,
        TeardownPcs
  <2> QED
    BY <1>15, <2>1 DEF TeardownServer, counters, ServerGoes, NoJob, Ids, State, Job
<1>16. ASSUME NEW c \in Contexts, TeardownRead(c) PROVE TypeOK'
  <2>1. \/ Goto(c, "td_lb")
        \/ cmd' = [cmd EXCEPT ![c].pc = "td_detach", ![c].at = lb, ![c].view = lbCerts]
    BY <1>16 DEF TeardownRead
  <2>2. CmdOK'
    BY <1>c, <2>1, CmdGoto, CmdReadAt DEF Pcs, TeardownPcs
  <2> QED
    BY <1>16, <2>2 DEF TeardownRead, cloud, counters, Ids
<1>17. ASSUME NEW c \in Contexts, TeardownDetach(c) PROVE TypeOK'
  <2>1. CmdOK'
    BY <1>17, <1>c, CmdGoto, CmdFinish DEF TeardownDetach, Pcs, TeardownPcs
  <2>2. cmd[c].view \in SUBSET Ids
    BY <1>c, CmdViews
  <2>3. \/ lbCerts' = lbCerts
        \/ /\ lbCerts' = cmd[c].view \ {cmd[c].st.cert} /\ lbCerts' # {}
           /\ lb = cmd[c].at /\ cmd[c].at # 0
    BY <1>17 DEF TeardownDetach, UpdateServiceWorks, At, LBHeld
  <2> QED
    BY <1>17, <2>1, <2>2, <2>3 DEF TeardownDetach, counters
<1>18. ASSUME NEW c \in Contexts, TeardownLB(c) PROVE TypeOK'
  <2>1. CmdOK'
    BY <1>18, <1>c, CmdGoto, CmdFinish DEF TeardownLB, At, Pcs, ProvisionPcs,
        TeardownPcs
  <2> QED
    BY <1>18, <2>1 DEF TeardownLB, counters, Ids
<1>19. ASSUME NEW c \in Contexts, TeardownCert(c) PROVE TypeOK'
  <2>1. CmdOK'
    BY <1>19, <1>c, CmdGoto, CmdFinish DEF TeardownCert, At, Pcs, ProvisionPcs,
        TeardownPcs
  <2> QED
    BY <1>19, <2>1 DEF TeardownCert, counters, NoState, Ids
<1>20. ASSUME NEW c \in Contexts, TeardownKey(c) PROVE TypeOK'
  <2>1. CmdOK'
    BY <1>20, <1>c, CmdGoto, CmdFinish DEF TeardownKey, At, Pcs, ProvisionPcs,
        TeardownPcs
  <2> QED
    BY <1>20, <2>1 DEF TeardownKey, counters, Ids
<1>21. ASSUME NEW c \in Contexts, TeardownState(c) PROVE TypeOK'
  <2>1. CmdOK'
    BY <1>21, <1>c, CmdGoto, CmdFinish DEF TeardownState, At, Pcs, ProvisionPcs,
        TeardownPcs
  <2> QED
    BY <1>21, <2>1 DEF TeardownState, cloud, counters, NoState, Ids, State, Job
<1>22. ASSUME NEW c \in Contexts, Fail(c) PROVE TypeOK'
  <2>1. CmdOK'
    BY <1>22, <1>c, CmdGoto, CmdFinish DEF Fail, At, Pcs, ProvisionPcs, TeardownPcs
  <2> QED
    BY <1>22, <2>1 DEF MayFail, Fail, cloud, counters, ServerGoes, State, NoState, Job,
        NoJob, Ids
<1>23. ASSUME NEW c \in Contexts, ReaperCounts(c) PROVE TypeOK'
  <2>1. CmdOK'
    BY <1>23, <1>c, CmdGoto, CmdFinish DEF ReaperCounts, Pcs, ProvisionPcs, TeardownPcs
  <2> QED
    BY <1>23, <2>1 DEF ReaperCounts, counters, Ids, State, Job
<1>24. ASSUME NEW c \in Contexts, ReaperDeletesServer(c) PROVE TypeOK'
  <2>1. CmdOK'
    BY <1>24, <1>c, CmdGoto, CmdFinish DEF ReaperDeletesServer, Pcs, ProvisionPcs,
        TeardownPcs
  <2> QED
    BY <1>24, <2>1 DEF ReaperDeletesServer, counters, ServerGoes, NoJob, Ids, State, Job
<1>25. ASSUME NEW c \in Contexts, PodFails(c) PROVE TypeOK'
  <2>1. CmdOK'
    BY <1>25, <1>c, CmdGoto, CmdFinish DEF PodFails, Pcs, ProvisionPcs, TeardownPcs
  <2> QED
    BY <1>25, <2>1 DEF PodFails, cloud, counters, Ids, State, Job
<1> QED
  BY <1>1, <1>2, <1>3, <1>4, <1>5, <1>6, <1>7, <1>8, <1>9, <1>10, <1>11, <1>12, <1>13,
      <1>14, <1>15, <1>16, <1>17, <1>18, <1>19, <1>20, <1>21, <1>22, <1>23, <1>24, <1>25
      DEF Next, ProvisionStep, TeardownStep, ReaperStep, vars

\* The ssh key covers the certificate's whole life (hetzner.go:121-131, 463-507).
LEMMA KeyStep ==
    ASSUME TypeOK, KeyHeld, IdsFresh, [Next]_vars
    PROVE  KeyHeld'
<1>c. CmdOK
  BY DEF CloudInv, TypeOK, CmdOK
<1>t. /\ cert \in [Contexts -> Ids \cup {0}] /\ sidecar \in [Contexts -> State]
      /\ reaper \in [Contexts -> Job] /\ nextId \in Nat \ {0}
      /\ lbCerts \subseteq Ids
  BY GroupBounds DEF CloudInv, TypeOK
<1> USE DEF KeyHeld, CmdOK, Command, State, Ids, ProvisionPcs, TeardownPcs, LBWindow
<1>1. ASSUME NEW c \in Contexts, ProvisionBegin(c) PROVE KeyHeld'
  BY <1>1, <1>c, <1>t DEF ProvisionBegin, Goto, cloud
<1>2. ASSUME NEW c \in Contexts, ProvisionKey(c) PROVE KeyHeld'
  BY <1>2, <1>c, <1>t DEF ProvisionKey, Goto, Finish, At, Idle, NoState, counters
<1>3. ASSUME NEW c \in Contexts, ProvisionServer(c) PROVE KeyHeld'
  BY <1>3, <1>c, <1>t DEF ProvisionServer, Goto, At, counters
<1>4. ASSUME NEW c \in Contexts, ProvisionServerFails(c) PROVE KeyHeld'
  BY <1>4, <1>c, <1>t DEF ProvisionServerFails, Finish, At, Idle, NoState
<1>5. ASSUME NEW c \in Contexts, ProvisionSave(c) PROVE KeyHeld'
  BY <1>5, <1>c, <1>t DEF ProvisionSave, Goto, At, NoState, cloud, counters
<1>6. ASSUME NEW c \in Contexts, ProvisionInstall(c) PROVE KeyHeld'
  BY <1>6, <1>c, <1>t DEF ProvisionInstall, Goto, At, cloud, counters
<1>7. ASSUME NEW c \in Contexts, ProvisionCert(c) PROVE KeyHeld'
  <2>1. \A d \in Contexts \ {c} : cmd'[d] = cmd[d] /\ cert'[d] = cert[d]
    BY <1>7, <1>c, <1>t DEF ProvisionCert, Goto, Finish
  <2>2. cmd[c].pc = "pv_cert" /\ cert[c] = 0 /\ c \in keys
    BY <1>7 DEF ProvisionCert, At
  <2>3. cert'[c] # 0 /\ cmd'[c].pc = "pv_certsave"
    BY <1>7, <1>c, <1>t, <2>2 DEF ProvisionCert, Goto
  <2>4. keys' = keys /\ sidecar' = sidecar
    BY <1>7 DEF ProvisionCert
  <2> QED
    BY <2>1, <2>2, <2>3, <2>4
<1>8. ASSUME NEW c \in Contexts, ProvisionCertSave(c) PROVE KeyHeld'
  BY <1>8, <1>c, <1>t DEF ProvisionCertSave, Goto, At, cloud, counters
<1>9. ASSUME NEW c \in Contexts, ProvisionLB(c) PROVE KeyHeld'
  <2>1. \A d \in Contexts \ {c} : cmd'[d] = cmd[d]
    BY <1>9, <1>c DEF ProvisionLB
  <2>2. cmd[c].pc = "pv_lb" /\ cmd'[c].pc \in LBWindow
    BY <1>9, <1>c DEF ProvisionLB, At
  <2>3. keys' = keys /\ sidecar' = sidecar /\ cert' = cert
    BY <1>9 DEF ProvisionLB
  <2> QED
    BY <2>1, <2>2, <2>3
<1>10. ASSUME NEW c \in Contexts, ProvisionLBWait(c) PROVE KeyHeld'
  <2>1. \A d \in Contexts \ {c} : cmd'[d] = cmd[d]
    BY <1>10, <1>c DEF ProvisionLBWait, Finish
  <2>2. cmd[c].pc = "pv_lbwait" /\ cmd'[c].pc \in {"pv_lbsave", "idle"}
    BY <1>10, <1>c DEF ProvisionLBWait, At, Finish, Idle
  <2>3. keys' = keys /\ sidecar' = sidecar /\ cert' = cert
    BY <1>10 DEF ProvisionLBWait, cloud
  <2> QED
    BY <2>1, <2>2, <2>3
<1>11. ASSUME NEW c \in Contexts, ProvisionLBSave(c) PROVE KeyHeld'
  <2>1. \A d \in Contexts \ {c} : cmd'[d] = cmd[d] /\ sidecar'[d] = sidecar[d]
    BY <1>11, <1>c, <1>t DEF ProvisionLBSave, Goto
  <2>2. cmd[c].pc = "pv_lbsave" /\ cmd'[c].pc = "pv_attach"
    BY <1>11, <1>c DEF ProvisionLBSave, Goto, At
  <2>3. sidecar'[c].cert = sidecar[c].cert /\ sidecar'[c].group
    BY <1>11, <1>t DEF ProvisionLBSave
  <2>4. keys' = keys /\ cert' = cert
    BY <1>11 DEF ProvisionLBSave, cloud
  <2> QED
    BY <2>1, <2>2, <2>3, <2>4
<1>12. ASSUME NEW c \in Contexts, ProvisionAttach(c) PROVE KeyHeld'
  <2>1. \A d \in Contexts \ {c} : cmd'[d] = cmd[d]
    BY <1>12, <1>c DEF ProvisionAttach, Goto, Finish
  <2>2. cmd[c].pc = "pv_attach" /\ cmd'[c].pc \in {"pv_reaper", "idle"}
    BY <1>12, <1>c DEF ProvisionAttach, Goto, Finish, Idle, At
  <2>3. keys' = keys /\ sidecar' = sidecar /\ cert' = cert
    BY <1>12 DEF ProvisionAttach
  <2> QED
    BY <2>1, <2>2, <2>3
<1>13. ASSUME NEW c \in Contexts, ProvisionReaper(c) PROVE KeyHeld'
  BY <1>13, <1>c, <1>t DEF ProvisionReaper, Finish, At, Idle, NoState, cloud, counters
<1>14. ASSUME NEW c \in Contexts, TeardownBegin(c) PROVE KeyHeld'
  BY <1>14, <1>c, <1>t DEF TeardownBegin, cloud, counters
<1>15. ASSUME NEW c \in Contexts, TeardownServer(c) PROVE KeyHeld'
  BY <1>15, <1>c, <1>t DEF TeardownServer, Goto, At, ServerGoes, NoJob, counters
<1>16. ASSUME NEW c \in Contexts, TeardownRead(c) PROVE KeyHeld'
  BY <1>16, <1>c, <1>t DEF TeardownRead, Goto, At, cloud, counters
<1>17. ASSUME NEW c \in Contexts, TeardownDetach(c) PROVE KeyHeld'
  <2>1. \A d \in Contexts \ {c} : cmd'[d] = cmd[d]
    BY <1>17, <1>c DEF TeardownDetach, Goto, Finish
  <2>2. cmd'[c].pc \in {"td_lb", "idle"}
    BY <1>17, <1>c DEF TeardownDetach, Goto, Finish, Idle
  <2>3. keys' = keys /\ sidecar' = sidecar /\ cert' = cert
    BY <1>17 DEF TeardownDetach
  <2> QED
    BY <2>1, <2>2, <2>3
<1>18. ASSUME NEW c \in Contexts, TeardownLB(c) PROVE KeyHeld'
  BY <1>18, <1>c, <1>t DEF TeardownLB, Goto, At, counters
<1>19. ASSUME NEW c \in Contexts, TeardownCert(c) PROVE KeyHeld'
  BY <1>19, <1>c, <1>t DEF TeardownCert, Goto, Finish, At, Idle, NoState, counters
<1>20. ASSUME NEW c \in Contexts, TeardownKey(c) PROVE KeyHeld'
  BY <1>20, <1>c, <1>t DEF TeardownKey, Goto, At, counters
<1>21. ASSUME NEW c \in Contexts, TeardownState(c) PROVE KeyHeld'
  BY <1>21, <1>c, <1>t DEF TeardownState, Finish, At, Idle, NoState, cloud, counters
<1>22. ASSUME NEW c \in Contexts, Fail(c) PROVE KeyHeld'
  BY <1>22, <1>c, <1>t DEF Fail, Finish, At, Idle, NoState, cloud
<1>23. ASSUME NEW c \in Contexts, ReaperCounts(c) PROVE KeyHeld'
  BY <1>23, <1>c, <1>t DEF ReaperCounts, counters
<1>24. ASSUME NEW c \in Contexts, ReaperDeletesServer(c) PROVE KeyHeld'
  BY <1>24, <1>c, <1>t DEF ReaperDeletesServer, ServerGoes, NoJob, counters
<1>25. ASSUME NEW c \in Contexts, PodFails(c) PROVE KeyHeld'
  BY <1>25, <1>c, <1>t DEF PodFails, cloud, counters
<1>26. ASSUME UNCHANGED vars PROVE KeyHeld'
  BY <1>26 DEF vars
<1> QED
  BY <1>1, <1>2, <1>3, <1>4, <1>5, <1>6, <1>7, <1>8, <1>9, <1>10, <1>11, <1>12, <1>13,
      <1>14, <1>15, <1>16, <1>17, <1>18, <1>19, <1>20, <1>21, <1>22, <1>23, <1>24,
      <1>25, <1>26 DEF Next, ProvisionStep, TeardownStep, ReaperStep, vars

\* No id is handed out twice, so an id read earlier never names a later resource.
LEMMA IdsStep ==
    ASSUME TypeOK, IdsFresh, lbCerts \subseteq Uploaded, [Next]_vars
    PROVE  IdsFresh'
<1>c. CmdOK
  BY DEF CloudInv, TypeOK, CmdOK
<1>t. /\ cert \in [Contexts -> Ids \cup {0}] /\ sidecar \in [Contexts -> State]
      /\ reaper \in [Contexts -> Job] /\ nextId \in Nat \ {0}
      /\ lbCerts \subseteq Ids
  BY GroupBounds DEF CloudInv, TypeOK
<1> USE DEF IdsFresh, CmdOK, Command, Ids, Uploaded
<1>1. ASSUME NEW c \in Contexts, ProvisionBegin(c) PROVE IdsFresh'
  BY <1>1, <1>c, <1>t DEF ProvisionBegin, Goto, cloud
<1>2. ASSUME NEW c \in Contexts, ProvisionKey(c) PROVE IdsFresh'
  BY <1>2, <1>c, <1>t DEF ProvisionKey, Goto, Finish, At, Idle, NoState, counters
<1>3. ASSUME NEW c \in Contexts, ProvisionServer(c) PROVE IdsFresh'
  BY <1>3, <1>c, <1>t DEF ProvisionServer, Goto, At, counters
<1>4. ASSUME NEW c \in Contexts, ProvisionServerFails(c) PROVE IdsFresh'
  BY <1>4, <1>c, <1>t DEF ProvisionServerFails, Finish, At, Idle, NoState
<1>5. ASSUME NEW c \in Contexts, ProvisionSave(c) PROVE IdsFresh'
  BY <1>5, <1>c, <1>t DEF ProvisionSave, Goto, At, NoState, cloud, counters
<1>6. ASSUME NEW c \in Contexts, ProvisionInstall(c) PROVE IdsFresh'
  BY <1>6, <1>c, <1>t DEF ProvisionInstall, Goto, At, cloud, counters
<1>7. ASSUME NEW c \in Contexts, ProvisionCert(c) PROVE IdsFresh'
  <2>1. \A d \in Contexts : cmd'[d].view = cmd[d].view \/ cmd'[d].view = {}
    BY <1>7, <1>c DEF ProvisionCert, Goto, Finish, Idle
  <2>2. \/ cert' = cert /\ nextId' = nextId
        \/ cert' = [cert EXCEPT ![c] = nextId] /\ nextId' = nextId + 1
    BY <1>7 DEF ProvisionCert
  <2>3. cert' = cert /\ nextId' = nextId => IdsFresh'
    BY <2>1
  <2>4. ASSUME cert' = [cert EXCEPT ![c] = nextId], nextId' = nextId + 1 PROVE IdsFresh'
    <3>1. \A d \in Contexts : cert[d] \in Nat /\ cmd[d].view \subseteq Nat
      BY <1>c, <1>t, GroupBounds
    <3>2. \A d \in Contexts : cert'[d] = IF d = c THEN nextId ELSE cert[d]
      BY <1>t, <2>4
    <3> QED
      BY <1>t, <2>1, <2>4, <3>1, <3>2
  <2> QED
    BY <2>2, <2>3, <2>4
<1>8. ASSUME NEW c \in Contexts, ProvisionCertSave(c) PROVE IdsFresh'
  BY <1>8, <1>c, <1>t DEF ProvisionCertSave, Goto, At, cloud, counters
<1>9. ASSUME NEW c \in Contexts, ProvisionLB(c) PROVE IdsFresh'
  <2>1. \A d \in Contexts : cmd'[d].view = cmd[d].view \/ cmd'[d].view = lbCerts
    BY <1>9, <1>c DEF ProvisionLB
  <2>2. \A i \in lbCerts : i < nextId
    BY DEF Uploaded
  <2>3. cert' = cert /\ nextId' \in {nextId, nextId + 1}
    BY <1>9 DEF ProvisionLB
  <2> QED
    BY <1>c, <1>t, <2>1, <2>2, <2>3
<1>10. ASSUME NEW c \in Contexts, ProvisionLBWait(c) PROVE IdsFresh'
  BY <1>10, <1>c, <1>t DEF ProvisionLBWait, Finish, At, Idle, NoState, cloud, counters
<1>11. ASSUME NEW c \in Contexts, ProvisionLBSave(c) PROVE IdsFresh'
  BY <1>11, <1>c, <1>t DEF ProvisionLBSave, Goto, At, cloud, counters
<1>12. ASSUME NEW c \in Contexts, ProvisionAttach(c) PROVE IdsFresh'
  <2>1. \A d \in Contexts : cmd'[d].view = cmd[d].view \/ cmd'[d].view = {}
    BY <1>12, <1>c DEF ProvisionAttach, Goto, Finish, Idle
  <2> QED
    BY <1>12, <2>1 DEF ProvisionAttach
<1>13. ASSUME NEW c \in Contexts, ProvisionReaper(c) PROVE IdsFresh'
  BY <1>13, <1>c, <1>t DEF ProvisionReaper, Finish, At, Idle, NoState, cloud, counters
<1>14. ASSUME NEW c \in Contexts, TeardownBegin(c) PROVE IdsFresh'
  BY <1>14, <1>c, <1>t DEF TeardownBegin, cloud, counters
<1>15. ASSUME NEW c \in Contexts, TeardownServer(c) PROVE IdsFresh'
  BY <1>15, <1>c, <1>t DEF TeardownServer, Goto, At, ServerGoes, NoJob, counters
<1>16. ASSUME NEW c \in Contexts, TeardownRead(c) PROVE IdsFresh'
  <2>1. \A d \in Contexts : cmd'[d].view = cmd[d].view \/ cmd'[d].view = lbCerts
    BY <1>16, <1>c DEF TeardownRead, Goto
  <2>2. \A i \in lbCerts : i < nextId
    BY DEF Uploaded
  <2> QED
    BY <1>16, <2>1, <2>2 DEF TeardownRead, cloud
<1>17. ASSUME NEW c \in Contexts, TeardownDetach(c) PROVE IdsFresh'
  <2>1. \A d \in Contexts : cmd'[d].view = cmd[d].view \/ cmd'[d].view = {}
    BY <1>17, <1>c DEF TeardownDetach, Goto, Finish, Idle
  <2> QED
    BY <1>17, <2>1 DEF TeardownDetach
<1>18. ASSUME NEW c \in Contexts, TeardownLB(c) PROVE IdsFresh'
  BY <1>18, <1>c, <1>t DEF TeardownLB, Goto, At, counters
<1>19. ASSUME NEW c \in Contexts, TeardownCert(c) PROVE IdsFresh'
  <2>1. \A d \in Contexts : cmd'[d].view = cmd[d].view \/ cmd'[d].view = {}
    BY <1>19, <1>c DEF TeardownCert, Goto, Finish, Idle
  <2>2. \A d \in Contexts : cert'[d] = cert[d] \/ cert'[d] = 0
    BY <1>19, <1>t DEF TeardownCert
  <2> QED
    BY <1>19, <1>t, <2>1, <2>2 DEF TeardownCert
<1>20. ASSUME NEW c \in Contexts, TeardownKey(c) PROVE IdsFresh'
  BY <1>20, <1>c, <1>t DEF TeardownKey, Goto, At, counters
<1>21. ASSUME NEW c \in Contexts, TeardownState(c) PROVE IdsFresh'
  BY <1>21, <1>c, <1>t DEF TeardownState, Finish, At, Idle, NoState, cloud, counters
<1>22. ASSUME NEW c \in Contexts, Fail(c) PROVE IdsFresh'
  BY <1>22, <1>c, <1>t DEF Fail, Finish, At, Idle, NoState, cloud
<1>23. ASSUME NEW c \in Contexts, ReaperCounts(c) PROVE IdsFresh'
  BY <1>23, <1>c, <1>t DEF ReaperCounts, counters
<1>24. ASSUME NEW c \in Contexts, ReaperDeletesServer(c) PROVE IdsFresh'
  BY <1>24, <1>c, <1>t DEF ReaperDeletesServer, ServerGoes, NoJob, counters
<1>25. ASSUME NEW c \in Contexts, PodFails(c) PROVE IdsFresh'
  BY <1>25, <1>c, <1>t DEF PodFails, cloud, counters
<1>26. ASSUME UNCHANGED vars PROVE IdsFresh'
  BY <1>26 DEF vars
<1> QED
  BY <1>1, <1>2, <1>3, <1>4, <1>5, <1>6, <1>7, <1>8, <1>9, <1>10, <1>11, <1>12, <1>13,
      <1>14, <1>15, <1>16, <1>17, <1>18, <1>19, <1>20, <1>21, <1>22, <1>23, <1>24,
      <1>25, <1>26 DEF Next, ProvisionStep, TeardownStep, ReaperStep, vars

\* A context that counts at most one server, its own, is alone.
LEMMA AtMostOne ==
    ASSUME TypeOK, Cardinality(servers) <= 1, NEW c \in servers, NEW d \in servers
    PROVE  c = d
<1>1. IsFiniteSet(servers)
  BY GroupContexts, FS_Subset DEF TypeOK
<1>2. IsFiniteSet({c}) /\ Cardinality({c}) = 1
  BY FS_Singleton
<1>3. c # d => Cardinality({c} \cup {d}) = 2
  BY <1>2, FS_AddElement
<1>4. Cardinality({c} \cup {d}) <= Cardinality(servers)
  BY <1>1, FS_Subset
<1>5. Cardinality(servers) \in Nat
  BY <1>1, FS_CardinalityType
<1> QED
  BY <1>3, <1>4, <1>5

\* Teardown and reaper delete the load balancer only with the last server, so a
\* provision under way keeps the one it found or made.
LEMMA LBStep ==
    ASSUME TypeOK, LBHeld, KeyHeld, [Next]_vars
    PROVE  LBHeld'
<1>c. CmdOK
  BY DEF CloudInv, TypeOK, CmdOK
<1>t. /\ cert \in [Contexts -> Ids \cup {0}] /\ sidecar \in [Contexts -> State]
      /\ reaper \in [Contexts -> Job] /\ nextId \in Nat \ {0}
      /\ lbCerts \subseteq Ids
  BY GroupBounds DEF CloudInv, TypeOK
<1> USE DEF LBHeld, CmdOK, Command, Ids, Job, ProvisionPcs, TeardownPcs
<1>1. ASSUME NEW c \in Contexts, ProvisionBegin(c) PROVE LBHeld'
  BY <1>1, <1>c, <1>t DEF ProvisionBegin, Goto, cloud
<1>2. ASSUME NEW c \in Contexts, ProvisionKey(c) PROVE LBHeld'
  BY <1>2, <1>c, <1>t DEF ProvisionKey, Goto, Finish, At, Idle, NoState, counters
<1>3. ASSUME NEW c \in Contexts, ProvisionServer(c) PROVE LBHeld'
  BY <1>3, <1>c, <1>t DEF ProvisionServer, Goto, At, counters
<1>4. ASSUME NEW c \in Contexts, ProvisionServerFails(c) PROVE LBHeld'
  BY <1>4, <1>c, <1>t DEF ProvisionServerFails, Finish, At, Idle, NoState
<1>5. ASSUME NEW c \in Contexts, ProvisionSave(c) PROVE LBHeld'
  BY <1>5, <1>c, <1>t DEF ProvisionSave, Goto, At, NoState, cloud, counters
<1>6. ASSUME NEW c \in Contexts, ProvisionInstall(c) PROVE LBHeld'
  BY <1>6, <1>c, <1>t DEF ProvisionInstall, Goto, At, cloud, counters
<1>7. ASSUME NEW c \in Contexts, ProvisionCert(c) PROVE LBHeld'
  <2>1. \A d \in Contexts \ {c} : cmd'[d] = cmd[d]
    BY <1>7, <1>c DEF ProvisionCert, Goto, Finish
  <2>2. cmd[c].pc = "pv_cert" /\ cmd'[c].pc \in {"pv_certsave", "idle"}
    BY <1>7, <1>c DEF ProvisionCert, Goto, Finish, Idle, At
  <2>3. servers' = servers /\ reaper' = reaper /\ lb' = lb
    BY <1>7 DEF ProvisionCert
  <2> QED
    BY <2>1, <2>2, <2>3
<1>8. ASSUME NEW c \in Contexts, ProvisionCertSave(c) PROVE LBHeld'
  BY <1>8, <1>c, <1>t DEF ProvisionCertSave, Goto, At, cloud, counters
<1>9. ASSUME NEW c \in Contexts, ProvisionLB(c) PROVE LBHeld'
  <2>1. \A d \in Contexts \ {c} : cmd'[d] = cmd[d]
    BY <1>9, <1>c DEF ProvisionLB
  <2>2. cmd[c].pc = "pv_lb" /\ cmd'[c].pc \in {"pv_lbwait", "pv_lbsave"}
    BY <1>9, <1>c DEF ProvisionLB, At
  <2>3. cmd'[c].at = lb' /\ lb' # 0
    BY <1>9, <1>c, <1>t DEF ProvisionLB
  <2>4. servers' = servers /\ reaper' = reaper /\ (lb # 0 => lb' = lb)
    BY <1>9 DEF ProvisionLB
  <2> QED
    BY <2>1, <2>2, <2>3, <2>4
<1>10. ASSUME NEW c \in Contexts, ProvisionLBWait(c) PROVE LBHeld'
  <2>1. \A d \in Contexts \ {c} : cmd'[d] = cmd[d]
    BY <1>10, <1>c DEF ProvisionLBWait, Finish
  <2>2. /\ cmd[c].pc = "pv_lbwait"
        /\ (cmd'[c].pc = "pv_lbsave" /\ cmd'[c].at = cmd[c].at) \/ cmd'[c].pc = "idle"
    BY <1>10, <1>c DEF ProvisionLBWait, Finish, Idle, At
  <2>3. servers' = servers /\ reaper' = reaper /\ lb' = lb
    BY <1>10 DEF ProvisionLBWait, cloud
  <2> QED
    BY <2>1, <2>2, <2>3
<1>11. ASSUME NEW c \in Contexts, ProvisionLBSave(c) PROVE LBHeld'
  BY <1>11, <1>c, <1>t DEF ProvisionLBSave, Goto, At, cloud, counters
<1>12. ASSUME NEW c \in Contexts, ProvisionAttach(c) PROVE LBHeld'
  BY <1>12, <1>c, <1>t DEF ProvisionAttach, Goto, Finish, At, Idle, NoState, counters
<1>13. ASSUME NEW c \in Contexts, ProvisionReaper(c) PROVE LBHeld'
  BY <1>13, <1>c, <1>t DEF ProvisionReaper, Finish, At, Idle, NoState, cloud, counters
<1>14. ASSUME NEW c \in Contexts, TeardownBegin(c) PROVE LBHeld'
  BY <1>14, <1>c, <1>t DEF TeardownBegin, cloud, counters
<1>15. ASSUME NEW c \in Contexts, TeardownServer(c) PROVE LBHeld'
  BY <1>15, <1>c, <1>t DEF TeardownServer, Goto, At, ServerGoes, NoJob, counters
<1>16. ASSUME NEW c \in Contexts, TeardownRead(c) PROVE LBHeld'
  BY <1>16, <1>c, <1>t DEF TeardownRead, Goto, At, cloud, counters
<1>17. ASSUME NEW c \in Contexts, TeardownDetach(c) PROVE LBHeld'
  BY <1>17, <1>c, <1>t DEF TeardownDetach, Goto, Finish, At, Idle, NoState, counters
<1>18. ASSUME NEW c \in Contexts, TeardownLB(c) PROVE LBHeld'
  BY <1>18, <1>c, <1>t DEF TeardownLB, Goto, At, counters
<1>19. ASSUME NEW c \in Contexts, TeardownCert(c) PROVE LBHeld'
  <2>1. \A d \in Contexts \ {c} : cmd'[d] = cmd[d]
    BY <1>19, <1>c DEF TeardownCert, Goto, Finish
  <2>2. cmd'[c].pc \in {"td_key", "idle"}
    BY <1>19, <1>c DEF TeardownCert, Goto, Finish, Idle, At
  <2>3. servers' = servers /\ reaper' = reaper /\ lb' = lb
    BY <1>19 DEF TeardownCert
  <2> QED
    BY <2>1, <2>2, <2>3
<1>20. ASSUME NEW c \in Contexts, TeardownKey(c) PROVE LBHeld'
  BY <1>20, <1>c, <1>t DEF TeardownKey, Goto, At, counters
<1>21. ASSUME NEW c \in Contexts, TeardownState(c) PROVE LBHeld'
  BY <1>21, <1>c, <1>t DEF TeardownState, Finish, At, Idle, NoState, cloud, counters
<1>22. ASSUME NEW c \in Contexts, Fail(c) PROVE LBHeld'
  BY <1>22, <1>c, <1>t DEF Fail, Finish, At, Idle, NoState, cloud
<1>23. ASSUME NEW c \in Contexts, ReaperCounts(c) PROVE LBHeld'
  <2>1. cmd' = cmd /\ servers' = servers
    BY <1>23 DEF ReaperCounts
  <2>2. c \in servers /\ reaper[c].pc = "sleeping"
    BY <1>23 DEF ReaperCounts
  <2>3. \A d \in Contexts : (reaper'[d].pc = "none") <=> (reaper[d].pc = "none")
    BY <1>23, <1>t DEF ReaperCounts
  <2>4. ASSUME NEW d \in Contexts, cmd[d].pc \in {"pv_lbwait", "pv_lbsave", "pv_attach"}
        PROVE  lb' = lb
    <3>1. d \in servers /\ reaper[d].pc = "none"
      BY <2>4
    <3>2. ~(Cardinality(servers) <= 1)
      BY <2>2, <3>1, AtMostOne
    <3> QED
      BY <1>23, <3>2 DEF ReaperCounts
  <2> QED
    BY <2>1, <2>2, <2>3, <2>4
<1>24. ASSUME NEW c \in Contexts, ReaperDeletesServer(c) PROVE LBHeld'
  BY <1>24, <1>c, <1>t DEF ReaperDeletesServer, ServerGoes, NoJob, counters
<1>25. ASSUME NEW c \in Contexts, PodFails(c) PROVE LBHeld'
  BY <1>25, <1>c, <1>t DEF PodFails, cloud, counters
<1>26. ASSUME UNCHANGED vars PROVE LBHeld'
  BY <1>26 DEF vars
<1> QED
  BY <1>1, <1>2, <1>3, <1>4, <1>5, <1>6, <1>7, <1>8, <1>9, <1>10, <1>11, <1>12, <1>13,
      <1>14, <1>15, <1>16, <1>17, <1>18, <1>19, <1>20, <1>21, <1>22, <1>23, <1>24,
      <1>25, <1>26 DEF Next, ProvisionStep, TeardownStep, ReaperStep, vars

ViewPcs == {"pv_lbsave", "pv_attach", "td_detach"}

\* d's view is the one it had, or the list as it is now.
KeepsOrReads(d) ==
    \/ cmd[d].pc \in ViewPcs /\ cmd'[d].view = cmd[d].view
    \/ cmd'[d].view = lbCerts

Viewed(i) == \E c \in Contexts :
    cmd[c].pc \in ViewPcs /\ i \in cmd[c].view \cap Uploaded

\* An owned certificate stays owned while it exists: the sidecar is overwritten or
\* deleted only when its context has no certificate.
LEMMA OwnedKept ==
    ASSUME "lbwindow" \notin Faults, TypeOK, KeyHeld, LBHeld, IdsFresh,
           NEW i \in Uploaded', Owned(i), [Next]_vars
    PROVE  Owned(i)'
<1>c. CmdOK
  BY DEF CloudInv, TypeOK, CmdOK
<1>t. /\ cert \in [Contexts -> Ids \cup {0}] /\ sidecar \in [Contexts -> State]
      /\ reaper \in [Contexts -> Job] /\ nextId \in Nat \ {0}
      /\ lbCerts \subseteq Ids
  BY GroupBounds DEF CloudInv, TypeOK
<1> USE DEF CmdOK, Command, State, Ids, Owned, Uploaded, LBWindow
<1>o. PICK e \in Contexts :
        /\ cert[e] = i /\ i # 0
        /\ (sidecar[e].cert = i /\ sidecar[e].group) \/ cmd[e].pc \in LBWindow
  OBVIOUS
<1>1. ASSUME NEW c \in Contexts, ProvisionBegin(c) PROVE Owned(i)'
  <2>1. cmd[c].pc \notin LBWindow
    BY <1>1 DEF ProvisionBegin, MayBegin, At
  <2>2. \A d \in Contexts \ {c} : cmd'[d] = cmd[d]
    BY <1>1, <1>c DEF ProvisionBegin, Goto
  <2> QED
    BY <1>1, <1>o, <2>1, <2>2 DEF ProvisionBegin, cloud
<1>2. ASSUME NEW c \in Contexts, ProvisionKey(c) PROVE Owned(i)'
  BY <1>2, <1>c, <1>t, <1>o DEF ProvisionKey, Goto, Finish, At, Idle, NoState, counters
<1>3. ASSUME NEW c \in Contexts, ProvisionServer(c) PROVE Owned(i)'
  BY <1>3, <1>c, <1>t, <1>o DEF ProvisionServer, Goto, At, counters
<1>4. ASSUME NEW c \in Contexts, ProvisionServerFails(c) PROVE Owned(i)'
  BY <1>4, <1>c, <1>t, <1>o DEF ProvisionServerFails, Finish, At, Idle, NoState
<1>5. ASSUME NEW c \in Contexts, ProvisionSave(c) PROVE Owned(i)'
  <2>1. e # c
    BY <1>5, <1>o DEF ProvisionSave, At, KeyHeld
  <2>2. cmd'[e] = cmd[e] /\ sidecar'[e] = sidecar[e]
    BY <1>5, <1>c, <1>t, <2>1 DEF ProvisionSave, Goto
  <2> QED
    BY <1>5, <1>o, <2>2 DEF ProvisionSave, cloud
<1>6. ASSUME NEW c \in Contexts, ProvisionInstall(c) PROVE Owned(i)'
  BY <1>6, <1>c, <1>t, <1>o DEF ProvisionInstall, Goto, At, cloud, counters
<1>7. ASSUME NEW c \in Contexts, ProvisionCert(c) PROVE Owned(i)'
  BY <1>7, <1>c, <1>t, <1>o DEF ProvisionCert, Goto, Finish, At, Idle, NoState, counters
<1>8. ASSUME NEW c \in Contexts, ProvisionCertSave(c) PROVE Owned(i)'
  BY <1>8, <1>c, <1>t, <1>o DEF ProvisionCertSave, Goto, At, cloud, counters
<1>9. ASSUME NEW c \in Contexts, ProvisionLB(c) PROVE Owned(i)'
  BY <1>9, <1>c, <1>t, <1>o DEF ProvisionLB, At, counters
<1>10. ASSUME NEW c \in Contexts, ProvisionLBWait(c) PROVE Owned(i)'
  <2>1. cmd'[c].pc = "pv_lbsave"
    BY <1>10, <1>c DEF ProvisionLBWait, At, LBHeld
  <2>2. \A d \in Contexts \ {c} : cmd'[d] = cmd[d]
    BY <1>10, <1>c DEF ProvisionLBWait, Finish
  <2> QED
    BY <1>10, <1>o, <2>1, <2>2 DEF ProvisionLBWait, cloud
<1>11. ASSUME NEW c \in Contexts, ProvisionLBSave(c) PROVE Owned(i)'
  <2>1. cert[c] = sidecar[c].cert /\ sidecar'[c].cert = sidecar[c].cert /\ sidecar'[c].group
    BY <1>11, <1>t DEF ProvisionLBSave, At, KeyHeld
  <2>2. \A d \in Contexts \ {c} : cmd'[d] = cmd[d] /\ sidecar'[d] = sidecar[d]
    BY <1>11, <1>c, <1>t DEF ProvisionLBSave, Goto
  <2> QED
    BY <1>11, <1>o, <2>1, <2>2 DEF ProvisionLBSave, cloud
<1>12. ASSUME NEW c \in Contexts, ProvisionAttach(c) PROVE Owned(i)'
  BY <1>12, <1>c, <1>t, <1>o DEF ProvisionAttach, Goto, Finish, At, Idle, NoState,
      counters
<1>13. ASSUME NEW c \in Contexts, ProvisionReaper(c) PROVE Owned(i)'
  BY <1>13, <1>c, <1>t, <1>o DEF ProvisionReaper, Finish, At, Idle, NoState, cloud,
      counters
<1>14. ASSUME NEW c \in Contexts, TeardownBegin(c) PROVE Owned(i)'
  <2>1. cmd[c].pc \notin LBWindow
    BY <1>14 DEF TeardownBegin, MayBegin, At
  <2>2. \A d \in Contexts \ {c} : cmd'[d] = cmd[d]
    BY <1>14, <1>c DEF TeardownBegin
  <2> QED
    BY <1>14, <1>o, <2>1, <2>2 DEF TeardownBegin, cloud
<1>15. ASSUME NEW c \in Contexts, TeardownServer(c) PROVE Owned(i)'
  BY <1>15, <1>c, <1>t, <1>o DEF TeardownServer, Goto, At, ServerGoes, NoJob, counters
<1>16. ASSUME NEW c \in Contexts, TeardownRead(c) PROVE Owned(i)'
  BY <1>16, <1>c, <1>t, <1>o DEF TeardownRead, Goto, At, cloud, counters
<1>17. ASSUME NEW c \in Contexts, TeardownDetach(c) PROVE Owned(i)'
  BY <1>17, <1>c, <1>t, <1>o DEF TeardownDetach, Goto, Finish, At, Idle, NoState,
      counters
<1>18. ASSUME NEW c \in Contexts, TeardownLB(c) PROVE Owned(i)'
  BY <1>18, <1>c, <1>t, <1>o DEF TeardownLB, Goto, At, counters
<1>19. ASSUME NEW c \in Contexts, TeardownCert(c) PROVE Owned(i)'
  <2>1. PICK d \in Contexts : cert'[d] = i
    OBVIOUS
  <2>2. cert[d] = i /\ (cert' = cert \/ d # c)
    BY <1>19, <1>t, <1>o, <2>1 DEF TeardownCert
  <2>3. e = d
    BY <1>o, <2>2 DEF IdsFresh
  <2>4. sidecar' = sidecar /\ (cmd[e].pc \in LBWindow => cmd'[e] = cmd[e])
    BY <1>19, <1>c DEF TeardownCert, Goto, Finish, At
  <2> QED
    BY <1>o, <2>1, <2>3, <2>4
<1>20. ASSUME NEW c \in Contexts, TeardownKey(c) PROVE Owned(i)'
  BY <1>20, <1>c, <1>t, <1>o DEF TeardownKey, Goto, At, counters
<1>21. ASSUME NEW c \in Contexts, TeardownState(c) PROVE Owned(i)'
  <2>1. e # c
    BY <1>21, <1>o DEF TeardownState, At, KeyHeld
  <2>2. cmd'[e] = cmd[e] /\ sidecar'[e] = sidecar[e]
    BY <1>21, <1>c, <1>t, <2>1 DEF TeardownState, Finish
  <2> QED
    BY <1>21, <1>o, <2>2 DEF TeardownState, cloud
<1>22. ASSUME NEW c \in Contexts, Fail(c) PROVE Owned(i)'
  <2>1. cmd[c].pc \notin LBWindow
    BY <1>22 DEF Fail, MayBegin, MayFail, At
  <2>2. \A d \in Contexts \ {c} : cmd'[d] = cmd[d]
    BY <1>22, <1>c DEF Fail, Finish
  <2> QED
    BY <1>22, <1>o, <2>1, <2>2 DEF Fail, cloud
<1>23. ASSUME NEW c \in Contexts, ReaperCounts(c) PROVE Owned(i)'
  BY <1>23, <1>c, <1>t, <1>o DEF ReaperCounts, counters
<1>24. ASSUME NEW c \in Contexts, ReaperDeletesServer(c) PROVE Owned(i)'
  BY <1>24, <1>c, <1>t, <1>o DEF ReaperDeletesServer, ServerGoes, NoJob, counters
<1>25. ASSUME NEW c \in Contexts, PodFails(c) PROVE Owned(i)'
  BY <1>25, <1>c, <1>t, <1>o DEF PodFails, cloud, counters
<1>26. ASSUME UNCHANGED vars PROVE Owned(i)'
  BY <1>26 DEF vars
<1> QED
  BY <1>1, <1>2, <1>3, <1>4, <1>5, <1>6, <1>7, <1>8, <1>9, <1>10, <1>11, <1>12, <1>13,
      <1>14, <1>15, <1>16, <1>17, <1>18, <1>19, <1>20, <1>21, <1>22, <1>23, <1>24,
      <1>25, <1>26 DEF Next, ProvisionStep, TeardownStep, ReaperStep, vars

\* A command about to write a list back read it before, or reads it in this step.
LEMMA ViewsFrom ==
    ASSUME TypeOK, NEW d \in Contexts, cmd'[d].pc \in ViewPcs, [Next]_vars
    PROVE  KeepsOrReads(d)
<1>c. CmdOK
  BY DEF CloudInv, TypeOK, CmdOK
<1>t. /\ cert \in [Contexts -> Ids \cup {0}] /\ sidecar \in [Contexts -> State]
      /\ reaper \in [Contexts -> Job] /\ nextId \in Nat \ {0}
      /\ lbCerts \subseteq Ids
  BY GroupBounds DEF CloudInv, TypeOK
<1> USE DEF CmdOK, Command, ViewPcs, KeepsOrReads
<1>1. ASSUME NEW c \in Contexts, ProvisionBegin(c) PROVE KeepsOrReads(d)
  BY <1>1, <1>c, <1>t DEF ProvisionBegin, Goto, cloud
<1>2. ASSUME NEW c \in Contexts, ProvisionKey(c) PROVE KeepsOrReads(d)
  BY <1>2, <1>c, <1>t DEF ProvisionKey, Goto, Finish, At, Idle, NoState, counters
<1>3. ASSUME NEW c \in Contexts, ProvisionServer(c) PROVE KeepsOrReads(d)
  BY <1>3, <1>c, <1>t DEF ProvisionServer, Goto, At, counters
<1>4. ASSUME NEW c \in Contexts, ProvisionServerFails(c) PROVE KeepsOrReads(d)
  BY <1>4, <1>c, <1>t DEF ProvisionServerFails, Finish, At, Idle, NoState
<1>5. ASSUME NEW c \in Contexts, ProvisionSave(c) PROVE KeepsOrReads(d)
  BY <1>5, <1>c, <1>t DEF ProvisionSave, Goto, At, NoState, cloud, counters
<1>6. ASSUME NEW c \in Contexts, ProvisionInstall(c) PROVE KeepsOrReads(d)
  BY <1>6, <1>c, <1>t DEF ProvisionInstall, Goto, At, cloud, counters
<1>7. ASSUME NEW c \in Contexts, ProvisionCert(c) PROVE KeepsOrReads(d)
  BY <1>7, <1>c, <1>t DEF ProvisionCert, Goto, Finish, At, Idle, NoState, counters
<1>8. ASSUME NEW c \in Contexts, ProvisionCertSave(c) PROVE KeepsOrReads(d)
  BY <1>8, <1>c, <1>t DEF ProvisionCertSave, Goto, At, cloud, counters
<1>9. ASSUME NEW c \in Contexts, ProvisionLB(c) PROVE KeepsOrReads(d)
  BY <1>9, <1>c, <1>t DEF ProvisionLB, At, counters
<1>10. ASSUME NEW c \in Contexts, ProvisionLBWait(c) PROVE KeepsOrReads(d)
  <2>1. \A e \in Contexts \ {c} : cmd'[e] = cmd[e]
    BY <1>10, <1>c DEF ProvisionLBWait, Finish
  <2>2. cmd'[c].pc = "idle" \/ cmd'[c].view = lbCerts
    BY <1>10, <1>c DEF ProvisionLBWait, Finish, Idle
  <2> QED
    BY <2>1, <2>2
<1>11. ASSUME NEW c \in Contexts, ProvisionLBSave(c) PROVE KeepsOrReads(d)
  BY <1>11, <1>c, <1>t DEF ProvisionLBSave, Goto, At, cloud, counters
<1>12. ASSUME NEW c \in Contexts, ProvisionAttach(c) PROVE KeepsOrReads(d)
  BY <1>12, <1>c, <1>t DEF ProvisionAttach, Goto, Finish, At, Idle, NoState, counters
<1>13. ASSUME NEW c \in Contexts, ProvisionReaper(c) PROVE KeepsOrReads(d)
  BY <1>13, <1>c, <1>t DEF ProvisionReaper, Finish, At, Idle, NoState, cloud, counters
<1>14. ASSUME NEW c \in Contexts, TeardownBegin(c) PROVE KeepsOrReads(d)
  BY <1>14, <1>c, <1>t DEF TeardownBegin, cloud, counters
<1>15. ASSUME NEW c \in Contexts, TeardownServer(c) PROVE KeepsOrReads(d)
  BY <1>15, <1>c, <1>t DEF TeardownServer, Goto, At, ServerGoes, NoJob, counters
<1>16. ASSUME NEW c \in Contexts, TeardownRead(c) PROVE KeepsOrReads(d)
  BY <1>16, <1>c, <1>t DEF TeardownRead, Goto, At, cloud, counters
<1>17. ASSUME NEW c \in Contexts, TeardownDetach(c) PROVE KeepsOrReads(d)
  BY <1>17, <1>c, <1>t DEF TeardownDetach, Goto, Finish, At, Idle, NoState, counters
<1>18. ASSUME NEW c \in Contexts, TeardownLB(c) PROVE KeepsOrReads(d)
  BY <1>18, <1>c, <1>t DEF TeardownLB, Goto, At, counters
<1>19. ASSUME NEW c \in Contexts, TeardownCert(c) PROVE KeepsOrReads(d)
  BY <1>19, <1>c, <1>t DEF TeardownCert, Goto, Finish, At, Idle, NoState, counters
<1>20. ASSUME NEW c \in Contexts, TeardownKey(c) PROVE KeepsOrReads(d)
  BY <1>20, <1>c, <1>t DEF TeardownKey, Goto, At, counters
<1>21. ASSUME NEW c \in Contexts, TeardownState(c) PROVE KeepsOrReads(d)
  BY <1>21, <1>c, <1>t DEF TeardownState, Finish, At, Idle, NoState, cloud, counters
<1>22. ASSUME NEW c \in Contexts, Fail(c) PROVE KeepsOrReads(d)
  BY <1>22, <1>c, <1>t DEF Fail, Finish, At, Idle, NoState, cloud
<1>23. ASSUME NEW c \in Contexts, ReaperCounts(c) PROVE KeepsOrReads(d)
  BY <1>23, <1>c, <1>t DEF ReaperCounts, counters
<1>24. ASSUME NEW c \in Contexts, ReaperDeletesServer(c) PROVE KeepsOrReads(d)
  BY <1>24, <1>c, <1>t DEF ReaperDeletesServer, ServerGoes, NoJob, counters
<1>25. ASSUME NEW c \in Contexts, PodFails(c) PROVE KeepsOrReads(d)
  BY <1>25, <1>c, <1>t DEF PodFails, cloud, counters
<1>26. ASSUME UNCHANGED vars PROVE KeepsOrReads(d)
  BY <1>26 DEF vars
<1> QED
  BY <1>1, <1>2, <1>3, <1>4, <1>5, <1>6, <1>7, <1>8, <1>9, <1>10, <1>11, <1>12, <1>13,
      <1>14, <1>15, <1>16, <1>17, <1>18, <1>19, <1>20, <1>21, <1>22, <1>23, <1>24,
      <1>25, <1>26 DEF Next, ProvisionStep, TeardownStep, ReaperStep, vars

\* Nothing puts a certificate on the load balancer that does not exist, and no
\* certificate in use is deleted.
LEMMA RefsKept ==
    ASSUME TypeOK, KeyHeld, LBHeld, IdsFresh, lbCerts \subseteq Uploaded, [Next]_vars
    PROVE  lbCerts' \subseteq Uploaded'
<1>c. CmdOK
  BY DEF CloudInv, TypeOK, CmdOK
<1>t. /\ cert \in [Contexts -> Ids \cup {0}] /\ sidecar \in [Contexts -> State]
      /\ reaper \in [Contexts -> Job] /\ nextId \in Nat \ {0}
      /\ lbCerts \subseteq Ids
  BY GroupBounds DEF CloudInv, TypeOK
<1> USE DEF CmdOK, Command, Uploaded, ViewPcs, UpdateServiceWorks
<1>7. ASSUME NEW c \in Contexts, ProvisionCert(c) PROVE lbCerts' \subseteq Uploaded'
  BY <1>7, <1>c, <1>t DEF ProvisionCert, Goto, Finish, At, Idle, NoState, counters
<1>9. ASSUME NEW c \in Contexts, ProvisionLB(c) PROVE lbCerts' \subseteq Uploaded'
  <2>1. cert[c] # 0 /\ cert' = cert
    BY <1>9 DEF ProvisionLB, At, KeyHeld
  <2>2. lbCerts' = lbCerts \/ lbCerts' = {cert[c]}
    BY <1>9 DEF ProvisionLB
  <2> QED
    BY <2>1, <2>2
<1>12. ASSUME NEW c \in Contexts, ProvisionAttach(c) PROVE lbCerts' \subseteq Uploaded'
  BY <1>12, <1>c, <1>t DEF ProvisionAttach, Goto, Finish, At, Idle, NoState, counters
<1>17. ASSUME NEW c \in Contexts, TeardownDetach(c) PROVE lbCerts' \subseteq Uploaded'
  BY <1>17, <1>c, <1>t DEF TeardownDetach, Goto, Finish, At, Idle, NoState, counters
<1>18. ASSUME NEW c \in Contexts, TeardownLB(c) PROVE lbCerts' \subseteq Uploaded'
  BY <1>18, <1>c, <1>t DEF TeardownLB, Goto, At, counters
<1>19. ASSUME NEW c \in Contexts, TeardownCert(c) PROVE lbCerts' \subseteq Uploaded'
  BY <1>19, <1>c, <1>t DEF TeardownCert, Goto, Finish, At, Idle, NoState, counters
<1>23. ASSUME NEW c \in Contexts, ReaperCounts(c) PROVE lbCerts' \subseteq Uploaded'
  BY <1>23, <1>c, <1>t DEF ReaperCounts, counters
<1>26. ASSUME UNCHANGED vars PROVE lbCerts' \subseteq Uploaded'
  BY <1>26 DEF vars
\* The other actions leave lbCerts and cert alone.
<1>0. ASSUME NEW c \in Contexts,
             \/ ProvisionBegin(c) \/ ProvisionKey(c) \/ ProvisionServer(c)
             \/ ProvisionServerFails(c) \/ ProvisionSave(c) \/ ProvisionInstall(c)
             \/ ProvisionCertSave(c) \/ ProvisionLBWait(c) \/ ProvisionLBSave(c)
             \/ ProvisionReaper(c) \/ TeardownBegin(c) \/ TeardownServer(c)
             \/ TeardownRead(c) \/ TeardownKey(c) \/ TeardownState(c) \/ Fail(c)
             \/ ReaperDeletesServer(c) \/ PodFails(c)
      PROVE  lbCerts' \subseteq Uploaded'
  BY <1>0 DEF ProvisionBegin, ProvisionKey, ProvisionServer, ProvisionServerFails, 
    ProvisionSave, ProvisionInstall, ProvisionCertSave, ProvisionLBWait,
    ProvisionLBSave, ProvisionReaper, TeardownBegin, TeardownServer,
    TeardownRead, TeardownKey, TeardownState, Fail, ReaperDeletesServer,
    PodFails, cloud, ServerGoes
<1> QED
  BY <1>0, <1>7, <1>9, <1>12, <1>17, <1>18, <1>19, <1>23, <1>26 DEF Next, ProvisionStep,
      TeardownStep, ReaperStep, vars

\* Every id on the load balancer was there before, was in some command's view, or
\* is owned.
LEMMA ListFrom ==
    ASSUME TypeOK, KeyHeld, LBHeld, lbCerts \subseteq Uploaded,
           NEW i \in lbCerts', [Next]_vars
    PROVE  i \in lbCerts \/ Viewed(i) \/ Owned(i)'
<1>c. CmdOK
  BY DEF CloudInv, TypeOK, CmdOK
<1>t. /\ cert \in [Contexts -> Ids \cup {0}] /\ sidecar \in [Contexts -> State]
      /\ reaper \in [Contexts -> Job] /\ nextId \in Nat \ {0}
      /\ lbCerts \subseteq Ids
  BY GroupBounds DEF CloudInv, TypeOK
<1> USE DEF Viewed, CmdOK, Command, Uploaded, ViewPcs, UpdateServiceWorks, Owned
<1>9. ASSUME NEW c \in Contexts, ProvisionLB(c)
      PROVE  i \in lbCerts \/ Viewed(i) \/ Owned(i)'
  <2>1. lbCerts' = lbCerts \/ (lb = 0 /\ lbCerts' = {cert[c]})
    BY <1>9 DEF ProvisionLB
  <2>2. lb = 0 => cmd'[c].pc = "pv_lbwait"
    BY <1>9, <1>c DEF ProvisionLB
  <2> QED
    BY <1>9, <2>1, <2>2 DEF ProvisionLB, LBWindow
<1>12. ASSUME NEW c \in Contexts, ProvisionAttach(c)
      PROVE  i \in lbCerts \/ Viewed(i) \/ Owned(i)'
  <2>1. \/ lbCerts' = lbCerts
        \/ lbCerts' = cmd[c].view \cup {cert[c]} /\ lbCerts' \subseteq Uploaded
    BY <1>12 DEF ProvisionAttach
  <2>2. sidecar[c].cert = cert[c] /\ sidecar[c].group
    BY <1>12 DEF ProvisionAttach, At, KeyHeld
  <2>3. cert' = cert /\ sidecar' = sidecar /\ cmd[c].pc = "pv_attach"
    BY <1>12 DEF ProvisionAttach, At
  <2> QED
    BY <2>1, <2>2, <2>3
<1>17. ASSUME NEW c \in Contexts, TeardownDetach(c)
      PROVE  i \in lbCerts \/ Viewed(i) \/ Owned(i)'
  BY <1>17, <1>c, <1>t DEF TeardownDetach, Goto, Finish, At, Idle, NoState, counters
<1>18. ASSUME NEW c \in Contexts, TeardownLB(c)
      PROVE  i \in lbCerts \/ Viewed(i) \/ Owned(i)'
  BY <1>18, <1>c, <1>t DEF TeardownLB, Goto, At, counters
<1>23. ASSUME NEW c \in Contexts, ReaperCounts(c)
      PROVE  i \in lbCerts \/ Viewed(i) \/ Owned(i)'
  BY <1>23, <1>c, <1>t DEF ReaperCounts, counters
<1>26. ASSUME UNCHANGED vars PROVE i \in lbCerts \/ Viewed(i) \/ Owned(i)'
  BY <1>26 DEF vars
\* The other actions leave lbCerts alone.
<1>0. ASSUME NEW c \in Contexts,
             \/ ProvisionBegin(c) \/ ProvisionKey(c) \/ ProvisionServer(c)
             \/ ProvisionServerFails(c) \/ ProvisionSave(c) \/ ProvisionInstall(c)
             \/ ProvisionCert(c) \/ ProvisionCertSave(c) \/ ProvisionLBWait(c)
             \/ ProvisionLBSave(c) \/ ProvisionReaper(c) \/ TeardownBegin(c)
             \/ TeardownServer(c) \/ TeardownRead(c) \/ TeardownCert(c) \/ TeardownKey(c)
             \/ TeardownState(c) \/ Fail(c) \/ ReaperDeletesServer(c) \/ PodFails(c)
      PROVE  i \in lbCerts \/ Viewed(i) \/ Owned(i)'
  BY <1>0 DEF ProvisionBegin, ProvisionKey, ProvisionServer, ProvisionServerFails, 
    ProvisionSave, ProvisionInstall, ProvisionCert, ProvisionCertSave,
    ProvisionLBWait, ProvisionLBSave, ProvisionReaper, TeardownBegin,
    TeardownServer, TeardownRead, TeardownCert, TeardownKey, TeardownState,
    Fail, ReaperDeletesServer, PodFails, cloud, ServerGoes
<1> QED
  BY <1>0, <1>9, <1>12, <1>17, <1>18, <1>23, <1>26 DEF Next, ProvisionStep,
      TeardownStep, ReaperStep, vars

\* A certificate appears with the next id and is deleted only when not in use.
LEMMA CertStep ==
    ASSUME TypeOK, NEW d \in Contexts, [Next]_vars
    PROVE  cert'[d] \in {cert[d], nextId, 0}
<1>c. CmdOK
  BY DEF CloudInv, TypeOK, CmdOK
<1>t. /\ cert \in [Contexts -> Ids \cup {0}] /\ sidecar \in [Contexts -> State]
      /\ reaper \in [Contexts -> Job] /\ nextId \in Nat \ {0}
      /\ lbCerts \subseteq Ids
  BY GroupBounds DEF CloudInv, TypeOK
<1> USE DEF CmdOK
<1>7. ASSUME NEW c \in Contexts, ProvisionCert(c) PROVE cert'[d] \in {cert[d], nextId, 0}
  BY <1>7, <1>c, <1>t DEF ProvisionCert, Goto, Finish, At, Idle, NoState, counters
<1>19. ASSUME NEW c \in Contexts, TeardownCert(c) PROVE cert'[d] \in {cert[d], nextId, 0}
  BY <1>19, <1>c, <1>t DEF TeardownCert, Goto, Finish, At, Idle, NoState, counters
<1>26. ASSUME UNCHANGED vars PROVE cert'[d] \in {cert[d], nextId, 0}
  BY <1>26 DEF vars
\* The other actions leave cert alone.
<1>0. ASSUME NEW c \in Contexts,
             \/ ProvisionBegin(c) \/ ProvisionKey(c) \/ ProvisionServer(c)
             \/ ProvisionServerFails(c) \/ ProvisionSave(c) \/ ProvisionInstall(c)
             \/ ProvisionCertSave(c) \/ ProvisionLB(c) \/ ProvisionLBWait(c)
             \/ ProvisionLBSave(c) \/ ProvisionAttach(c) \/ ProvisionReaper(c)
             \/ TeardownBegin(c) \/ TeardownServer(c) \/ TeardownRead(c)
             \/ TeardownDetach(c) \/ TeardownLB(c) \/ TeardownKey(c) \/ TeardownState(c)
             \/ Fail(c) \/ ReaperCounts(c) \/ ReaperDeletesServer(c) \/ PodFails(c)
      PROVE  cert'[d] \in {cert[d], nextId, 0}
  BY <1>0 DEF ProvisionBegin, ProvisionKey, ProvisionServer, ProvisionServerFails, 
    ProvisionSave, ProvisionInstall, ProvisionCertSave, ProvisionLB,
    ProvisionLBWait, ProvisionLBSave, ProvisionAttach, ProvisionReaper,
    TeardownBegin, TeardownServer, TeardownRead, TeardownDetach, TeardownLB,
    TeardownKey, TeardownState, Fail, ReaperCounts, ReaperDeletesServer,
    PodFails, cloud, ServerGoes
<1> QED
  BY <1>0, <1>7, <1>19, <1>26 DEF Next, ProvisionStep, TeardownStep, ReaperStep, vars

\* The certificates on the load balancer exist.
LEMMA UploadedStep ==
    ASSUME TypeOK, [Next]_vars
    PROVE  Uploaded' \subseteq Uploaded \cup {nextId}
  BY CertStep DEF Uploaded

\* The part of the invariant that no failure breaks.
LEMMA CloudStep ==
    ASSUME CloudInv, [Next]_vars
    PROVE  CloudInv'
  BY TypeStep, IdsStep, KeyStep, LBStep, RefsKept DEF CloudInv

\* With failures outside the load balancer's window, and any number of commands.
LEMMA GroupStep ==
    ASSUME "lbwindow" \notin Faults, GroupInv, [Next]_vars
    PROVE  GroupInv'
<1> USE DEF GroupInv
<1>1. CloudInv'
  BY CloudStep
<1>2. LBOwned'
  <2> SUFFICES ASSUME NEW i \in lbCerts' PROVE Owned(i)'
    BY DEF LBOwned
  <2>1. i \in Uploaded'
    BY <1>1 DEF CloudInv
  <2>2. Owned(i) \/ Owned(i)'
    BY ListFrom DEF Viewed, CloudInv, LBOwned, ViewsOwned, ViewPcs
  <2> QED
    BY <2>1, <2>2, OwnedKept DEF CloudInv
<1>3. ViewsOwned'
  <2> SUFFICES ASSUME NEW c \in Contexts, cmd'[c].pc \in ViewPcs,
                      NEW i \in cmd'[c].view, i \in Uploaded'
               PROVE  Owned(i)'
    BY DEF ViewsOwned, ViewPcs
  <2>1. \/ cmd[c].pc \in ViewPcs /\ cmd'[c].view = cmd[c].view
        \/ cmd'[c].view = lbCerts
    BY ViewsFrom DEF CloudInv, KeepsOrReads
  <2>2. CASE cmd[c].pc \in ViewPcs /\ cmd'[c].view = cmd[c].view
    <3>1. i < nextId /\ nextId \in Nat /\ i \in Nat
      BY <2>2, GroupBounds DEF CloudInv, IdsFresh, TypeOK, Command, Ids
    <3>2. i \in Uploaded
      BY <3>1, UploadedStep DEF CloudInv
    <3>3. Owned(i)
      BY <2>2, <3>2 DEF ViewsOwned, ViewPcs
    <3> QED
      BY <3>3, OwnedKept DEF CloudInv
  <2>3. CASE cmd'[c].view = lbCerts
    <3>1. Owned(i)
      BY <2>3 DEF LBOwned
    <3> QED
      BY <3>1, OwnedKept DEF CloudInv
  <2> QED
    BY <2>1, <2>2, <2>3
<1> QED
  BY <1>1, <1>2, <1>3

\* Where operators take turns a command begins only when no other is under way.
LEMMA Alone ==
    ASSUME busy = 1, NEW c \in Contexts, MayBegin(c), NEW d \in Contexts
    PROVE  At(d, "idle")
<1> DEFINE B == {e \in Contexts : ~At(e, "idle")}
<1>1. IsFiniteSet(B) /\ Cardinality(B) \in Nat
  BY GroupContexts, FS_Subset, FS_CardinalityType
<1>2. Cardinality(B) < busy
  BY DEF MayBegin
<1>3. Cardinality(B) = 0
  BY <1>1, <1>2
<1>4. B = {}
  BY <1>1, <1>3, FS_EmptySet
<1> QED
  BY <1>4

\* One command at a time stays one command at a time.
LEMMA OneStep ==
    ASSUME busy = 1, TypeOK, OneAtATime, [Next]_vars
    PROVE  OneAtATime'
<1>c. CmdOK
  BY DEF CloudInv, TypeOK, CmdOK
<1>t. /\ cert \in [Contexts -> Ids \cup {0}] /\ sidecar \in [Contexts -> State]
      /\ reaper \in [Contexts -> Job] /\ nextId \in Nat \ {0}
      /\ lbCerts \subseteq Ids
  BY GroupBounds DEF CloudInv, TypeOK
<1> USE DEF OneAtATime, CmdOK, Command, At
<1>1. ASSUME NEW c \in Contexts, ProvisionBegin(c) PROVE OneAtATime'
  <2>1. \A d \in Contexts : At(d, "idle")
    BY <1>1, Alone DEF ProvisionBegin
  <2>2. \A d \in Contexts \ {c} : cmd'[d] = cmd[d]
    BY <1>1, <1>c DEF ProvisionBegin, Goto
  <2> QED
    BY <2>1, <2>2
<1>2. ASSUME NEW c \in Contexts, ProvisionKey(c) PROVE OneAtATime'
  BY <1>2, <1>c, <1>t DEF ProvisionKey, Goto, Finish, At, Idle, NoState, counters
<1>3. ASSUME NEW c \in Contexts, ProvisionServer(c) PROVE OneAtATime'
  BY <1>3, <1>c, <1>t DEF ProvisionServer, Goto, At, counters
<1>4. ASSUME NEW c \in Contexts, ProvisionServerFails(c) PROVE OneAtATime'
  BY <1>4, <1>c, <1>t DEF ProvisionServerFails, Finish, At, Idle, NoState
<1>5. ASSUME NEW c \in Contexts, ProvisionSave(c) PROVE OneAtATime'
  BY <1>5, <1>c, <1>t DEF ProvisionSave, Goto, At, NoState, cloud, counters
<1>6. ASSUME NEW c \in Contexts, ProvisionInstall(c) PROVE OneAtATime'
  BY <1>6, <1>c, <1>t DEF ProvisionInstall, Goto, At, cloud, counters
<1>7. ASSUME NEW c \in Contexts, ProvisionCert(c) PROVE OneAtATime'
  BY <1>7, <1>c, <1>t DEF ProvisionCert, Goto, Finish, At, Idle, NoState, counters
<1>8. ASSUME NEW c \in Contexts, ProvisionCertSave(c) PROVE OneAtATime'
  BY <1>8, <1>c, <1>t DEF ProvisionCertSave, Goto, At, cloud, counters
<1>9. ASSUME NEW c \in Contexts, ProvisionLB(c) PROVE OneAtATime'
  BY <1>9, <1>c, <1>t DEF ProvisionLB, At, counters
<1>10. ASSUME NEW c \in Contexts, ProvisionLBWait(c) PROVE OneAtATime'
  BY <1>10, <1>c, <1>t DEF ProvisionLBWait, Finish, At, Idle, NoState, cloud, counters
<1>11. ASSUME NEW c \in Contexts, ProvisionLBSave(c) PROVE OneAtATime'
  BY <1>11, <1>c, <1>t DEF ProvisionLBSave, Goto, At, cloud, counters
<1>12. ASSUME NEW c \in Contexts, ProvisionAttach(c) PROVE OneAtATime'
  BY <1>12, <1>c, <1>t DEF ProvisionAttach, Goto, Finish, At, Idle, NoState, counters
<1>13. ASSUME NEW c \in Contexts, ProvisionReaper(c) PROVE OneAtATime'
  BY <1>13, <1>c, <1>t DEF ProvisionReaper, Finish, At, Idle, NoState, cloud, counters
<1>14. ASSUME NEW c \in Contexts, TeardownBegin(c) PROVE OneAtATime'
  <2>1. \A d \in Contexts : At(d, "idle")
    BY <1>14, Alone DEF TeardownBegin
  <2>2. \A d \in Contexts \ {c} : cmd'[d] = cmd[d]
    BY <1>14, <1>c DEF TeardownBegin
  <2> QED
    BY <2>1, <2>2
<1>15. ASSUME NEW c \in Contexts, TeardownServer(c) PROVE OneAtATime'
  BY <1>15, <1>c, <1>t DEF TeardownServer, Goto, At, ServerGoes, NoJob, counters
<1>16. ASSUME NEW c \in Contexts, TeardownRead(c) PROVE OneAtATime'
  BY <1>16, <1>c, <1>t DEF TeardownRead, Goto, At, cloud, counters
<1>17. ASSUME NEW c \in Contexts, TeardownDetach(c) PROVE OneAtATime'
  BY <1>17, <1>c, <1>t DEF TeardownDetach, Goto, Finish, At, Idle, NoState, counters
<1>18. ASSUME NEW c \in Contexts, TeardownLB(c) PROVE OneAtATime'
  BY <1>18, <1>c, <1>t DEF TeardownLB, Goto, At, counters
<1>19. ASSUME NEW c \in Contexts, TeardownCert(c) PROVE OneAtATime'
  BY <1>19, <1>c, <1>t DEF TeardownCert, Goto, Finish, At, Idle, NoState, counters
<1>20. ASSUME NEW c \in Contexts, TeardownKey(c) PROVE OneAtATime'
  BY <1>20, <1>c, <1>t DEF TeardownKey, Goto, At, counters
<1>21. ASSUME NEW c \in Contexts, TeardownState(c) PROVE OneAtATime'
  BY <1>21, <1>c, <1>t DEF TeardownState, Finish, At, Idle, NoState, cloud, counters
<1>22. ASSUME NEW c \in Contexts, Fail(c) PROVE OneAtATime'
  BY <1>22, <1>c, <1>t DEF Fail, Finish, At, Idle, NoState, cloud
<1>23. ASSUME NEW c \in Contexts, ReaperCounts(c) PROVE OneAtATime'
  BY <1>23, <1>c, <1>t DEF ReaperCounts, counters
<1>24. ASSUME NEW c \in Contexts, ReaperDeletesServer(c) PROVE OneAtATime'
  BY <1>24, <1>c, <1>t DEF ReaperDeletesServer, ServerGoes, NoJob, counters
<1>25. ASSUME NEW c \in Contexts, PodFails(c) PROVE OneAtATime'
  BY <1>25, <1>c, <1>t DEF PodFails, cloud, counters
<1>26. ASSUME UNCHANGED vars PROVE OneAtATime'
  BY <1>26 DEF vars
<1> QED
  BY <1>1, <1>2, <1>3, <1>4, <1>5, <1>6, <1>7, <1>8, <1>9, <1>10, <1>11, <1>12, <1>13,
      <1>14, <1>15, <1>16, <1>17, <1>18, <1>19, <1>20, <1>21, <1>22, <1>23, <1>24,
      <1>25, <1>26 DEF Next, ProvisionStep, TeardownStep, ReaperStep, vars

\* The certificate id in a sidecar is its context's own.
LEMMA NamedStep ==
    ASSUME TypeOK, IdsFresh, IdsNamed, [Next]_vars
    PROVE  IdsNamed'
<1>c. CmdOK
  BY DEF CloudInv, TypeOK, CmdOK
<1>t. /\ cert \in [Contexts -> Ids \cup {0}] /\ sidecar \in [Contexts -> State]
      /\ reaper \in [Contexts -> Job] /\ nextId \in Nat \ {0}
      /\ lbCerts \subseteq Ids
  BY GroupBounds DEF CloudInv, TypeOK
<1> USE DEF IdsNamed, CmdOK, Command, State, Ids
<1>1. ASSUME NEW c \in Contexts, ProvisionBegin(c) PROVE IdsNamed'
  BY <1>1, <1>c, <1>t DEF ProvisionBegin, Goto, cloud
<1>2. ASSUME NEW c \in Contexts, ProvisionKey(c) PROVE IdsNamed'
  <2>1. \A d \in Contexts : cmd'[d].st.cert \in {cmd[d].st.cert, 0}
    BY <1>2, <1>c DEF ProvisionKey, Goto, Finish, Idle, NoState
  <2>2. sidecar' = sidecar /\ cert' = cert /\ nextId' = nextId
    BY <1>2 DEF ProvisionKey
  <2> QED
    BY <1>t, <2>1, <2>2
<1>3. ASSUME NEW c \in Contexts, ProvisionServer(c) PROVE IdsNamed'
  BY <1>3, <1>c, <1>t DEF ProvisionServer, Goto, At, counters
<1>4. ASSUME NEW c \in Contexts, ProvisionServerFails(c) PROVE IdsNamed'
  BY <1>4, <1>c, <1>t DEF ProvisionServerFails, Finish, At, Idle, NoState
<1>5. ASSUME NEW c \in Contexts, ProvisionSave(c) PROVE IdsNamed'
  BY <1>5, <1>c, <1>t DEF ProvisionSave, Goto, At, NoState, cloud, counters
<1>6. ASSUME NEW c \in Contexts, ProvisionInstall(c) PROVE IdsNamed'
  BY <1>6, <1>c, <1>t DEF ProvisionInstall, Goto, At, cloud, counters
<1>7. ASSUME NEW c \in Contexts, ProvisionCert(c) PROVE IdsNamed'
  <2>1. \A d \in Contexts : cmd'[d].st.cert \in {cmd[d].st.cert, 0}
    BY <1>7, <1>c DEF ProvisionCert, Goto, Finish, Idle, NoState
  <2>2. \A d \in Contexts : cert'[d] \in {cert[d], nextId}
    BY <1>7, <1>t DEF ProvisionCert
  <2>3. sidecar' = sidecar /\ nextId' \in {nextId, nextId + 1}
    BY <1>7 DEF ProvisionCert
  <2>4. \A d \in Contexts : sidecar[d].cert \in Nat /\ cmd[d].st.cert \in Nat
    BY <1>c, <1>t, GroupBounds
  <2> QED
    BY <1>t, <2>1, <2>2, <2>3, <2>4
<1>8. ASSUME NEW c \in Contexts, ProvisionCertSave(c) PROVE IdsNamed'
  <2>1. cmd' = [cmd EXCEPT ![c].pc = "pv_lb"] /\ cert' = cert /\ nextId' = nextId
    BY <1>8 DEF ProvisionCertSave, Goto, cloud
  <2>2. \A d \in Contexts : cmd'[d].st = cmd[d].st
    BY <1>c, <2>1
  <2>3. \A d \in Contexts : sidecar'[d].cert = IF d = c THEN cert[c] ELSE sidecar[d].cert
    BY <1>8, <1>t DEF ProvisionCertSave
  <2> QED
    BY <2>1, <2>2, <2>3 DEF IdsFresh
<1>9. ASSUME NEW c \in Contexts, ProvisionLB(c) PROVE IdsNamed'
  BY <1>9, <1>c, <1>t DEF ProvisionLB, At, counters
<1>10. ASSUME NEW c \in Contexts, ProvisionLBWait(c) PROVE IdsNamed'
  <2>1. \A d \in Contexts : cmd'[d].st.cert \in {cmd[d].st.cert, 0}
    BY <1>10, <1>c DEF ProvisionLBWait, Finish, Idle, NoState
  <2>2. sidecar' = sidecar /\ cert' = cert /\ nextId' = nextId
    BY <1>10 DEF ProvisionLBWait, cloud
  <2> QED
    BY <1>t, <2>1, <2>2
<1>11. ASSUME NEW c \in Contexts, ProvisionLBSave(c) PROVE IdsNamed'
  BY <1>11, <1>c, <1>t DEF ProvisionLBSave, Goto, At, cloud, counters
<1>12. ASSUME NEW c \in Contexts, ProvisionAttach(c) PROVE IdsNamed'
  <2>1. \A d \in Contexts : cmd'[d].st.cert \in {cmd[d].st.cert, 0}
    BY <1>12, <1>c DEF ProvisionAttach, Goto, Finish, Idle, NoState
  <2>2. sidecar' = sidecar /\ cert' = cert /\ nextId' = nextId
    BY <1>12 DEF ProvisionAttach
  <2> QED
    BY <1>t, <2>1, <2>2
<1>13. ASSUME NEW c \in Contexts, ProvisionReaper(c) PROVE IdsNamed'
  BY <1>13, <1>c, <1>t DEF ProvisionReaper, Finish, At, Idle, NoState, cloud, counters
<1>14. ASSUME NEW c \in Contexts, TeardownBegin(c) PROVE IdsNamed'
  BY <1>14, <1>c, <1>t DEF TeardownBegin, cloud, counters
<1>15. ASSUME NEW c \in Contexts, TeardownServer(c) PROVE IdsNamed'
  BY <1>15, <1>c, <1>t DEF TeardownServer, Goto, At, ServerGoes, NoJob, counters
<1>16. ASSUME NEW c \in Contexts, TeardownRead(c) PROVE IdsNamed'
  <2>1. \A d \in Contexts : cmd'[d].st.cert \in {cmd[d].st.cert, 0}
    BY <1>16, <1>c DEF TeardownRead, Goto
  <2>2. sidecar' = sidecar /\ cert' = cert /\ nextId' = nextId
    BY <1>16 DEF TeardownRead, cloud
  <2> QED
    BY <1>t, <2>1, <2>2
<1>17. ASSUME NEW c \in Contexts, TeardownDetach(c) PROVE IdsNamed'
  <2>1. \A d \in Contexts : cmd'[d].st.cert \in {cmd[d].st.cert, 0}
    BY <1>17, <1>c DEF TeardownDetach, Goto, Finish, Idle, NoState
  <2>2. sidecar' = sidecar /\ cert' = cert /\ nextId' = nextId
    BY <1>17 DEF TeardownDetach
  <2> QED
    BY <1>t, <2>1, <2>2
<1>18. ASSUME NEW c \in Contexts, TeardownLB(c) PROVE IdsNamed'
  BY <1>18, <1>c, <1>t DEF TeardownLB, Goto, At, counters
<1>19. ASSUME NEW c \in Contexts, TeardownCert(c) PROVE IdsNamed'
  BY <1>19, <1>c, <1>t DEF TeardownCert, Goto, Finish, At, Idle, NoState, counters
<1>20. ASSUME NEW c \in Contexts, TeardownKey(c) PROVE IdsNamed'
  BY <1>20, <1>c, <1>t DEF TeardownKey, Goto, At, counters
<1>21. ASSUME NEW c \in Contexts, TeardownState(c) PROVE IdsNamed'
  BY <1>21, <1>c, <1>t DEF TeardownState, Finish, At, Idle, NoState, cloud, counters
<1>22. ASSUME NEW c \in Contexts, Fail(c) PROVE IdsNamed'
  BY <1>22, <1>c, <1>t DEF Fail, Finish, At, Idle, NoState, cloud
<1>23. ASSUME NEW c \in Contexts, ReaperCounts(c) PROVE IdsNamed'
  BY <1>23, <1>c, <1>t DEF ReaperCounts, counters
<1>24. ASSUME NEW c \in Contexts, ReaperDeletesServer(c) PROVE IdsNamed'
  BY <1>24, <1>c, <1>t DEF ReaperDeletesServer, ServerGoes, NoJob, counters
<1>25. ASSUME NEW c \in Contexts, PodFails(c) PROVE IdsNamed'
  BY <1>25, <1>c, <1>t DEF PodFails, cloud, counters
<1>26. ASSUME UNCHANGED vars PROVE IdsNamed'
  BY <1>26 DEF vars
<1> QED
  BY <1>1, <1>2, <1>3, <1>4, <1>5, <1>6, <1>7, <1>8, <1>9, <1>10, <1>11, <1>12, <1>13,
      <1>14, <1>15, <1>16, <1>17, <1>18, <1>19, <1>20, <1>21, <1>22, <1>23, <1>24,
      <1>25, <1>26 DEF Next, ProvisionStep, TeardownStep, ReaperStep, vars

\* Nobody changes the list between a command's read and its write.
LEMMA FreshStep ==
    ASSUME CloudInv, OneAtATime, ViewsFresh, [Next]_vars
    PROVE  ViewsFresh'
<1>c. CmdOK
  BY DEF CloudInv, TypeOK, CmdOK
<1>t. /\ cert \in [Contexts -> Ids \cup {0}] /\ sidecar \in [Contexts -> State]
      /\ reaper \in [Contexts -> Job] /\ nextId \in Nat \ {0}
      /\ lbCerts \subseteq Ids
  BY GroupBounds DEF CloudInv, TypeOK
<1> USE DEF ViewsFresh, OneAtATime, CmdOK, Command
<1>1. ASSUME NEW c \in Contexts, ProvisionBegin(c) PROVE ViewsFresh'
  BY <1>1, <1>c, <1>t DEF ProvisionBegin, Goto, cloud
<1>2. ASSUME NEW c \in Contexts, ProvisionKey(c) PROVE ViewsFresh'
  BY <1>2, <1>c, <1>t DEF ProvisionKey, Goto, Finish, At, Idle, NoState, counters
<1>3. ASSUME NEW c \in Contexts, ProvisionServer(c) PROVE ViewsFresh'
  BY <1>3, <1>c, <1>t DEF ProvisionServer, Goto, At, counters
<1>4. ASSUME NEW c \in Contexts, ProvisionServerFails(c) PROVE ViewsFresh'
  BY <1>4, <1>c, <1>t DEF ProvisionServerFails, Finish, At, Idle, NoState
<1>5. ASSUME NEW c \in Contexts, ProvisionSave(c) PROVE ViewsFresh'
  BY <1>5, <1>c, <1>t DEF ProvisionSave, Goto, At, NoState, cloud, counters
<1>6. ASSUME NEW c \in Contexts, ProvisionInstall(c) PROVE ViewsFresh'
  BY <1>6, <1>c, <1>t DEF ProvisionInstall, Goto, At, cloud, counters
<1>7. ASSUME NEW c \in Contexts, ProvisionCert(c) PROVE ViewsFresh'
  BY <1>7, <1>c, <1>t DEF ProvisionCert, Goto, Finish, At, Idle, NoState, counters
<1>8. ASSUME NEW c \in Contexts, ProvisionCertSave(c) PROVE ViewsFresh'
  BY <1>8, <1>c, <1>t DEF ProvisionCertSave, Goto, At, cloud, counters
<1>9. ASSUME NEW c \in Contexts, ProvisionLB(c) PROVE ViewsFresh'
  BY <1>9, <1>c, <1>t DEF ProvisionLB, At, counters
<1>10. ASSUME NEW c \in Contexts, ProvisionLBWait(c) PROVE ViewsFresh'
  BY <1>10, <1>c, <1>t DEF ProvisionLBWait, Finish, At, Idle, NoState, cloud, counters
<1>11. ASSUME NEW c \in Contexts, ProvisionLBSave(c) PROVE ViewsFresh'
  BY <1>11, <1>c, <1>t DEF ProvisionLBSave, Goto, At, cloud, counters
<1>12. ASSUME NEW c \in Contexts, ProvisionAttach(c) PROVE ViewsFresh'
  BY <1>12, <1>c, <1>t DEF ProvisionAttach, Goto, Finish, At, Idle, NoState, counters
<1>13. ASSUME NEW c \in Contexts, ProvisionReaper(c) PROVE ViewsFresh'
  BY <1>13, <1>c, <1>t DEF ProvisionReaper, Finish, At, Idle, NoState, cloud, counters
<1>14. ASSUME NEW c \in Contexts, TeardownBegin(c) PROVE ViewsFresh'
  BY <1>14, <1>c, <1>t DEF TeardownBegin, cloud, counters
<1>15. ASSUME NEW c \in Contexts, TeardownServer(c) PROVE ViewsFresh'
  BY <1>15, <1>c, <1>t DEF TeardownServer, Goto, At, ServerGoes, NoJob, counters
<1>16. ASSUME NEW c \in Contexts, TeardownRead(c) PROVE ViewsFresh'
  BY <1>16, <1>c, <1>t DEF TeardownRead, Goto, At, cloud, counters
<1>17. ASSUME NEW c \in Contexts, TeardownDetach(c) PROVE ViewsFresh'
  BY <1>17, <1>c, <1>t DEF TeardownDetach, Goto, Finish, At, Idle, NoState, counters
<1>18. ASSUME NEW c \in Contexts, TeardownLB(c) PROVE ViewsFresh'
  BY <1>18, <1>c, <1>t DEF TeardownLB, Goto, At, counters
<1>19. ASSUME NEW c \in Contexts, TeardownCert(c) PROVE ViewsFresh'
  BY <1>19, <1>c, <1>t DEF TeardownCert, Goto, Finish, At, Idle, NoState, counters
<1>20. ASSUME NEW c \in Contexts, TeardownKey(c) PROVE ViewsFresh'
  BY <1>20, <1>c, <1>t DEF TeardownKey, Goto, At, counters
<1>21. ASSUME NEW c \in Contexts, TeardownState(c) PROVE ViewsFresh'
  BY <1>21, <1>c, <1>t DEF TeardownState, Finish, At, Idle, NoState, cloud, counters
<1>22. ASSUME NEW c \in Contexts, Fail(c) PROVE ViewsFresh'
  BY <1>22, <1>c, <1>t DEF Fail, Finish, At, Idle, NoState, cloud
<1>23. ASSUME NEW c \in Contexts, ReaperCounts(c) PROVE ViewsFresh'
  <2>1. cmd' = cmd /\ c \in servers /\ reaper[c].pc = "sleeping"
    BY <1>23 DEF ReaperCounts, CloudInv, LBHeld
  <2>2. (lb' = lb /\ lbCerts' = lbCerts) \/ (lb' = 0 /\ Cardinality(servers) <= 1)
    BY <1>23 DEF ReaperCounts
  <2>3. ASSUME NEW d \in Contexts, cmd[d].pc \in {"pv_lbsave", "pv_attach"}
        PROVE  lbCerts' = lbCerts
    <3>1. d \in servers /\ reaper[d].pc = "none"
      BY <2>3 DEF CloudInv, LBHeld, ProvisionPcs
    <3> QED
      BY <2>1, <2>2, <3>1, AtMostOne DEF CloudInv
  <2>4. \A d \in Contexts : cmd[d].pc = "td_detach" => cmd[d].at # 0
    BY DEF CloudInv, LBHeld
  <2> QED
    BY <2>1, <2>2, <2>3, <2>4
<1>24. ASSUME NEW c \in Contexts, ReaperDeletesServer(c) PROVE ViewsFresh'
  BY <1>24, <1>c, <1>t DEF ReaperDeletesServer, ServerGoes, NoJob, counters
<1>25. ASSUME NEW c \in Contexts, PodFails(c) PROVE ViewsFresh'
  BY <1>25, <1>c, <1>t DEF PodFails, cloud, counters
<1>26. ASSUME UNCHANGED vars PROVE ViewsFresh'
  BY <1>26 DEF vars
<1> QED
  BY <1>1, <1>2, <1>3, <1>4, <1>5, <1>6, <1>7, <1>8, <1>9, <1>10, <1>11, <1>12, <1>13,
      <1>14, <1>15, <1>16, <1>17, <1>18, <1>19, <1>20, <1>21, <1>22, <1>23, <1>24,
      <1>25, <1>26 DEF Next, ProvisionStep, TeardownStep, ReaperStep, vars

\* A cluster comes up with its certificate attached and keeps it attached.
LEMMA ReadyStep ==
    ASSUME CloudInv, SequentialInv, [Next]_vars
    PROVE  CertsAttached'
<1>c. CmdOK
  BY DEF CloudInv, TypeOK, CmdOK
<1>t. /\ cert \in [Contexts -> Ids \cup {0}] /\ sidecar \in [Contexts -> State]
      /\ reaper \in [Contexts -> Job] /\ nextId \in Nat \ {0}
      /\ lbCerts \subseteq Ids
  BY GroupBounds DEF CloudInv, TypeOK
<1> USE DEF SequentialInv, CertsAttached, CmdOK
<1>7. ASSUME NEW c \in Contexts, ProvisionCert(c) PROVE CertsAttached'
  <2>1. cert[c] = 0
    BY <1>7 DEF ProvisionCert, At, CloudInv, KeyHeld
  <2>2. c \notin ready
    BY <1>t, <2>1, GroupBounds DEF Ids
  <2>3. \A d \in Contexts \ {c} : cert'[d] = cert[d]
    BY <1>7, <1>t DEF ProvisionCert
  <2> QED
    BY <1>7, <2>2, <2>3 DEF ProvisionCert, CloudInv, TypeOK
<1>9. ASSUME NEW c \in Contexts, ProvisionLB(c) PROVE CertsAttached'
  <2>1. lbCerts' = lbCerts \/ lbCerts = {}
    BY <1>9 DEF ProvisionLB, CloudInv, TypeOK
  <2>2. cert' = cert /\ ready' = ready
    BY <1>9 DEF ProvisionLB
  <2>3. \A d \in ready : d \in Contexts
    BY DEF CloudInv, TypeOK
  <2> QED
    BY <2>1, <2>2, <2>3
<1>12. ASSUME NEW c \in Contexts, ProvisionAttach(c) PROVE CertsAttached'
  <2>1. lbCerts \subseteq lbCerts'
    BY <1>12 DEF ProvisionAttach, At, ViewsFresh
  <2> QED
    BY <1>12, <2>1 DEF ProvisionAttach
<1>13. ASSUME NEW c \in Contexts, ProvisionReaper(c) PROVE CertsAttached'
  <2>1. cert[c] \in lbCerts
    BY <1>13 DEF ProvisionReaper, At, GoneAndAttached
  <2> QED
    BY <1>13, <2>1 DEF ProvisionReaper, cloud
<1>15. ASSUME NEW c \in Contexts, TeardownServer(c) PROVE CertsAttached'
  BY <1>15, <1>c, <1>t DEF TeardownServer, Goto, At, ServerGoes, NoJob, counters
<1>17. ASSUME NEW c \in Contexts, TeardownDetach(c) PROVE CertsAttached'
  <2>1. lbCerts' = lbCerts \/ lbCerts' = lbCerts \ {cmd[c].st.cert}
    BY <1>17 DEF TeardownDetach, UpdateServiceWorks, At, ViewsFresh
  <2>2. c \notin ready
    BY <1>17 DEF TeardownDetach, At, GoneAndAttached, TeardownPcs, CloudInv, TypeOK
  <2>3. ASSUME NEW d \in ready PROVE cert[d] # cmd[c].st.cert
    <3>1. d \in Contexts /\ d # c /\ cert[d] # 0
      BY <1>t, <2>2, GroupBounds DEF CloudInv, TypeOK, Ids
    <3> QED
      BY <3>1 DEF IdsNamed
  <2> QED
    BY <1>17, <2>1, <2>3 DEF TeardownDetach
<1>18. ASSUME NEW c \in Contexts, TeardownLB(c) PROVE CertsAttached'
  <2>1. lbCerts' = lbCerts \/ ready = {}
    BY <1>18 DEF TeardownLB, CloudInv, TypeOK
  <2> QED
    BY <1>18, <2>1 DEF TeardownLB
<1>19. ASSUME NEW c \in Contexts, TeardownCert(c) PROVE CertsAttached'
  <2>1. c \notin ready /\ ready \subseteq Contexts
    BY <1>19 DEF TeardownCert, At, GoneAndAttached, TeardownPcs, CloudInv, TypeOK
  <2>2. \A d \in Contexts \ {c} : cert'[d] = cert[d]
    BY <1>19, <1>t DEF TeardownCert
  <2> QED
    BY <1>19, <2>1, <2>2 DEF TeardownCert
<1>23. ASSUME NEW c \in Contexts, ReaperCounts(c) PROVE CertsAttached'
  <2>1. c \in servers /\ ready \subseteq servers
    BY <1>23 DEF ReaperCounts, CloudInv, LBHeld, TypeOK
  <2>2. lbCerts' = lbCerts \/ ready' = {}
    BY <1>23, <2>1, AtMostOne DEF ReaperCounts, CloudInv
  <2> QED
    BY <1>23, <2>2 DEF ReaperCounts
<1>24. ASSUME NEW c \in Contexts, ReaperDeletesServer(c) PROVE CertsAttached'
  BY <1>24, <1>c, <1>t DEF ReaperDeletesServer, ServerGoes, NoJob, counters
<1>26. ASSUME UNCHANGED vars PROVE CertsAttached'
  BY <1>26 DEF vars
\* The other actions leave ready, cert and lbCerts alone.
<1>0. ASSUME NEW c \in Contexts,
             \/ ProvisionBegin(c) \/ ProvisionKey(c) \/ ProvisionServer(c)
             \/ ProvisionServerFails(c) \/ ProvisionSave(c) \/ ProvisionInstall(c)
             \/ ProvisionCertSave(c) \/ ProvisionLBWait(c) \/ ProvisionLBSave(c)
             \/ TeardownBegin(c) \/ TeardownRead(c) \/ TeardownKey(c) \/ TeardownState(c)
             \/ Fail(c) \/ PodFails(c)
      PROVE  CertsAttached'
  BY <1>0 DEF ProvisionBegin, ProvisionKey, ProvisionServer, ProvisionServerFails, 
    ProvisionSave, ProvisionInstall, ProvisionCertSave, ProvisionLBWait,
    ProvisionLBSave, TeardownBegin, TeardownRead, TeardownKey,
    TeardownState, Fail, PodFails, cloud
<1> QED
  BY <1>0, <1>7, <1>9, <1>12, <1>13, <1>15, <1>17, <1>18, <1>19, <1>23, <1>24, <1>26 DEF
      Next, ProvisionStep, TeardownStep, ReaperStep, vars

\* A teardown past its first step has no server, a provision past its attach has
\* its certificate on the list.
LEMMA GoneStep ==
    ASSUME CloudInv, SequentialInv, [Next]_vars
    PROVE  GoneAndAttached'
<1>c. CmdOK
  BY DEF CloudInv, TypeOK, CmdOK
<1>t. /\ cert \in [Contexts -> Ids \cup {0}] /\ sidecar \in [Contexts -> State]
      /\ reaper \in [Contexts -> Job] /\ nextId \in Nat \ {0}
      /\ lbCerts \subseteq Ids
  BY GroupBounds DEF CloudInv, TypeOK
<1> USE DEF SequentialInv, GoneAndAttached, OneAtATime, CmdOK, Command
<1>1. ASSUME NEW c \in Contexts, ProvisionBegin(c) PROVE GoneAndAttached'
  BY <1>1, <1>c, <1>t DEF ProvisionBegin, Goto, cloud
<1>2. ASSUME NEW c \in Contexts, ProvisionKey(c) PROVE GoneAndAttached'
  <2>1. \A d \in Contexts \ {c} : cmd[d].pc = "idle" /\ cmd'[d] = cmd[d]
    BY <1>2, <1>c DEF ProvisionKey, Goto, Finish, At
  <2>2. cmd'[c].pc \notin TeardownPcs \cup {"pv_reaper"}
    BY <1>2, <1>c DEF ProvisionKey, Goto, Finish, Idle, TeardownPcs
  <2> QED
    BY <2>1, <2>2 DEF TeardownPcs
<1>3. ASSUME NEW c \in Contexts, ProvisionServer(c) PROVE GoneAndAttached'
  <2>1. \A d \in Contexts \ {c} : cmd[d].pc = "idle" /\ cmd'[d] = cmd[d]
    BY <1>3, <1>c DEF ProvisionServer, Goto, At
  <2>2. cmd'[c].pc \notin TeardownPcs \cup {"pv_reaper"}
    BY <1>3, <1>c DEF ProvisionServer, Goto, TeardownPcs
  <2> QED
    BY <2>1, <2>2 DEF TeardownPcs
<1>4. ASSUME NEW c \in Contexts, ProvisionServerFails(c) PROVE GoneAndAttached'
  <2>1. \A d \in Contexts \ {c} : cmd[d].pc = "idle" /\ cmd'[d] = cmd[d]
    BY <1>4, <1>c DEF ProvisionServerFails, Finish, At
  <2>2. cmd'[c].pc \notin TeardownPcs \cup {"pv_reaper"}
    BY <1>4, <1>c DEF ProvisionServerFails, Finish, Idle, TeardownPcs
  <2> QED
    BY <2>1, <2>2 DEF TeardownPcs
<1>5. ASSUME NEW c \in Contexts, ProvisionSave(c) PROVE GoneAndAttached'
  <2>1. \A d \in Contexts \ {c} : cmd[d].pc = "idle" /\ cmd'[d] = cmd[d]
    BY <1>5, <1>c DEF ProvisionSave, Goto, At
  <2>2. cmd'[c].pc \notin TeardownPcs \cup {"pv_reaper"}
    BY <1>5, <1>c DEF ProvisionSave, Goto, TeardownPcs
  <2> QED
    BY <2>1, <2>2 DEF TeardownPcs
<1>6. ASSUME NEW c \in Contexts, ProvisionInstall(c) PROVE GoneAndAttached'
  <2>1. \A d \in Contexts \ {c} : cmd[d].pc = "idle" /\ cmd'[d] = cmd[d]
    BY <1>6, <1>c DEF ProvisionInstall, Goto, At
  <2>2. cmd'[c].pc \notin TeardownPcs \cup {"pv_reaper"}
    BY <1>6, <1>c DEF ProvisionInstall, Goto, TeardownPcs
  <2> QED
    BY <2>1, <2>2 DEF TeardownPcs
<1>7. ASSUME NEW c \in Contexts, ProvisionCert(c) PROVE GoneAndAttached'
  <2>1. \A d \in Contexts \ {c} : cmd[d].pc = "idle" /\ cmd'[d] = cmd[d]
    BY <1>7, <1>c DEF ProvisionCert, Goto, Finish, At
  <2>2. cmd'[c].pc \notin TeardownPcs \cup {"pv_reaper"}
    BY <1>7, <1>c DEF ProvisionCert, Goto, Finish, Idle, TeardownPcs
  <2> QED
    BY <2>1, <2>2 DEF TeardownPcs
<1>8. ASSUME NEW c \in Contexts, ProvisionCertSave(c) PROVE GoneAndAttached'
  <2>1. \A d \in Contexts \ {c} : cmd[d].pc = "idle" /\ cmd'[d] = cmd[d]
    BY <1>8, <1>c DEF ProvisionCertSave, Goto, At
  <2>2. cmd'[c].pc \notin TeardownPcs \cup {"pv_reaper"}
    BY <1>8, <1>c DEF ProvisionCertSave, Goto, TeardownPcs
  <2> QED
    BY <2>1, <2>2 DEF TeardownPcs
<1>9. ASSUME NEW c \in Contexts, ProvisionLB(c) PROVE GoneAndAttached'
  <2>1. \A d \in Contexts \ {c} : cmd[d].pc = "idle" /\ cmd'[d] = cmd[d]
    BY <1>9, <1>c DEF ProvisionLB, At
  <2>2. cmd'[c].pc \notin TeardownPcs \cup {"pv_reaper"}
    BY <1>9, <1>c DEF ProvisionLB, TeardownPcs
  <2> QED
    BY <2>1, <2>2 DEF TeardownPcs
<1>10. ASSUME NEW c \in Contexts, ProvisionLBWait(c) PROVE GoneAndAttached'
  <2>1. \A d \in Contexts \ {c} : cmd[d].pc = "idle" /\ cmd'[d] = cmd[d]
    BY <1>10, <1>c DEF ProvisionLBWait, Finish, At
  <2>2. cmd'[c].pc \notin TeardownPcs \cup {"pv_reaper"}
    BY <1>10, <1>c DEF ProvisionLBWait, Finish, Idle, TeardownPcs
  <2> QED
    BY <2>1, <2>2 DEF TeardownPcs
<1>11. ASSUME NEW c \in Contexts, ProvisionLBSave(c) PROVE GoneAndAttached'
  <2>1. \A d \in Contexts \ {c} : cmd[d].pc = "idle" /\ cmd'[d] = cmd[d]
    BY <1>11, <1>c DEF ProvisionLBSave, Goto, At
  <2>2. cmd'[c].pc \notin TeardownPcs \cup {"pv_reaper"}
    BY <1>11, <1>c DEF ProvisionLBSave, Goto, TeardownPcs
  <2> QED
    BY <2>1, <2>2 DEF TeardownPcs
<1>12. ASSUME NEW c \in Contexts, ProvisionAttach(c) PROVE GoneAndAttached'
  <2>1. cmd[c].pc = "pv_attach" /\ cmd[c].view = lbCerts
    BY <1>12 DEF ProvisionAttach, At, ViewsFresh
  <2>2. \A d \in Contexts \ {c} : cmd[d].pc = "idle" /\ cmd'[d] = cmd[d]
    BY <1>12, <1>c, <2>1 DEF ProvisionAttach, Goto, Finish, At
  <2>3. CASE cmd[c].view \cup {cert[c]} = cmd[c].view
    <3>1. Goto(c, "pv_reaper") /\ lbCerts' = lbCerts /\ cert[c] \in lbCerts
      BY <1>12, <2>1, <2>3 DEF ProvisionAttach
    <3>2. cmd'[c].pc = "pv_reaper"
      BY <1>c, <3>1 DEF Goto
    <3> QED
      BY <1>12, <2>2, <3>1, <3>2 DEF ProvisionAttach, TeardownPcs
  <2>4. CASE cmd[c].view \cup {cert[c]} # cmd[c].view
    <3>1. Finish(c) \/ (lbCerts' = cmd[c].view \cup {cert[c]} /\ Goto(c, "pv_reaper"))
      BY <1>12, <2>4 DEF ProvisionAttach
    <3>2. cmd'[c].pc = "idle" \/ (cmd'[c].pc = "pv_reaper" /\ cert[c] \in lbCerts')
      BY <1>c, <3>1 DEF Goto, Finish, Idle
    <3> QED
      BY <1>12, <2>2, <3>2 DEF ProvisionAttach, TeardownPcs
  <2> QED
    BY <2>3, <2>4
<1>13. ASSUME NEW c \in Contexts, ProvisionReaper(c) PROVE GoneAndAttached'
  <2>1. \A d \in Contexts \ {c} : cmd[d].pc = "idle" /\ cmd'[d] = cmd[d]
    BY <1>13, <1>c DEF ProvisionReaper, Finish, At
  <2>2. cmd'[c].pc \notin TeardownPcs \cup {"pv_reaper"}
    BY <1>13, <1>c DEF ProvisionReaper, Finish, Idle, TeardownPcs
  <2> QED
    BY <2>1, <2>2 DEF TeardownPcs
<1>14. ASSUME NEW c \in Contexts, TeardownBegin(c) PROVE GoneAndAttached'
  BY <1>14, <1>c, <1>t DEF TeardownBegin, cloud, counters
<1>15. ASSUME NEW c \in Contexts, TeardownServer(c) PROVE GoneAndAttached'
  BY <1>15, <1>c, <1>t DEF TeardownServer, Goto, At, ServerGoes, NoJob, counters
<1>16. ASSUME NEW c \in Contexts, TeardownRead(c) PROVE GoneAndAttached'
  <2>1. \A d \in Contexts \ {c} : cmd[d].pc = "idle" /\ cmd'[d] = cmd[d]
    BY <1>16, <1>c DEF TeardownRead, Goto, At
  <2>2. c \notin servers /\ servers' = servers
    BY <1>16 DEF TeardownRead, At, TeardownPcs, cloud
  <2>3. cmd'[c].pc # "pv_reaper"
    BY <1>16, <1>c DEF TeardownRead, Goto
  <2> QED
    BY <2>1, <2>2, <2>3 DEF TeardownPcs
<1>17. ASSUME NEW c \in Contexts, TeardownDetach(c) PROVE GoneAndAttached'
  <2>1. \A d \in Contexts \ {c} : cmd[d].pc = "idle" /\ cmd'[d] = cmd[d]
    BY <1>17, <1>c DEF TeardownDetach, Goto, Finish, At
  <2>2. c \notin servers
    BY <1>17 DEF TeardownDetach, At, TeardownPcs
  <2>3. cmd'[c].pc # "pv_reaper" /\ servers' = servers
    BY <1>17, <1>c DEF TeardownDetach, Goto, Finish, Idle
  <2> QED
    BY <2>1, <2>2, <2>3 DEF TeardownPcs
<1>18. ASSUME NEW c \in Contexts, TeardownLB(c) PROVE GoneAndAttached'
  <2>1. \A d \in Contexts \ {c} : cmd[d].pc = "idle" /\ cmd'[d] = cmd[d]
    BY <1>18, <1>c DEF TeardownLB, Goto, At
  <2>2. c \notin servers
    BY <1>18 DEF TeardownLB, At, TeardownPcs
  <2>3. cmd'[c].pc # "pv_reaper" /\ servers' = servers
    BY <1>18, <1>c DEF TeardownLB, Goto
  <2> QED
    BY <2>1, <2>2, <2>3 DEF TeardownPcs
<1>19. ASSUME NEW c \in Contexts, TeardownCert(c) PROVE GoneAndAttached'
  <2>1. \A d \in Contexts \ {c} : cmd[d].pc = "idle" /\ cmd'[d] = cmd[d]
    BY <1>19, <1>c DEF TeardownCert, Goto, Finish, At
  <2>2. c \notin servers
    BY <1>19 DEF TeardownCert, At, TeardownPcs
  <2>3. cmd'[c].pc # "pv_reaper" /\ servers' = servers
    BY <1>19, <1>c DEF TeardownCert, Goto, Finish, Idle
  <2> QED
    BY <2>1, <2>2, <2>3 DEF TeardownPcs
<1>20. ASSUME NEW c \in Contexts, TeardownKey(c) PROVE GoneAndAttached'
  <2>1. \A d \in Contexts \ {c} : cmd[d].pc = "idle" /\ cmd'[d] = cmd[d]
    BY <1>20, <1>c DEF TeardownKey, Goto, At
  <2>2. c \notin servers /\ servers' = servers
    BY <1>20 DEF TeardownKey, At, TeardownPcs
  <2>3. cmd'[c].pc # "pv_reaper"
    BY <1>20, <1>c DEF TeardownKey, Goto
  <2> QED
    BY <2>1, <2>2, <2>3 DEF TeardownPcs
<1>21. ASSUME NEW c \in Contexts, TeardownState(c) PROVE GoneAndAttached'
  <2>1. \A d \in Contexts \ {c} : cmd[d].pc = "idle" /\ cmd'[d] = cmd[d]
    BY <1>21, <1>c DEF TeardownState, Finish, At
  <2>2. cmd'[c].pc \notin TeardownPcs \cup {"pv_reaper"}
    BY <1>21, <1>c DEF TeardownState, Finish, Idle, TeardownPcs
  <2> QED
    BY <2>1, <2>2 DEF TeardownPcs
<1>22. ASSUME NEW c \in Contexts, Fail(c) PROVE GoneAndAttached'
  <2>1. \A d \in Contexts \ {c} : cmd[d].pc = "idle" /\ cmd'[d] = cmd[d]
    BY <1>22, <1>c DEF Fail, Finish, At
  <2>2. cmd'[c].pc \notin TeardownPcs \cup {"pv_reaper"}
    BY <1>22, <1>c DEF Fail, Finish, Idle, TeardownPcs
  <2> QED
    BY <2>1, <2>2 DEF TeardownPcs
<1>23. ASSUME NEW c \in Contexts, ReaperCounts(c) PROVE GoneAndAttached'
  <2>1. cmd' = cmd /\ servers' = servers /\ cert' = cert
    BY <1>23 DEF ReaperCounts
  <2>2. c \in servers /\ reaper[c].pc = "sleeping"
    BY <1>23 DEF ReaperCounts, CloudInv, LBHeld
  <2>3. ASSUME NEW d \in Contexts, cmd[d].pc = "pv_reaper" PROVE lbCerts' = lbCerts
    <3>1. d \in servers /\ reaper[d].pc = "none"
      BY <2>3 DEF CloudInv, LBHeld, ProvisionPcs
    <3> QED
      BY <1>23, <2>2, <3>1, AtMostOne DEF ReaperCounts, CloudInv
  <2> QED
    BY <2>1, <2>2, <2>3
<1>24. ASSUME NEW c \in Contexts, ReaperDeletesServer(c) PROVE GoneAndAttached'
  BY <1>24, <1>c, <1>t DEF ReaperDeletesServer, ServerGoes, NoJob, counters
<1>25. ASSUME NEW c \in Contexts, PodFails(c) PROVE GoneAndAttached'
  BY <1>25, <1>c, <1>t DEF PodFails, cloud, counters
<1>26. ASSUME UNCHANGED vars PROVE GoneAndAttached'
  BY <1>26 DEF vars
<1> QED
  BY <1>1, <1>2, <1>3, <1>4, <1>5, <1>6, <1>7, <1>8, <1>9, <1>10, <1>11, <1>12, <1>13,
      <1>14, <1>15, <1>16, <1>17, <1>18, <1>19, <1>20, <1>21, <1>22, <1>23, <1>24,
      <1>25, <1>26 DEF Next, ProvisionStep, TeardownStep, ReaperStep, vars

\* The invariant of one command at a time.
LEMMA SequentialStep ==
    ASSUME busy = 1, CloudInv, SequentialInv, [Next]_vars
    PROVE  SequentialInv'
<1>1. OneAtATime'
  BY OneStep DEF CloudInv, SequentialInv
<1>2. IdsNamed'
  BY NamedStep DEF CloudInv, SequentialInv
<1>3. ViewsFresh'
  BY FreshStep DEF SequentialInv
<1> QED
  BY <1>1, <1>2, <1>3, ReadyStep, GoneStep DEF SequentialInv

\* Both invariants hold of the empty cloud.
LEMMA InitInv == Init => GroupInv /\ SequentialInv
<1> SUFFICES ASSUME Init PROVE GroupInv /\ SequentialInv
  OBVIOUS
<1> USE GroupBounds DEF Init, Idle, NoState, NoJob
<1>1. TypeOK
  BY DEF TypeOK, Command, State, Job, Pcs, Ids
<1>2. IdsFresh /\ KeyHeld /\ LBHeld /\ Uploaded = {} /\ ViewsOwned /\ LBOwned
  BY DEF IdsFresh, KeyHeld, LBHeld, ProvisionPcs, Uploaded, ViewsOwned, LBOwned
<1>3. SequentialInv
  BY DEF SequentialInv, OneAtATime, At, ViewsFresh, IdsNamed, GoneAndAttached, CertsAttached,
      TeardownPcs
<1> QED
  BY <1>1, <1>2, <1>3 DEF GroupInv, CloudInv

--------------------------------------------------------------------------------
\* The model's types, and with them that a load balancer that exists has a
\* certificate: whatever fails, however many commands run.
THEOREM GroupTypeCorrect == Spec => []TypeOK
<1>1. Init => CloudInv
  BY InitInv DEF GroupInv
<1>2. CloudInv /\ [Next]_vars => CloudInv'
  BY CloudStep
<1>3. CloudInv => TypeOK
  BY DEF CloudInv
<1> QED
  BY <1>1, <1>2, <1>3, PTL DEF Spec

\* However many members and commands there are, and whatever else fails or is
\* killed: if no command ends between the load balancer's creation and the save
\* of its id, each certificate on the load balancer can be taken off again
\* (hetzner.go:283-290, 422-461, lb.go:217-308).
THEOREM CertificatesAreOwned ==
    ASSUME "lbwindow" \notin Faults
    PROVE  Spec => []LBOwned
<1>1. Init => GroupInv
  BY InitInv
<1>2. GroupInv /\ [Next]_vars => GroupInv'
  BY GroupStep
<1>3. GroupInv => LBOwned
  BY DEF GroupInv
<1> QED
  BY <1>1, <1>2, <1>3, PTL DEF Spec

\* While operators take turns, any number of members and reapers, any failure:
\* a cluster that is up has its certificate on the load balancer (lb.go:62-65).
THEOREM SequentialKeepsCertificates == Spec => []CertOnLB
<1> DEFINE Inv == CloudInv /\ (busy = 1 => SequentialInv)
<1>1. Init => Inv
  BY InitInv DEF GroupInv
<1>2. Inv /\ [Next]_vars => Inv'
  <2> SUFFICES ASSUME Inv, [Next]_vars PROVE Inv'
    OBVIOUS
  <2>1. busy' = busy
    BY DEF Next, vars
  <2> QED
    BY <2>1, CloudStep, SequentialStep
<1>3. Inv => CertOnLB
  BY DEF SequentialInv, CertOnLB
<1> QED
  BY <1>1, <1>2, <1>3, PTL DEF Spec

================================================================================
