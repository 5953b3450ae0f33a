------------------------------ MODULE HetznerGroup ------------------------------
(****************************************************************************)
(* The hetzner provider's cloud resources: clusters (contexts) of one       *)
(* lb-group share a load balancer and its HTTPS certificate list.  Each     *)
(* context has a server, an ssh key, a certificate and a local sidecar with *)
(* the ids a teardown needs; its cluster runs a reaper Job that deletes the *)
(* server, and the load balancer with the last one, when its time is up.    *)
(*                                                                          *)
(* One step is one cloud API call with the local work up to the next one.   *)
(* A list of servers and the delete it decides are one step: what could     *)
(* come between, another member's server, is minutes of k3s install away    *)
(* from touching the load balancer.  Expiry may come at any time here;      *)
(* HetznerReaper has the clock.                                             *)
(****************************************************************************)
EXTENDS Integers, FiniteSets

CONSTANTS
    Contexts,       \* cluster names of the group
    Busy,           \* most CLI commands in progress at once, one per context
    Reapers,        \* contexts with lifetime.maxRun and onExpiry: teardown
    Faults,         \* subset of {"lbwindow", "pod"}
    MaxFailures,    \* bound on commands that fail or are killed
    MaxProvisions,  \* bound on provision commands
    MaxId           \* bound on ids the cloud hands out

\* lbwindow: commands also fail between the load balancer's creation and the
\* save of its id.  pod: the reaper's pod fails and starts again from the top.
ASSUME GroupContexts == IsFiniteSet(Contexts) /\ Reapers \subseteq Contexts
ASSUME GroupFaults   == Faults \subseteq {"lbwindow", "pod"}
ASSUME GroupBounds   == {Busy, MaxFailures, MaxProvisions, MaxId} \subseteq Nat

VARIABLES
    servers,    \* contexts whose server exists, all labelled with the group
    keys,       \* contexts whose SSHKey resource exists
    cert,       \* context -> id of its Certificate resource, 0 = none
    lb,         \* id of the group's load balancer, 0 = none
    lbCerts,    \* certificate ids of its HTTPS service
    sidecar,    \* context -> <context>.json
    reaper,     \* context -> its reaper Job
    ready,      \* history: contexts whose provision succeeded, until teardown or
                \* expiry begins
    nextId,     \* next id the cloud hands out
    provisions, \* provision commands begun so far
    failures,   \* commands failed or killed so far
    cmd,        \* context -> the command in progress for it
    busy        \* how many commands the operators run at once; 1: they take turns

counters == <<provisions, failures>>
cloud == <<servers, keys, cert, lb, lbCerts, nextId>>
vars  == <<servers, keys, cert, lb, lbCerts, sidecar, reaper, ready, nextId,
           provisions, failures, cmd, busy>>

Ids     == 1 .. MaxId
State   == [exists : BOOLEAN, cert : Ids \cup {0}, group : BOOLEAN, lb : Ids \cup {0}]
NoState == [exists |-> FALSE, cert |-> 0, group |-> FALSE, lb |-> 0]

ProvisionPcs == {"pv_key", "pv_server", "pv_save", "pv_install", "pv_cert",
                 "pv_certsave", "pv_lb", "pv_lbwait", "pv_lbsave", "pv_attach",
                 "pv_reaper"}
TeardownPcs  == {"td_server", "td_read", "td_detach", "td_lb", "td_cert",
                 "td_key", "td_state"}
LBWindow     == {"pv_lbwait", "pv_lbsave"}

\* st: the sidecar a teardown loaded; view: certificate ids read from the load
\* balancer; at: the load balancer they were read from.
Pcs     == {"idle"} \cup ProvisionPcs \cup TeardownPcs
Command == [pc : Pcs, st : State, view : SUBSET Ids, at : Ids \cup {0}]
Idle    == [pc |-> "idle", st |-> NoState, view |-> {}, at |-> 0]

Job   == [pc : {"none", "sleeping", "server"}, lb : Ids \cup {0}]
NoJob == [pc |-> "none", lb |-> 0]

TypeOK ==
    /\ servers \subseteq Contexts
    /\ keys \subseteq Contexts
    /\ cert \in [Contexts -> Ids \cup {0}]
    /\ lb \in Ids \cup {0}
    /\ lbCerts \subseteq Ids /\ (lbCerts = {} <=> lb = 0)
    /\ sidecar \in [Contexts -> State]
    /\ reaper \in [Contexts -> Job]
    /\ ready \subseteq servers
    /\ nextId \in 1 .. MaxId + 1
    /\ provisions \in 0 .. MaxProvisions
    /\ failures \in 0 .. MaxFailures
    /\ cmd \in [Contexts -> Command]
    /\ busy \in 1 .. Busy

Init ==
    /\ servers = {} /\ keys = {} /\ ready = {}
    /\ cert = [c \in Contexts |-> 0]
    /\ lb = 0 /\ lbCerts = {}
    /\ sidecar = [c \in Contexts |-> NoState]
    /\ reaper = [c \in Contexts |-> NoJob]
    /\ nextId = 1 /\ provisions = 0 /\ failures = 0
    /\ cmd = [c \in Contexts |-> Idle]
    /\ busy \in 1 .. Busy

--------------------------------------------------------------------------------
At(c, l)   == cmd[c].pc = l
Goto(c, l) == cmd' = [cmd EXCEPT ![c].pc = l]
Finish(c)  == cmd' = [cmd EXCEPT ![c] = Idle]

MayBegin(c) == At(c, "idle") /\ Cardinality({d \in Contexts : ~At(d, "idle")}) < busy

\* Certificate resources that exist.
Uploaded == {cert[d] : d \in Contexts} \ {0}

\* The server goes, and with it the pod that ran on it.
ServerGoes(c) ==
    /\ servers' = servers \ {c}
    /\ ready' = ready \ {c}
    /\ reaper' = [reaper EXCEPT ![c] = NoJob]

\* UpdateService(443): the whole list is replaced; the cloud refuses a load
\* balancer that is gone and a certificate that does not exist.
UpdateServiceWorks(id, list) == lb = id /\ list \subseteq Uploaded

MayFail(c) ==
    /\ failures < MaxFailures
    /\ cmd[c].pc \in LBWindow => "lbwindow" \in Faults

\* The command fails or is killed before its next step.
Fail(c) ==
    /\ ~At(c, "idle")
    /\ MayFail(c)
    /\ failures' = failures + 1
    /\ Finish(c)
    /\ UNCHANGED <<cloud, sidecar, reaper, ready, provisions>>

--------------------------------------------------------------------------------
(* Provision *)

\* Refuses a server that exists.
ProvisionBegin(c) ==
    /\ MayBegin(c)
    /\ provisions < MaxProvisions
    /\ c \notin servers
    /\ provisions' = provisions + 1
    /\ Goto(c, "pv_key")
    /\ UNCHANGED <<cloud, sidecar, reaper, ready, failures>>

\* mutant of ProvisionKey: the key of an earlier provision is replaced
ProvisionKeyRotates(c) ==
    /\ At(c, "pv_key")
    /\ keys' = keys \cup {c}
    /\ Goto(c, "pv_server")
    /\ UNCHANGED <<servers, cert, lb, lbCerts, sidecar, reaper, ready, nextId, counters>>

\* SSHKey.Create: names are unique, so what an earlier provision left behind
\* stops this one here.
ProvisionKey(c) ==
    /\ At(c, "pv_key")
    /\ IF c \in keys THEN Finish(c) ELSE Goto(c, "pv_server")
    /\ keys' = keys \cup {c}
    /\ UNCHANGED <<servers, cert, lb, lbCerts, sidecar, reaper, ready, nextId, counters>>

ProvisionServer(c) ==
    /\ At(c, "pv_server")
    /\ servers' = servers \cup {c}
    /\ Goto(c, "pv_save")
    /\ UNCHANGED <<keys, cert, lb, lbCerts, sidecar, reaper, ready, nextId, counters>>

\* Server.Create fails: the uploaded key is deleted again.
ProvisionServerFails(c) ==
    /\ At(c, "pv_server")
    /\ MayFail(c)
    /\ failures' = failures + 1
    /\ keys' = keys \ {c}
    /\ Finish(c)
    /\ UNCHANGED <<servers, cert, lb, lbCerts, sidecar, reaper, ready, nextId, provisions>>

\* The first sidecar names the server only.
ProvisionSave(c) ==
    /\ At(c, "pv_save")
    /\ sidecar' = [sidecar EXCEPT ![c] = [NoState EXCEPT !.exists = TRUE]]
    /\ Goto(c, "pv_install")
    /\ UNCHANGED <<cloud, reaper, ready, counters>>

\* ssh, k3s, kubeconfig, image preload.
ProvisionInstall(c) ==
    /\ At(c, "pv_install")
    /\ c \in servers
    /\ Goto(c, "pv_cert")
    /\ UNCHANGED <<cloud, sidecar, reaper, ready, counters>>

\* uploadCertificate refuses a name that exists.
ProvisionCert(c) ==
    /\ At(c, "pv_cert")
    /\ nextId \in Ids
    /\ IF cert[c] # 0
         THEN Finish(c) /\ UNCHANGED <<cert, nextId>>
         ELSE /\ cert' = [cert EXCEPT ![c] = nextId]
              /\ nextId' = nextId + 1
              /\ Goto(c, "pv_certsave")
    /\ UNCHANGED <<servers, keys, lb, lbCerts, sidecar, reaper, ready, counters>>

ProvisionCertSave(c) ==
    /\ At(c, "pv_certsave")
    /\ sidecar' = [sidecar EXCEPT ![c].cert = cert[c]]
    /\ Goto(c, "pv_lb")
    /\ UNCHANGED <<cloud, reaper, ready, counters>>

\* ensureLoadBalancer: reuse the group's, with the certificate list as read
\* now, or create one whose list is our certificate.
ProvisionLB(c) ==
    /\ At(c, "pv_lb")
    /\ IF lb # 0
         THEN /\ cmd' = [cmd EXCEPT ![c].pc = "pv_lbsave", ![c].at = lb, ![c].view = lbCerts]
              /\ UNCHANGED <<lb, lbCerts, nextId>>
         ELSE /\ nextId \in Ids
              /\ lb' = nextId
              /\ lbCerts' = {cert[c]}
              /\ nextId' = nextId + 1
              /\ cmd' = [cmd EXCEPT ![c].pc = "pv_lbwait", ![c].at = nextId]
    /\ UNCHANGED <<servers, keys, cert, sidecar, reaper, ready, counters>>

\* The created load balancer is read again; gone by then is an error.
ProvisionLBWait(c) ==
    /\ At(c, "pv_lbwait")
    /\ IF lb = cmd[c].at
         THEN cmd' = [cmd EXCEPT ![c].pc = "pv_lbsave", ![c].view = lbCerts]
         ELSE Finish(c)
    /\ UNCHANGED <<cloud, sidecar, reaper, ready, counters>>

\* Only now does the sidecar name the group and the load balancer.
ProvisionLBSave(c) ==
    /\ At(c, "pv_lbsave")
    /\ sidecar' = [sidecar EXCEPT ![c].group = TRUE, ![c].lb = cmd[c].at]
    /\ Goto(c, "pv_attach")
    /\ UNCHANGED <<cloud, reaper, ready, counters>>

\* attachCertificateToLB: merge into the list read before and write it back.
ProvisionAttach(c) ==
    /\ At(c, "pv_attach")
    /\ LET merged == cmd[c].view \cup {cert[c]} IN
         IF merged # cmd[c].view /\ ~UpdateServiceWorks(cmd[c].at, merged)
           THEN Finish(c) /\ UNCHANGED lbCerts
           ELSE /\ lbCerts' = IF merged = cmd[c].view THEN lbCerts ELSE merged
                /\ Goto(c, "pv_reaper")
    /\ UNCHANGED <<servers, keys, cert, lb, sidecar, reaper, ready, nextId, counters>>

\* Envoy Gateway, then the reaper Job if a lifetime is configured.
ProvisionReaper(c) ==
    /\ At(c, "pv_reaper")
    /\ c \in servers
    /\ reaper' = IF c \in Reapers
                   THEN [reaper EXCEPT ![c] = [pc |-> "sleeping", lb |-> cmd[c].at]]
                   ELSE reaper
    /\ ready' = ready \cup {c}
    /\ Finish(c)
    /\ UNCHANGED <<cloud, sidecar, counters>>

--------------------------------------------------------------------------------
(* Teardown.  A missing resource is not an error anywhere. *)

TeardownBegin(c) ==
    /\ MayBegin(c)
    /\ cmd' = [cmd EXCEPT ![c].pc = "td_server", ![c].st = sidecar[c]]
    /\ UNCHANGED <<cloud, sidecar, reaper, ready, counters>>

TeardownServer(c) ==
    /\ At(c, "td_server")
    /\ ServerGoes(c)
    /\ Goto(c, "td_read")
    /\ UNCHANGED <<keys, cert, lb, lbCerts, sidecar, nextId, counters>>

\* The load balancer and the group's servers are read: a load balancer that
\* stays has our certificate detached.
TeardownRead(c) ==
    /\ At(c, "td_read")
    /\ LET st == cmd[c].st IN
         IF /\ st.cert # 0 /\ st.lb # 0 /\ st.lb = lb
            /\ servers # {}
            /\ st.cert \in lbCerts
           THEN cmd' = [cmd EXCEPT ![c].pc = "td_detach", ![c].at = lb, ![c].view = lbCerts]
           ELSE Goto(c, "td_lb")
    /\ UNCHANGED <<cloud, sidecar, reaper, ready, counters>>

\* detachCertificateFromLB: the list read before, without ours, is written
\* back; an HTTPS service cannot be left without a certificate.
TeardownDetach(c) ==
    /\ At(c, "td_detach")
    /\ LET remaining == cmd[c].view \ {cmd[c].st.cert} IN
         \/ remaining = {} /\ UNCHANGED lbCerts /\ Goto(c, "td_lb")
         \/ /\ remaining # {}
            /\ UpdateServiceWorks(cmd[c].at, remaining)
            /\ lbCerts' = remaining
            /\ Goto(c, "td_lb")
         \/ /\ remaining # {}
            /\ ~UpdateServiceWorks(cmd[c].at, remaining)
            /\ UNCHANGED lbCerts
            /\ Finish(c)
    /\ UNCHANGED <<servers, keys, cert, lb, sidecar, reaper, ready, nextId, counters>>

\* mutant of TeardownLB: the group's other servers are not counted
TeardownLBAlways(c) ==
    /\ At(c, "td_lb")
    /\ IF cmd[c].st.group THEN lb' = 0 /\ lbCerts' = {} ELSE UNCHANGED <<lb, lbCerts>>
    /\ Goto(c, "td_cert")
    /\ UNCHANGED <<servers, keys, cert, sidecar, reaper, ready, nextId, counters>>

\* deleteLBIfEmpty: nothing for a sidecar without a group; by id, else by name.
TeardownLB(c) ==
    /\ At(c, "td_lb")
    /\ IF cmd[c].st.group /\ servers = {}
         THEN lb' = 0 /\ lbCerts' = {}
         ELSE UNCHANGED <<lb, lbCerts>>
    /\ Goto(c, "td_cert")
    /\ UNCHANGED <<servers, keys, cert, sidecar, reaper, ready, nextId, counters>>

\* mutant of TeardownCert: a refused delete is only warned about
TeardownCertWarns(c) ==
    /\ At(c, "td_cert")
    /\ cert' = IF cert[c] \in lbCerts THEN cert ELSE [cert EXCEPT ![c] = 0]
    /\ Goto(c, "td_key")
    /\ UNCHANGED <<servers, keys, lb, lbCerts, sidecar, reaper, ready, nextId, counters>>

\* Found by id or by name.  The cloud refuses to delete one that is in use.
TeardownCert(c) ==
    /\ At(c, "td_cert")
    /\ IF cert[c] \in lbCerts
         THEN Finish(c) /\ UNCHANGED cert
         ELSE Goto(c, "td_key") /\ cert' = [cert EXCEPT ![c] = 0]
    /\ UNCHANGED <<servers, keys, lb, lbCerts, sidecar, reaper, ready, nextId, counters>>

TeardownKey(c) ==
    /\ At(c, "td_key")
    /\ keys' = keys \ {c}
    /\ Goto(c, "td_state")
    /\ UNCHANGED <<servers, cert, lb, lbCerts, sidecar, reaper, ready, nextId, counters>>

TeardownState(c) ==
    /\ At(c, "td_state")
    /\ sidecar' = [sidecar EXCEPT ![c] = NoState]
    /\ Finish(c)
    /\ UNCHANGED <<cloud, reaper, ready, counters>>

--------------------------------------------------------------------------------
(* The reaper Job of c, after its sleep: the load balancer with the last     *)
(* member, then its own server.                                              *)

ReaperCounts(c) ==
    /\ reaper[c].pc = "sleeping"
    /\ IF Cardinality(servers) <= 1 /\ lb = reaper[c].lb
         THEN lb' = 0 /\ lbCerts' = {}
         ELSE UNCHANGED <<lb, lbCerts>>
    /\ reaper' = [reaper EXCEPT ![c].pc = "server"]
    /\ ready' = ready \ {c}
    /\ UNCHANGED <<servers, keys, cert, sidecar, nextId, counters, cmd>>

ReaperDeletesServer(c) ==
    /\ reaper[c].pc = "server"
    /\ ServerGoes(c)
    /\ UNCHANGED <<keys, cert, lb, lbCerts, sidecar, nextId, counters, cmd>>

\* A pod that failed or lost its node runs the script from the top.
PodFails(c) ==
    /\ "pod" \in Faults
    /\ reaper[c].pc = "server"
    /\ reaper' = [reaper EXCEPT ![c].pc = "sleeping"]
    /\ UNCHANGED <<cloud, sidecar, ready, counters, cmd>>

--------------------------------------------------------------------------------
ProvisionStep(c) ==
    \/ ProvisionKey(c) \/ ProvisionServer(c) \/ ProvisionServerFails(c)
    \/ ProvisionSave(c) \/ ProvisionInstall(c) \/ ProvisionCert(c)
    \/ ProvisionCertSave(c) \/ ProvisionLB(c) \/ ProvisionLBWait(c)
    \/ ProvisionLBSave(c) \/ ProvisionAttach(c) \/ ProvisionReaper(c)

TeardownStep(c) ==
    \/ TeardownServer(c) \/ TeardownRead(c) \/ TeardownDetach(c)
    \/ TeardownLB(c) \/ TeardownCert(c) \/ TeardownKey(c) \/ TeardownState(c)

ReaperStep(c) == ReaperCounts(c) \/ ReaperDeletesServer(c)

Next ==
    /\ \E c \in Contexts :
          \/ ProvisionBegin(c) \/ TeardownBegin(c)
          \/ ProvisionStep(c) \/ TeardownStep(c) \/ Fail(c)
          \/ ReaperStep(c) \/ PodFails(c)
    /\ UNCHANGED busy

Spec == Init /\ [][Next]_vars

\* A command in progress goes on or fails, and operators come back to every
\* context's teardown; where they take turns, each gets one time and again.
OperatorFairness ==
    \A c \in Contexts :
        /\ WF_vars((ProvisionStep(c) \/ TeardownStep(c) \/ Fail(c)) /\ UNCHANGED busy)
        /\ SF_vars(TeardownBegin(c) /\ UNCHANGED busy)

FairSpec == Spec /\ OperatorFairness

--------------------------------------------------------------------------------
(* Properties *)

\* Whoever put a certificate on the load balancer can take it off again: its
\* context's sidecar has the certificate's id and the group, or the provision
\* that created the load balancer is about to save it.  Without them a
\* teardown skips detach and load balancer, and its certificate delete is
\* refused forever (hetzner.go:422-483, lb.go:341-350).  The ssh key's unique
\* name is what keeps a later provision from overwriting that sidecar.
Owned(i) == \E c \in Contexts :
    /\ cert[c] = i
    /\ \/ sidecar[c].cert = i /\ sidecar[c].group
       \/ cmd[c].pc \in LBWindow
LBOwned == \A i \in lbCerts : Owned(i)

\* While operators take turns, a cluster that is up has its certificate on the
\* group's load balancer: no other member's provision, teardown or expiry takes
\* it away (lb.go:62-65, hetzner.go:422-461).  Commands at once do: the list is
\* replaced by one computed from an earlier read (lb.go:235).
CertsAttached == \A c \in ready : cert[c] \in lbCerts
CertOnLB == busy = 1 => CertsAttached

\* With an operator who repeats teardown, whatever failed or was killed on the
\* way, in the end nothing of the group is left in the cloud (hetzner.go:391-393).
EverythingGoes == <>[](servers = {} /\ keys = {} /\ Uploaded = {} /\ lb = 0)

--------------------------------------------------------------------------------
(* The inductive invariants, by part. *)

\* Ids are never used twice.
IdsFresh ==
    /\ \A c, d \in Contexts : cert[c] = cert[d] /\ cert[c] # 0 => c = d
    /\ \A c \in Contexts : /\ cert[c] < nextId
                          /\ \A i \in cmd[c].view : i < nextId

\* The key is there from before the certificate is made until after it is gone,
\* so a provision that got past its key has no certificate yet.
KeyHeld == \A c \in Contexts :
    /\ cert[c] # 0 => c \in keys
    /\ cmd[c].pc \in ProvisionPcs \ {"pv_key"} => c \in keys
    /\ cmd[c].pc \in {"pv_server", "pv_save", "pv_install", "pv_cert", "td_key", "td_state"}
         => cert[c] = 0
    /\ cmd[c].pc \in {"pv_certsave", "pv_lb", "pv_lbwait", "pv_lbsave", "pv_attach"}
         => cert[c] # 0
    /\ cmd[c].pc \in {"pv_lb", "pv_lbwait", "pv_lbsave", "pv_attach"}
         => sidecar[c].cert = cert[c]
    /\ cmd[c].pc = "pv_attach" => sidecar[c].group

\* A provision's own server keeps the load balancer it found or made alive.
LBHeld == \A c \in Contexts :
    /\ cmd[c].pc \in {"pv_key", "pv_server"} => c \notin servers
    /\ cmd[c].pc \in ProvisionPcs \ {"pv_key", "pv_server"}
         => c \in servers /\ reaper[c].pc = "none"
    /\ cmd[c].pc \in {"pv_lbwait", "pv_lbsave", "pv_attach"} => lb = cmd[c].at /\ lb # 0
    /\ cmd[c].pc = "td_detach" => cmd[c].at # 0
    /\ reaper[c].pc # "none" => c \in servers

\* What a command read from the load balancer and may write back is owned, or
\* does not exist any more and is refused.
ViewsOwned == \A c \in Contexts :
    cmd[c].pc \in {"pv_lbsave", "pv_attach", "td_detach"}
      => \A i \in cmd[c].view \cap Uploaded : Owned(i)

\* Whatever fails and however many commands run.
CloudInv == TypeOK /\ IdsFresh /\ KeyHeld /\ LBHeld /\ lbCerts \subseteq Uploaded

\* Why LBOwned holds (hetzner.go:283-290, lb.go:217-308): unless a command is
\* cut short in the window.
GroupInv == CloudInv /\ ViewsOwned /\ LBOwned

\* With one command at a time the list written back is the one that is there.
ViewsFresh == \A c \in Contexts :
    /\ cmd[c].pc \in {"pv_lbsave", "pv_attach"} => cmd[c].view = lbCerts
    /\ cmd[c].pc = "td_detach" /\ cmd[c].at = lb => cmd[c].view = lbCerts

\* The id a sidecar has, or had when a teardown loaded it, is nobody else's.
IdsNamed == \A c, d \in Contexts :
    \A i \in {sidecar[c].cert, cmd[c].st.cert} :
        i < nextId /\ (i # 0 /\ i = cert[d] => d = c)

OneAtATime == \A c, d \in Contexts : ~At(c, "idle") /\ ~At(d, "idle") => c = d

\* Why CertOnLB holds with one command at a time: a provision ends with its
\* certificate attached, a teardown detaches only its own and only after its
\* server is gone (hetzner.go:288-389, 409-461).
GoneAndAttached == \A c \in Contexts :
    /\ cmd[c].pc = "pv_reaper" => cert[c] \in lbCerts
    /\ cmd[c].pc \in TeardownPcs \ {"td_server"} => c \notin servers
SequentialInv == OneAtATime /\ ViewsFresh /\ IdsNamed /\ GoneAndAttached /\ CertsAttached

================================================================================
