----------------------------- MODULE GatewayState -----------------------------
(****************************************************************************)
(* gateway state, gateway hostnames, gateway clear-dns-hint-ip and the live *)
(* phase of prepare-export (pkg/gateway state.go, fetch.go, envoy.go;       *)
(* cmd/y-cluster/gateway.go): one kubectl after another against a cluster   *)
(* that changes under them, and at the end a look into an envoy proxy       *)
(* through a port-forward that must not outlive the command.                *)
(****************************************************************************)
EXTENDS GatewaySummary

CONSTANTS
    Slots,          \* commands that may run at one time
    VerbsOf,        \* what each of them may be
    Classes,        \* GatewayClasses, by name: numbers, as they sort
    Ours,           \* those of envoy-gateway's controller
    Tables,         \* per kind, the lists of objects a cluster may hold
    Editable,       \* per kind, the lists an edit may lead to
    MaxEdits,       \* changes of the cluster by others
    MaxCommands,    \* commands started
    Faults          \* subset of {"kubectl", "forward", "interrupt"}

\* Class 0 is no class, and slot 0 is everybody else.
ASSUME GatewayAssumption ==
    /\ Ours \subseteq Classes /\ Classes \subseteq Nat \ {0} /\ IsFiniteSet(Classes)
    /\ 0 \notin Slots
    /\ MaxEdits \in Nat /\ MaxCommands \in Nat

Kinds == {"gateway", "httproute", "grpcroute", "policy"}

ASSUME TablesAssumption ==
    \A k \in Kinds : DOMAIN Tables[k] \subseteq Nat /\ Editable[k] \subseteq DOMAIN Tables[k]

\* The API server keeps one object of a name in a namespace, and one status per
\* listener.
ASSUME ObjectsAssumption ==
    /\ Tables \in [gateway   : Seq(Seq(Gateways)), httproute : Seq(Seq(Routes)),
                   grpcroute : Seq(Seq(Routes)),   policy    : Seq(Seq(Policies))]
    /\ \A k \in Kinds : \A n \in DOMAIN Tables[k] :
          \A i, j \in DOMAIN Tables[k][n] :
             Tables[k][n][i].ns = Tables[k][n][j].ns /\ Tables[k][n][i].name = Tables[k][n][j].name
               => i = j
    /\ \A n \in DOMAIN Tables.gateway : \A gw \in ToSet(Tables.gateway[n]) :
          \A i, j \in DOMAIN gw.status : gw.status[i].name = gw.status[j].name => i = j

VARIABLES
    api,        \* "none" | "gateway" | "full": which CRDs are there
    class,      \* [Classes -> {"absent", "plain", "hinted"}]
    held,       \* per kind, which list of Tables the cluster holds
    cmd,        \* per slot, the command in it
    edits, started

vars == <<api, class, held, cmd, edits, started>>

Nothing == [k \in Kinds |-> 0]

\* quiet: nobody else changed the cluster since the command began; reapplied:
\* a class got its hint (back) meanwhile.  failed: calls that failed.
NoCommand == [verb |-> "none", pc |-> "idle", result |-> "none", name |-> 0, todo |-> {},
              class |-> 0, hinted |-> FALSE, read |-> Nothing,
              envoy |-> FALSE, forward |-> FALSE,
              quiet |-> TRUE, reapplied |-> FALSE, failed |-> {}]

\* gateway.skip, an implementation other than envoy-gateway, the bundled one.
Init ==
    /\ \E p \in {<<"none", "absent">>, <<"gateway", "plain">>, <<"full", "hinted">>} :
         api = p[1] /\ class = [c \in Classes |-> p[2]]
    /\ held \in [gateway : DOMAIN Tables.gateway, httproute : DOMAIN Tables.httproute,
                 grpcroute : DOMAIN Tables.grpcroute, policy : DOMAIN Tables.policy]
    /\ cmd = [i \in Slots |-> NoCommand]
    /\ edits = 0 /\ started = 0

Running(i) == cmd[i].pc \notin {"idle", "done"}

\* The slots after slot by has changed the cluster.
Noticed(by, hint) ==
    [j \in Slots |->
       IF j = by THEN cmd[j]
       ELSE [cmd[j] EXCEPT !.quiet = FALSE, !.reapplied = @ \/ hint]]

--------------------------------------------------------------------------------
(* The cluster *)

Edits == edits < MaxEdits /\ edits' = edits + 1 /\ UNCHANGED started

\* kubectl apply or delete of the objects of one kind.
Edit(k) ==
    /\ Edits /\ api # "none"
    /\ \E n \in Editable[k] :
         /\ n # held[k]
         /\ held' = [held EXCEPT ![k] = n]
    /\ cmd' = Noticed(0, FALSE)
    /\ UNCHANGED <<api, class>>

\* platform install: the CRDs, and the class with its hint.
InstallPlatform(c) ==
    /\ Edits
    /\ api' = "full"
    /\ class' = [class EXCEPT ![c] = "hinted"]
    /\ cmd' = Noticed(0, TRUE)
    /\ UNCHANGED held

DeleteClass(c) ==
    /\ Edits
    /\ class[c] # "absent"
    /\ class' = [class EXCEPT ![c] = "absent"]
    /\ cmd' = Noticed(0, FALSE)
    /\ UNCHANGED <<api, held>>

Cluster == \/ \E k \in Kinds : Edit(k)
           \/ \E c \in Classes : InstallPlatform(c) \/ DeleteClass(c)

--------------------------------------------------------------------------------
(* Commands *)

Begin(i) ==
    /\ ~Running(i)
    /\ started < MaxCommands /\ started' = started + 1
    /\ \E v \in VerbsOf[i], c \in Classes :
         /\ v # "clear" => c = CHOOSE d \in Classes : TRUE
         /\ cmd' = [cmd EXCEPT ![i] =
              [NoCommand EXCEPT !.verb = v, !.name = c,
                 !.pc = CASE v = "clear" -> "describe" [] v = "prepare" -> "list"
                          [] OTHER -> "class"]]
    /\ UNCHANGED <<api, class, held, edits>>

Is(i, pc) == cmd[i].pc = pc
To(i, c) == cmd' = [cmd EXCEPT ![i] = c]
Ended(i, result) == [cmd[i] EXCEPT !.pc = "done", !.result = result]
Fails(i) == To(i, [Ended(i, "error") EXCEPT !.failed = @ \cup {cmd[i].pc}])
NoEffect == UNCHANGED <<api, class, held, edits, started>>

\* kubectl gave no answer: the apiserver is away, or the context is canceled.
kubectlFails(i) == "kubectl" \in Faults /\ Fails(i) /\ NoEffect

(* Hints *)

Hinted == {c \in Classes : class[c] = "hinted"}

\* ClearDNSHintIPAnnotations; no Gateway API, nothing to clear.
ListHinted(i) ==
    /\ Is(i, "list")
    /\ \/ To(i, [cmd[i] EXCEPT !.pc = "patch", !.todo = Hinted]) /\ NoEffect
       \/ kubectlFails(i)

\* Mutant: clear-dns-hint-ip takes a class that is not there for a plain one.
DescribeLenient(i) ==
    /\ Is(i, "describe")
    /\ To(i, IF class[cmd[i].name] = "hinted"
             THEN [cmd[i] EXCEPT !.pc = "patch", !.todo = {cmd[i].name}]
             ELSE Ended(i, "ok"))
    /\ NoEffect

\* ClearDNSHintIPAnnotation looks first: a class without the hint is left
\* alone, one that is not there is an error.
Describe(i) ==
    /\ Is(i, "describe")
    /\ LET c == cmd[i].name
       IN \/ class[c] = "hinted"
             /\ To(i, [cmd[i] EXCEPT !.pc = "patch", !.todo = {c}]) /\ NoEffect
          \/ class[c] = "plain" /\ To(i, Ended(i, "ok")) /\ NoEffect
          \/ class[c] = "absent" /\ Fails(i) /\ NoEffect
          \/ kubectlFails(i)

\* A JSON patch: removing what is not there fails.
patchAnnotationRemove(i) ==
    /\ Is(i, "patch")
    /\ \/ \E c \in cmd[i].todo :
            /\ \A d \in cmd[i].todo : c <= d
            /\ IF class[c] = "hinted"
               THEN /\ class' = [class EXCEPT ![c] = "plain"]
                    /\ cmd' = [Noticed(i, FALSE) EXCEPT ![i].todo = @ \ {c}]
                    /\ UNCHANGED <<api, held, edits, started>>
               ELSE Fails(i) /\ NoEffect
       \/ cmd[i].todo # {} /\ kubectlFails(i)
       \/ /\ cmd[i].todo = {}
          /\ To(i, IF cmd[i].verb = "clear" THEN Ended(i, "ok")
                   ELSE [cmd[i] EXCEPT !.pc = "class"])
          /\ NoEffect

(* Fetch *)

\* The first class of envoy-gateway, or none yet; no such kind: ErrNoGatewayAPI.
fetchGatewayClass(i) ==
    /\ Is(i, "class")
    /\ LET there == {c \in Ours : class[c] # "absent"}
           first == CHOOSE c \in there : \A d \in there : c <= d
       IN \/ api = "none" /\ To(i, Ended(i, "noapi")) /\ NoEffect
          \/ /\ api # "none"
             /\ To(i, [cmd[i] EXCEPT !.pc = "gateway",
                         !.class = IF there = {} THEN 0 ELSE first,
                         !.hinted = there # {} /\ class[first] = "hinted"])
             /\ NoEffect
          \/ kubectlFails(i)

\* What kubectl's message tells of a kind.
Served(k) == IF k = "policy" THEN api = "full" ELSE api # "none"

\* One kind; without its CRD the policies are none, and any other list an error.
Get(i, k, next) ==
    /\ Is(i, k)
    /\ \/ Served(k) /\ To(i, [cmd[i] EXCEPT !.pc = next, !.read[k] = held[k]]) /\ NoEffect
       \/ ~Served(k) /\ k = "policy" /\ To(i, [cmd[i] EXCEPT !.pc = next]) /\ NoEffect
       \/ ~Served(k) /\ k # "policy" /\ Fails(i) /\ NoEffect
       \/ kubectlFails(i)

fetchGateways(i)   == Get(i, "gateway", "httproute")
fetchHTTPRoutes(i) == Get(i, "httproute", "grpcroute")
fetchGRPCRoutes(i) == Get(i, "grpcroute", "policy")

\* Mutant: any failure to list the policies reads as "there are none".
PoliciesLenient(i) ==
    /\ Is(i, "policy")
    /\ To(i, [cmd[i] EXCEPT !.pc = "backend",
                 !.read.policy = IF "kubectl" \in Faults THEN 0 ELSE held.policy])
    /\ NoEffect

fetchClientTrafficPolicies(i) == Get(i, "policy", "backend")

\* BackendTrafficPolicies are listed too and end up in no summary.
fetchBackendTrafficPolicies(i) ==
    /\ Is(i, "backend")
    /\ \/ To(i, [cmd[i] EXCEPT !.pc = "pods"]) /\ NoEffect
       \/ kubectlFails(i)

(* What a snapshot says, for every combination of lists that may be read *)

Reads == [gateway : 0..Len(Tables.gateway), httproute : 0..Len(Tables.httproute),
          grpcroute : 0..Len(Tables.grpcroute), policy : 0..Len(Tables.policy)]

Slice(read, k) == IF read[k] = 0 THEN <<>> ELSE SortedByName(Tables[k][read[k]])
Slices    == [r \in Reads |-> [k \in Kinds |-> Slice(r, k)]]
Summaries == [r \in Reads |-> BuildSummary(Slices[r])]

(* FetchEnvoy: whatever happens here, Fetch succeeds. *)

WithoutEnvoy(i) == To(i, [Ended(i, "ok") EXCEPT !.forward = FALSE]) /\ NoEffect

pickEnvoyProxyPod(i) ==
    /\ Is(i, "pods")
    /\ \/ To(i, [cmd[i] EXCEPT !.pc = "forward", !.forward = TRUE]) /\ NoEffect
       \/ WithoutEnvoy(i)                     \* none is running, or kubectl fails

\* kubectl prints the port; or it exits, or fifteen seconds pass.
startEnvoyAdminPortForward(i) ==
    /\ Is(i, "forward")
    /\ \/ To(i, [cmd[i] EXCEPT !.pc = "info"]) /\ NoEffect
       \/ "forward" \in Faults /\ WithoutEnvoy(i)

\* Mutant: the port-forward is canceled at the end of FetchEnvoy only.
ServerInfoLeaks(i) ==
    /\ Is(i, "info")
    /\ \/ To(i, [cmd[i] EXCEPT !.pc = "dump"]) /\ NoEffect
       \/ To(i, Ended(i, "ok")) /\ NoEffect

ServerInfo(i) ==
    /\ Is(i, "info")
    /\ \/ To(i, [cmd[i] EXCEPT !.pc = "dump"]) /\ NoEffect
       \/ "forward" \in Faults /\ WithoutEnvoy(i)

ConfigDump(i) ==
    /\ Is(i, "dump")
    /\ \/ To(i, [Ended(i, "ok") EXCEPT !.envoy = TRUE, !.forward = FALSE]) /\ NoEffect
       \/ "forward" \in Faults /\ WithoutEnvoy(i)

\* Ctrl-C cancels the context: the call in flight fails, and those that follow
\* within FetchEnvoy with it.
Interrupt(i) ==
    /\ "interrupt" \in Faults
    /\ IF cmd[i].pc \in {"pods", "forward", "info", "dump"} THEN WithoutEnvoy(i)
       ELSE Running(i) /\ Fails(i) /\ NoEffect

Fetch(i) == \/ fetchGatewayClass(i) \/ fetchGateways(i) \/ fetchHTTPRoutes(i)
            \/ fetchGRPCRoutes(i) \/ fetchClientTrafficPolicies(i)
            \/ fetchBackendTrafficPolicies(i)
            \/ pickEnvoyProxyPod(i) \/ startEnvoyAdminPortForward(i)
            \/ ServerInfo(i) \/ ConfigDump(i)
Clear(i) == ListHinted(i) \/ Describe(i) \/ patchAnnotationRemove(i)
Command(i) == Clear(i) \/ Fetch(i)

Next == \/ Cluster
        \/ \E i \in Slots : Begin(i) \/ Command(i) \/ Interrupt(i)

Spec == Init /\ [][Next]_vars

--------------------------------------------------------------------------------
(* Properties *)

\* A command holds what its next call needs and nothing of a later one
\* (state.go, Fetch; patches are all made before anything is read).
TypeOK ==
    /\ api \in {"none", "gateway", "full"}
    /\ class \in [Classes -> {"absent", "plain", "hinted"}]
    /\ \A k \in Kinds : held[k] \in DOMAIN Tables[k]
    /\ \A i \in Slots :
         LET c == cmd[i]
         IN /\ c.verb = "none" \/ c.verb \in VerbsOf[i]
            /\ c.result \in {"none", "ok", "noapi", "error"}
            /\ (c.result = "none") = (c.pc # "done")
            /\ c.todo \subseteq Classes
            /\ c.todo # {} => c.pc = "patch" \/ c.result = "error"
            /\ \A k \in Kinds : c.read[k] = 0 \/ c.read[k] \in DOMAIN Tables[k]
            /\ c.hinted => c.class \in Ours

\* The snapshots that a command prints or saves.
Printed(i) == cmd[i].result = "ok" /\ cmd[i].verb # "clear"

\* A reference means every listener that agrees with it in each field it gives.
Means(ref, own, gw, l) ==
    /\ ref.kind # "" => ref.kind = "Gateway"
    /\ <<gw.ns, gw.name>> = <<IF ref.ns # 0 THEN ref.ns ELSE own, ref.name>>
    /\ ref.section # 0 => ref.section = l.name

Reached(r, gw, l) ==
    {i \in DOMAIN r.parentRefs :
       Means(r.parentRefs[i], r.ns, gw, l)
         /\ (r.parentRefs[i].port # 0 => r.parentRefs[i].port = l.port)} # {}

\* Where in its list of hosts a route declares h.
Declares(r, h) == {k \in DOMAIN r.hostnames : r.hostnames[k] = h}
                    \cup (IF h = CatchAll /\ r.hostnames = <<>> THEN {1} ELSE {})

\* The rules due at host h of a listener, whatever the order: each as often as
\* its route declares h.
RulesAt(s, gw, l, h) ==
    LET of(kind, routes) ==
          UNION {{<<kind, r.ns, r.name, n - 1, k>> : n \in DOMAIN r.rules, k \in Declares(r, h)} :
                   r \in {t \in ToSet(routes) : Reached(t, gw, l)}}
    IN of("HTTPRoute", s.httproute) \cup of("GRPCRoute", s.grpcroute)

RuleOf(due) == <<due[1], due[2], due[3], due[4]>>
Id(x) == <<x.kind, x.ns, x.name, x.rule>>

\* A bucket has the rules that are due, each as often as it is.
BucketExact(b, due) ==
    \A x \in {Id(b[j]) : j \in DOMAIN b} \cup {RuleOf(e) : e \in due} :
       Cardinality({j \in DOMAIN b : Id(b[j]) = x}) = Cardinality({e \in due : RuleOf(e) = x})

AllHosts(s) == {CatchAll} \cup
    UNION {ToSet(r.hostnames) : r \in ToSet(s.httproute) \cup ToSet(s.grpcroute)}

\* The policy a listener gets its settings from: none that also applies and
\* sets something comes before it by name.
PolicyOf(s, gw, l, p) ==
    LET candidates == {q \in ToSet(s.policy) :
            q.xff # NoSetting /\ \E i \in DOMAIN extractTargetRefs(q) :
                                   Means(extractTargetRefs(q)[i], q.ns, gw, l)}
    IN p \in candidates /\ \A q \in candidates : q # p => Before(p, q)

RowExact(s, gw, l, row) ==
    /\ row.programmed = (\E i \in DOMAIN gw.status : gw.status[i].name = l.name
                                                       /\ gw.status[i].programmed)
    /\ IF \E p \in ToSet(s.policy) : PolicyOf(s, gw, l, p)
       THEN \E p \in ToSet(s.policy) : PolicyOf(s, gw, l, p) /\ row.xff = p.xff
       ELSE row.xff = NoSetting
    /\ \A i, j \in DOMAIN row.hosts : i < j =>
         row.hosts[j].hostname = CatchAll \/ row.hosts[i].hostname < row.hosts[j].hostname
    /\ {row.hosts[i].hostname : i \in DOMAIN row.hosts} =
         {h \in AllHosts(s) : RulesAt(s, gw, l, h) # {}}
    /\ \A i \in DOMAIN row.hosts :
         BucketExact(row.hosts[i].routes, RulesAt(s, gw, l, row.hosts[i].hostname))

IsExact(s, summary) ==
    LET all == UNION {{<<g, n>> : n \in DOMAIN s.gateway[g].listeners} : g \in DOMAIN s.gateway}
    IN /\ Len(summary) = Cardinality(all)
       /\ \A x \in all :
            LET gw == s.gateway[x[1]]  l == gw.listeners[x[2]]
            IN \E r \in ToSet(summary) :
                 r.gateway = <<gw.ns, gw.name>> /\ r.name = l.name /\ RowExact(s, gw, l, r)
Exact == [r \in Reads |-> IsExact(Slices[r], Summaries[r])]

Complete(s, hosts) ==
    /\ \A j, k \in DOMAIN hosts : j < k => hosts[j] < hosts[k]
    /\ ToSet(hosts) = {h \in AllHosts(s) \ {CatchAll} :
                         \E g \in ToSet(s.gateway) : \E l \in ToSet(g.listeners) :
                           RulesAt(s, g, l, h) # {}}
NoneMissing == [r \in Reads |-> Complete(Slices[r], Hostnames(Summaries[r]))]

\* The summary has one row per listener, in it every rule that attaches, under
\* each host of its route as often as the route names it (summary.go, addRoute),
\* and the settings of the one policy that comes first -- in whatever order the
\* cluster listed them and whichever reference fields were left out (summary.go,
\* BuildSummary; "deterministic"); gateway hostnames prints every host that the
\* routes are served under, ascending, each once: a certificate made from the
\* list has no gap (hostnames.go; cmd/y-cluster/gateway.go, "so the cert and the
\* routes can't drift").
SummaryExact == \A i \in Slots : Printed(i) => Exact[cmd[i].read] /\ NoneMissing[cmd[i].read]

\* A snapshot of a cluster that nobody changed meanwhile is that cluster: no
\* failed call passes for an empty list, and no missing CRD nor anything around
\* the proxy pod for a failure (fetch.go, isNoResourceType; state.go, "Envoy is
\* best-effort").
SnapshotTrue ==
    \A i \in Slots : cmd[i].quiet /\ cmd[i].verb # "clear" =>
      /\ cmd[i].result = "noapi" => api = "none"
      /\ cmd[i].result = "error" => cmd[i].failed # {}
      /\ cmd[i].result = "ok" =>
           /\ api # "none" /\ cmd[i].failed = {}
           /\ cmd[i].read = [held EXCEPT !.policy = IF api = "full" THEN @ ELSE 0]
           /\ cmd[i].class = 0 <=> \A c \in Ours : class[c] = "absent"
           /\ cmd[i].class # 0 => /\ class[cmd[i].class] # "absent"
                                  /\ cmd[i].hinted = (class[cmd[i].class] = "hinted")

\* After prepare-export's live phase no class has a hint, and the snapshot has
\* none either, whichever class carried it; after clear-dns-hint-ip the named
\* class is there without -- also when both run at one time (state.go).
HintsGone ==
    \A i \in Slots : cmd[i].result = "ok" /\ ~cmd[i].reapplied =>
      /\ cmd[i].verb = "prepare" => Hinted = {} /\ ~cmd[i].hinted
      /\ cmd[i].verb = "clear" /\ cmd[i].quiet => class[cmd[i].name] = "plain"

\* No port-forward outlives its command (envoy.go: "a cancel func the caller
\* MUST defer").
NoForwardLeft ==
    \A i \in Slots : cmd[i].forward => cmd[i].pc \in {"forward", "info", "dump"}

--------------------------------------------------------------------------------
(* The inductive invariant of the proofs, by part. *)

Points == {"idle", "describe", "list", "patch", "class"} \cup Kinds
             \cup {"backend", "pods", "forward", "info", "dump", "done"}

Slot == [verb : {"none"} \cup UNION {VerbsOf[i] : i \in Slots}, pc : Points,
         result : {"none", "ok", "noapi", "error"}, name : {0} \cup Classes,
         todo : SUBSET Classes, class : {0} \cup Ours, hinted : BOOLEAN,
         read : [Kinds -> Nat], envoy : BOOLEAN, forward : BOOLEAN,
         quiet : BOOLEAN, reapplied : BOOLEAN, failed : SUBSET Points]

StateTypes ==
    /\ api \in {"none", "gateway", "full"}
    /\ class \in [Classes -> {"absent", "plain", "hinted"}]
    /\ held \in [Kinds -> Nat] /\ \A k \in Kinds : held[k] \in DOMAIN Tables[k]
    /\ cmd \in [Slots -> Slot]

\* Which calls a command still makes, and what it may hold by then.
Flow(i) ==
    LET c == cmd[i]
    IN /\ c.verb = "none" \/ c.verb \in VerbsOf[i]
       /\ (c.result = "none") = (c.pc # "done")
       /\ c.verb = "clear" => c.pc \in {"idle", "describe", "patch", "done"}
       /\ c.pc = "describe" => c.verb = "clear"
       /\ c.pc = "idle" => c.verb = "none"
       /\ c.verb = "clear" => c.name \in Classes
       /\ c.todo # {} => c.pc = "patch" \/ c.result = "error"
       /\ (c.failed # {}) = (c.result = "error")
       /\ \A k \in Kinds : c.read[k] = 0 \/ c.read[k] \in DOMAIN Tables[k]
       /\ c.hinted => c.class \in Ours /\ c.pc \notin {"idle", "describe", "list", "patch", "class"}
       /\ c.forward => c.pc \in {"forward", "info", "dump"}

\* The kinds a command has not read at a point.
Unread(pc) ==
    CASE pc \in {"idle", "describe", "list", "patch", "class", "gateway"} -> Kinds
      [] pc = "httproute" -> Kinds \ {"gateway"}
      [] pc = "grpcroute" -> {"grpcroute", "policy"}
      [] pc = "policy" -> {"policy"}
      [] OTHER -> {}

Stands(k) == IF k = "policy" /\ api # "full" THEN 0 ELSE held[k]

\* What a command has read is so, as long as it is alone with the cluster.
SeenTrue(i) ==
    LET c == cmd[i]
    IN c.quiet /\ c.verb # "clear" =>
         /\ c.result = "noapi" => api = "none"
         /\ c.result \in {"none", "ok"} =>
              /\ \A k \in Kinds : c.read[k] = IF k \in Unread(c.pc) THEN 0 ELSE Stands(k)
              /\ c.pc \notin {"idle", "list", "patch", "class"} =>
                   /\ api # "none"
                   /\ (c.class = 0) = (\A o \in Ours : class[o] = "absent")
                   /\ c.class # 0 => /\ class[c.class] # "absent"
                                     /\ c.hinted = (class[c.class] = "hinted")

\* prepare-export: every hint is still to do, and then there is none.
HintsPrepared(i) ==
    LET c == cmd[i]
    IN c.verb = "prepare" /\ c.result \in {"none", "ok"} /\ ~c.reapplied =>
         /\ c.pc = "patch" => Hinted \subseteq c.todo
         /\ c.pc \notin {"idle", "list", "patch"} => Hinted = {} /\ ~c.hinted

\* clear-dns-hint-ip: the class is still to do, or plain.
HintCleared(i) ==
    LET c == cmd[i]
    IN c.verb = "clear" /\ c.quiet =>
         /\ c.pc = "patch" => c.todo = {c.name} \/ (c.todo = {} /\ class[c.name] = "plain")
         /\ c.result = "ok" => class[c.name] = "plain"

\* Each running command knows what it has seen, also among others that change
\* the cluster meanwhile (state.go, fetch.go).
CommandInv ==
    StateTypes /\ \A i \in Slots : Flow(i) /\ SeenTrue(i) /\ HintsPrepared(i) /\ HintCleared(i)
================================================================================
