---------------------------- MODULE GatewaySummary ----------------------------
(****************************************************************************)
(* What a gateway snapshot says of the routing: per listener the hosts, and *)
(* per host the rules (pkg/gateway summary.go, hostnames.go), from the      *)
(* Gateways, routes and policies as Fetch has read and sorted them.         *)
(*                                                                          *)
(* Names are numbers, so that they sort; 0 and "" are fields left out.      *)
(****************************************************************************)
EXTENDS Naturals, FiniteSets, Sequences, SequencesExt

CatchAll == 0           \* "*", for routes that declare no hostname
NoSetting == [hops |-> {}, cidrs |-> {}]     \* hops: a set of at most one number

References == [kind : STRING, ns : Nat, name : Nat, section : Nat, port : Nat]
Gateways == [ns : Nat, name : Nat, listeners : Seq([name : Nat, port : Nat]),
             status : Seq([name : Nat, programmed : BOOLEAN])]
Routes == [ns : Nat, name : Nat, parentRefs : Seq(References), hostnames : Seq(Nat),
           rules : Seq([redirect : BOOLEAN, matches : Seq(STRING),
                        refs : Seq([kind : STRING, ns : Nat, name : Nat])])]
Policies == [ns : Nat, name : Nat, hasRefs : BOOLEAN, targetRefs : Seq(References),
             hasRef : BOOLEAN, targetRef : References,
             xff : [hops : SUBSET Nat, cidrs : SUBSET Nat]]

\* The members of S in order.
InOrder(S, Less(_, _)) ==
    [i \in 1..Cardinality(S) |->
       CHOOSE x \in S : Cardinality({y \in S : Less(y, x)}) = i - 1]

\* Fetch sorts every list by namespace and name; no two of a list share both.
Before(a, b) == a.ns < b.ns \/ (a.ns = b.ns /\ a.name < b.name)
SortedByName(list) == InOrder(ToSet(list), Before)

\* Either spelling of a policy's targets; a targetRefs that is there wins, also
\* an empty one.
extractTargetRefs(p) ==
    IF p.hasRefs THEN p.targetRefs
    ELSE IF p.hasRef THEN <<p.targetRef>> ELSE <<>>

OwnNamespace(ns, own) == IF ns = 0 THEN own ELSE ns

\* A reference of an object in namespace own covers the listener.
Covers(ref, own, gw, l) ==
    /\ ref.kind \in {"", "Gateway"}
    /\ OwnNamespace(ref.ns, own) = gw.ns /\ ref.name = gw.name
    /\ ref.section \in {0, l.name}

ctpAppliesTo(p, gw, l) ==
    \E i \in DOMAIN extractTargetRefs(p) : Covers(extractTargetRefs(p)[i], p.ns, gw, l)

\* Mutant: a parentRef's port is not compared.
AttachesToAnyPort(r, gw, l) ==
    \E i \in DOMAIN r.parentRefs : Covers(r.parentRefs[i], r.ns, gw, l)

routeAttachesTo(r, gw, l) ==
    \E i \in DOMAIN r.parentRefs :
       Covers(r.parentRefs[i], r.ns, gw, l) /\ r.parentRefs[i].port \in {0, l.port}

\* The first policy that applies and sets something.
xForwardedForFor(policies, gw, l) ==
    LET settles == {i \in DOMAIN policies :
                      ctpAppliesTo(policies[i], gw, l) /\ policies[i].xff # NoSetting}
    IN IF settles = {} THEN NoSetting ELSE policies[Min(settles)].xff

listenerProgrammed(gw, l) ==
    \E i \in DOMAIN gw.status :
       /\ gw.status[i].name = l.name /\ gw.status[i].programmed
       /\ \A j \in 1..i - 1 : gw.status[j].name # l.name

--------------------------------------------------------------------------------
(* Rules *)

\* Service references only, in the route's namespace unless they say another.
Services(refs, own) ==
    LET kept == SelectSeq(refs, LAMBDA r : r.kind \in {"", "Service"})
    IN [i \in DOMAIN kept |-> [ns |-> OwnNamespace(kept[i].ns, own), name |-> kept[i].name]]

Redirect == [ns |-> 0, name |-> 0]

\* Redirects come first; a GRPCRoute's filters are not looked at.
Backends(kind, rule, own) ==
    (IF kind = "HTTPRoute" /\ rule.redirect THEN <<Redirect>> ELSE <<>>)
       \o Services(rule.refs, own)

MatchType(kind, m) ==
    IF m # "" THEN m ELSE IF kind = "HTTPRoute" THEN "PathPrefix" ELSE "Exact"

SummaryRules(kind, r) ==
    [i \in DOMAIN r.rules |->
       [kind |-> kind, ns |-> r.ns, name |-> r.name, rule |-> i - 1,
        matches |-> [j \in DOMAIN r.rules[i].matches |-> MatchType(kind, r.rules[i].matches[j])],
        backends |-> Backends(kind, r.rules[i], r.ns)]]

--------------------------------------------------------------------------------
(* Buckets *)

HostsDeclared(r) == IF r.hostnames = <<>> THEN <<CatchAll>> ELSE r.hostnames

\* addRoute appends the rules of a route for every host it names, and so as
\* often as it names one.
Added(hosts, rules, h) ==
    FoldLeft(LAMBDA bucket, x : IF x = h THEN bucket \o rules ELSE bucket, <<>>, hosts)

\* What the routes of a kind append to the bucket of h.
Contribution(kind, routes, gw, l, h) ==
    FoldLeft(LAMBDA bucket, r :
               IF routeAttachesTo(r, gw, l)
               THEN bucket \o Added(HostsDeclared(r), SummaryRules(kind, r), h) ELSE bucket,
             <<>>, routes)

Bucket(s, gw, l, h) ==
    Contribution("HTTPRoute", s.httproute, gw, l, h)
       \o Contribution("GRPCRoute", s.grpcroute, gw, l, h)

\* "*" sorts last.
HostBefore(a, b) == a # b /\ a # CatchAll /\ (b = CatchAll \/ a < b)

collectHosts(s, gw, l) ==
    LET declared == UNION {ToSet(HostsDeclared(r)) : r \in ToSet(s.httproute) \cup ToSet(s.grpcroute)}
        keys == InOrder({h \in declared : Bucket(s, gw, l, h) # <<>>}, HostBefore)
    IN [i \in DOMAIN keys |-> [hostname |-> keys[i], routes |-> Bucket(s, gw, l, keys[i])]]

\* One row per Gateway and listener, also for a listener nothing attaches to.
Rows(s, gw) ==
    [i \in DOMAIN gw.listeners |->
       LET l == gw.listeners[i]
       IN [gateway |-> <<gw.ns, gw.name>>, name |-> l.name, port |-> l.port,
           programmed |-> listenerProgrammed(gw, l),
           xff |-> xForwardedForFor(s.policy, gw, l),
           hosts |-> collectHosts(s, gw, l)]]

BuildSummary(s) == FoldLeft(LAMBDA rows, gw : rows \o Rows(s, gw), <<>>, s.gateway)

Hostnames(summary) ==
    InOrder((UNION {{row.hosts[i].hostname : i \in DOMAIN row.hosts} : row \in ToSet(summary)})
                   \ {CatchAll}, <)
================================================================================
