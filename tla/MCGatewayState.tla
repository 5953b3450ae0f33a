---------------------------- MODULE MCGatewayState ----------------------------
(* Instances of GatewayState for TLC. *)
EXTENDS GatewayState

\* Two Gateways of one name in two namespaces, listed in either order; the
\* first has two listeners, one of them not reported on yet.
Gateway(n, ports) ==
    [ns |-> n, name |-> 1,
     listeners |-> [i \in DOMAIN ports |-> [name |-> i, port |-> ports[i]]],
     status |-> <<[name |-> 1, programmed |-> n = 1]>>]
GatewayTable == << <<Gateway(2, <<443>>), Gateway(1, <<80, 443>>)>>,
                   <<Gateway(1, <<80>>)>> >>

Ref(kind, ns, section, port) ==
    [kind |-> kind, ns |-> ns, name |-> 1, section |-> section, port |-> port]
Rule(redirect, kinds, match) ==
    [redirect |-> redirect, matches |-> <<match>>,
     refs |-> [i \in DOMAIN kinds |-> [kind |-> kinds[i], ns |-> 0, name |-> i]]]
Route(name, refs, hostnames, rules) ==
    [ns |-> 1, name |-> name, parentRefs |-> refs, hostnames |-> hostnames, rules |-> rules]
TwoRules == <<Rule(TRUE, <<>>, ""), Rule(FALSE, <<"", "Backend", "Service">>, "Exact")>>
OneRule == <<Rule(FALSE, <<"">>, "")>>

\* Pairs of routes that share a host, one naming it twice, that declare none,
\* and that have no rules; and every reference, each on a route of its own.
Targets == << <<"", 0>>, <<"Gateway", 2>>, <<"Service", 1>> >>
AnyRef(i) == Ref(Targets[(i % 3) + 1][1], Targets[(i % 3) + 1][2],
                 2 * ((i \div 3) % 2), 443 * (i \div 6))
RouteTable ==
    << <<Route(2, <<Ref("", 0, 0, 0)>>, <<2, 1>>, OneRule), Route(1, <<Ref("", 0, 2, 0)>>, <<1, 5, 1>>, TwoRules)>>,
       <<Route(1, <<Ref("", 0, 0, 80), Ref("", 2, 0, 0)>>, <<>>, OneRule),
         Route(3, <<Ref("Gateway", 1, 0, 443)>>, <<3>>, <<>>)>>,
       [i \in 1..12 |-> Route(i, <<AnyRef(i - 1)>>, <<2, 1>>, OneRule)] >>
GRPCTable == << <<Route(1, <<Ref("", 0, 1, 0)>>, <<4, 1>>, OneRule)>>, <<>> >>

Policy(ns, name, section, xff) ==
    [ns |-> ns, name |-> name, hasRefs |-> TRUE, hasRef |-> FALSE,
     targetRefs |-> <<Ref("Gateway", 1, section, 0)>>, targetRef |-> Ref("", 0, 0, 0), xff |-> xff]
Old(p) == [p EXCEPT !.hasRefs = FALSE, !.hasRef = TRUE, !.targetRef = Ref("Gateway", 0, 2, 0)]
Hops(n) == [hops |-> {n}, cidrs |-> {}]
PolicyTable ==
    << <<Policy(1, 2, 0, Hops(0)), Policy(1, 1, 2, NoSetting), Policy(2, 1, 2, Hops(2))>>,
       <<Old(Policy(1, 3, 0, Hops(1))), Policy(2, 1, 0, [hops |-> {}, cidrs |-> {1}])>> >>

MCTables == [gateway |-> GatewayTable, httproute |-> RouteTable,
             grpcroute |-> GRPCTable, policy |-> PolicyTable]
MCEditable == [gateway |-> {2}, httproute |-> {2}, grpcroute |-> {2}, policy |-> {2}]
MCVerbs == [i \in Slots |-> IF i = 1 THEN {"prepare", "state"} ELSE {"clear"}]
================================================================================
