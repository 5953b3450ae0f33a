------------------------------ MODULE MCConverge ------------------------------
EXTENDS Converge, TLC

MCDirs == {"db", "base", "qa", "site"}
MCMode == ("pg" :> "replace") @@ ("conf" :> "serverside") @@ ("job" :> "create")
          @@ ("seed" :> "create") @@ ("web" :> "")

None == [d \in MCDirs |-> <<>>]
Check(kind, obj) == [kind |-> kind, obj |-> obj, ns |-> ""]

\* base needs db; qa is an overlay of base with a namespace of its own and no
\* yconverge.cue; site has a base, and imports base and db directly.
Stack ==
    [kust    |-> MCDirs,
     bases   |-> [None EXCEPT !["qa"] = <<"base">>],
     imports |-> [None EXCEPT !["base"] = <<"db">>, !["site"] = <<"base", "db">>],
     cue     |-> {"db", "base", "site"},
     module  |-> TRUE,
     ns      |-> [d \in MCDirs |-> IF d = "qa" THEN "qa" ELSE ""],
     owns    |-> [d \in MCDirs |-> CASE d = "db" -> {"pg", "conf"} [] d = "base" -> {"web", "job", "seed"} [] OTHER -> {}],
     checks  |-> [d \in MCDirs |-> CASE d = "db" -> <<Check("rollout", "pg")>>
                                     [] d = "base" -> <<Check("gateway", "web")>> [] OTHER -> <<>>]]

\* The same, and site imports the overlay.
OverlayDep == [Stack EXCEPT !.imports["site"] = <<"qa">>]

\* Two bases and no namespace to tell from them: the check names its own.
TwoBases == [Stack EXCEPT !.module = FALSE, !.bases["site"] = <<"qa", "db">>,
                          !.checks = [None EXCEPT !["site"] = <<[Check("wait", "web") EXCEPT !.ns = "qa"]>>]]

Req(target, dryRun, checksOnly, skipChecks, printDeps, selector) ==
    [target |-> target, dryRun |-> dryRun, checksOnly |-> checksOnly,
     skipChecks |-> skipChecks, printDeps |-> printDeps, selector |-> selector]
Plain(target) == Req(target, "", FALSE, FALSE, FALSE, FALSE)
Show(target) == Req(target, "", FALSE, FALSE, TRUE, FALSE)

StackRequests ==
    {Plain("qa"), Plain("site"), Plain("base"), Req("qa", "server", FALSE, TRUE, FALSE, FALSE),
     Req("qa", "none", TRUE, FALSE, FALSE, FALSE), Req("site", "", FALSE, TRUE, FALSE, TRUE),
     Req("qa", "client", FALSE, FALSE, FALSE, FALSE), Req("qa", "", TRUE, TRUE, FALSE, FALSE)}

\* Three directories that refer to each other in many ways, printed only: to
\* earlier ones, in either order, by kustomize (b) and by imports (i).
Two  == << <<>>, <<"db">> >>
Five == << <<>>, <<"base">>, <<"db">>, <<"base", "db">>, <<"db", "base">> >>
Site == << <<>>, <<"qa">>, <<"qa", "base">>, <<"base", "qa">>, <<"base", "db">> >>
Edges(n) == [None EXCEPT !["base"] = Two[(n % 2) + 1], !["qa"] = Five[((n \div 2) % 5) + 1], !["site"] = Site[((n \div 10) % 5) + 1]]
Printed(n) == [Stack EXCEPT !.bases = Edges(n % 50), !.imports = Edges(n \div 50),
                            !.cue = {d \in MCDirs : Edges(n \div 50)[d] # <<>>} \cup {"db"},
                            !.checks = None]

MCTrees == [i \in 1..2504 |-> CASE i = 1 -> Stack
                                  [] i = 2 -> [Stack EXCEPT !.module = FALSE, !.checks["base"] = <<Check("exec", "web")>>]
                                  [] i = 3 -> [Stack EXCEPT !.kust = @ \ {"db"}]
                                  [] i = 4 -> TwoBases
                                  [] OTHER -> Printed(i - 5)]
MCCases == ({1} \X StackRequests) \cup {<<2, Plain("qa")>>} \cup ({3} \X {Plain("qa"), Plain("db")})
           \cup {<<4, Plain("site")>>} \cup ((5..2504) \X {Show("qa"), Show("site")})

\* What the theorems assume of a repository, of these.
ASSUME TreesAreSound == NoCycles /\ ChecksMeetRender

OverlayTrees == <<OverlayDep>>
OverlayCases == {1} \X {Plain("site")}

BaseTrees == <<Stack>>
BaseCases == {1} \X {Plain("base")}

================================================================================
