--------------------------------- MODULE Converge ---------------------------------
(****************************************************************************)
(* `y-cluster yconverge`: plan the dependencies of a kustomize directory    *)
(* from CUE imports, then, directory by directory, apply the rendered       *)
(* resources in groups by their converge-mode label and run the checks.     *)
(* Every kubectl invocation and every attempt of a check is a step; the     *)
(* cluster's controllers make resources ready meanwhile, the operator edits *)
(* manifests between runs, and a run may be killed anywhere.                *)
(****************************************************************************)
EXTENDS Integers, FiniteSets, SequencesExt

CONSTANTS
    Dirs,       \* directories of the repository that is converged
    Trees,      \* the repositories that may be converged: a sequence of trees
    Cases,      \* <<index of a tree, request>>: what may be asked of it
    Mode,       \* resource -> its converge-mode label, "" without one
    Labelled,   \* the resources an operator's -l matches
    Namespaces, \* namespaces, with "" for the context's default
    Timeout,    \* seconds a check is given
    Edits,      \* bound: how often the manifests change
    Runs,       \* bound: how many runs start
    Faults,     \* bound: calls that fail and resources the API rejects
    Kills,      \* bound: runs that are killed
    HiddenErrors \* whether the API may reject a resource to be created next to one that exists

Objs  == DOMAIN Mode
Modes == {"create", "replace", "serverside-force", "serverside", ""}
Kinds == {"wait", "rollout", "exec", "gateway"}

\* checks.go: attempts of exec and gateway checks are 2 seconds apart.
RetryInterval == 2

ASSUME ModeAssumption   == Mode \in [Objs -> Modes]
ASSUME BoundsAssumption == {Timeout, Edits, Runs, Faults, Kills} \subseteq Nat
ASSUME ErrorsAssumption == HiddenErrors \in BOOLEAN

\* A request: what to converge, and the flags as they were typed.  "client"
\* stands for every value of --dry-run that is not supported.
DryRuns == {"", "none", "server", "client"}
Asked == [target : Dirs, dryRun : DryRuns, checksOnly : BOOLEAN, skipChecks : BOOLEAN,
          printDeps : BOOLEAN, selector : BOOLEAN]

ASSUME CasesAssumption == Cases \subseteq (DOMAIN Trees) \X Asked

\* A check: its kind, the resource it is about, and a namespace of its own if any.
Checks == [kind : Kinds, obj : Objs, ns : Namespaces]

(****************************************************************************)
(* A tree: kust (the directories with a kustomization file), bases (the     *)
(* resources and components entries that are directories, in order), cue    *)
(* (the directories with a yconverge.cue), imports (what it imports, in     *)
(* order), checks (what it checks, in order), module (whether there is a    *)
(* cue.mod), ns (namespace fields) and owns (the resources a directory      *)
(* adds).  A directory without a yconverge.cue has no checks.               *)
(****************************************************************************)
ASSUME TreesAssumption ==
    /\ "" \in Namespaces
    /\ Trees \in Seq([kust    : SUBSET Dirs,          bases  : [Dirs -> Seq(Dirs)],
                      imports : [Dirs -> Seq(Dirs)],  cue    : SUBSET Dirs,
                      module  : BOOLEAN,              ns     : [Dirs -> Namespaces],
                      owns    : [Dirs -> SUBSET Objs], checks : [Dirs -> Seq(Checks)]])
    /\ \A i \in DOMAIN Trees : \A d \in Dirs \ Trees[i].cue : Trees[i].checks[d] = <<>>

\* Depth first, each directory once, after everything it refers to.  (The code
\* marks a directory before it descends; without cycles that is the same.)
PostOrder(next, d) ==
    LET walk[e \in Dirs] == [order \in Seq(Dirs) |->
            IF e \in ToSet(order) THEN order
            ELSE Append(FoldLeft(LAMBDA o, f : walk[f][o], order, next[e]), e)]
    IN  walk[d][<<>>]

\* What of s is in A, in order.
Kept(s, A) == FoldLeft(LAMBDA kept, x : IF x \in A THEN Append(kept, x) ELSE kept, <<>>, s)

\* Entries that are directories with a kustomization; others are skipped, what
\* cannot be resolved with a warning.
LocalBases(t, d) == Kept(t.bases[d], t.kust)

\* traverse.Walk: the local directories of the kustomize tree of d.
walkTree(t, d) == PostOrder([e \in Dirs |-> LocalBases(t, e)], d)

FindCueFiles(t, dirs) == Kept(dirs, t.cue)

\* A directory without a yconverge.cue imports nothing.
ParseImports(t, d) == IF d \in t.cue THEN t.imports[d] ELSE <<>>

\* Only imports are followed: not the bases of an imported directory.
ResolveDeps(t, d) == PostOrder([e \in Dirs |-> ParseImports(t, e)], d)

\* The namespace the checks of a root look in.
resolveNamespace(t, d) ==
    LET of[e \in Dirs] == IF t.ns[e] # "" THEN t.ns[e]
                          ELSE IF Len(LocalBases(t, e)) = 1 THEN of[LocalBases(t, e)[1]]
                          ELSE ""
    IN  of[d]

\* runOne: wait and rollout take the check's own namespace first, the others
\* know only that of the root.
CheckNamespace(t, d, c) ==
    IF c.kind \in {"wait", "rollout"} /\ c.ns # "" THEN c.ns ELSE resolveNamespace(t, d)

\* mutant of AddSteps: the bases of the target become steps too.
AddStepsWithBases(t, target, steps, cueDir) ==
    FoldLeft(LAMBDA acc, s : IF s \in ToSet(acc) THEN acc ELSE Append(acc, s),
             steps, ResolveDeps(t, cueDir))

\* The steps one directory with a yconverge.cue adds to the plan.
AddSteps(t, target, steps, cueDir) ==
    FoldLeft(LAMBDA acc, s : IF (s = cueDir /\ cueDir # target) \/ s \in ToSet(acc)
                             THEN acc ELSE Append(acc, s),
             steps, ResolveDeps(t, cueDir))

\* Run: the target comes last, after the imports of its whole tree.
Plan(t, target) ==
    IF ~t.module THEN <<target>>
    ELSE LET cueDirs == FindCueFiles(t, walkTree(t, target))
             steps   == FoldLeft(LAMBDA acc, c : AddSteps(t, target, acc, c), <<>>, cueDirs)
         IN  IF target \in ToSet(steps) THEN steps ELSE Append(steps, target)

\* What kustomize renders for a root: its resources, each in the namespace the
\* outermost directory on the way to it sets.
Rendered(t, d) ==
    LET of[e \in Dirs] ==
            LET all == (t.owns[e] \X {""}) \cup UNION {of[b] : b \in ToSet(LocalBases(t, e))}
            IN  IF t.ns[e] = "" THEN all ELSE {<<k[1], t.ns[e]>> : k \in all}
    IN  of[d]

\* The checks of a root: those of every yconverge.cue in its tree, base first.
ChecksOf(t, d) ==
    FoldLeft(LAMBDA all, c : all \o t.checks[c], <<>>, FindCueFiles(t, walkTree(t, d)))

\* The tables of a tree that the steps read again and again.
RenderedBy == [i \in DOMAIN Trees |-> [d \in Dirs |-> Rendered(Trees[i], d)]]
ChecksBy   == [i \in DOMAIN Trees |-> [d \in Dirs |-> ChecksOf(Trees[i], d)]]

VARIABLES
    repo,     \* the repository that is converged, an index of Trees
    source,   \* the version of its manifests
    cluster,  \* <<resource, namespace>> -> NoObject, or what was applied
    ready,    \* resources whose controllers report them ready
    run,      \* the current or last run
    pods,     \* probe pods nobody removes any more
    left      \* bounds left: edits, runs, faults, kills

vars == <<repo, source, cluster, ready, run, pods, left>>

tree     == Trees[repo]
Keys     == Objs \X Namespaces
NoObject == [ver |-> 0, by |-> "nobody"]
Requests == {c[2] : c \in Cases}

\* pc: where the run is.  at: the current step of the plan.  inv: the next
\* kubectl invocation.  todo: the checks left.  wait: seconds to the check's
\* deadline.  done: the steps finished, passed: <<step, check, object>> for each
\* check that passed.
Ended == {"none", "ok", "printed", "refused", "failed", "killed"}
NoRun == [pc |-> "none", req |-> CHOOSE r \in Requests : TRUE, steps |-> <<>>, at |-> 0, inv |-> 1,
          todo |-> <<>>, wait |-> 0, done |-> {}, passed |-> {}]

Init ==
    /\ repo \in {c[1] : c \in Cases}
    /\ source = 1
    /\ cluster = [k \in Keys |-> NoObject]
    /\ ready = {}
    /\ run = NoRun
    /\ pods = 0
    /\ left = [edits |-> Edits, runs |-> Runs, faults |-> Faults, kills |-> Kills]

Running == run.pc \notin Ended
Step    == run.steps[run.at]
Fails   == /\ left.faults > 0 /\ left' = [left EXCEPT !.faults = @ - 1]

\* The operator changes the manifests between runs.
Edit ==
    /\ ~Running /\ left.edits > 0
    /\ source' = source + 1
    /\ left' = [left EXCEPT !.edits = @ - 1]
    /\ UNCHANGED <<repo, cluster, ready, run, pods>>

\* A request has a target, a dry-run flag, and the other options.
normalizeDryRun(v) == IF v = "none" THEN "" ELSE v

\* The kubectl invocations of one step, in order; the mode is the selector.
applyGroups == <<[verb |-> "create", modes |-> {"create"}],
                 [verb |-> "delete", modes |-> {"replace"}],
                 [verb |-> "apply",  modes |-> {"replace"}],
                 [verb |-> "apply",  modes |-> {"serverside-force"}],
                 [verb |-> "apply",  modes |-> {"serverside"}],
                 [verb |-> "apply",  modes |-> {""}]>>

\* mutant of depOpts: a run that only checks applies its dependencies.
depOptsApplying(req, step) ==
    [target |-> step, dryRun |-> req.dryRun, skipChecks |-> req.skipChecks,
     checksOnly |-> FALSE, selector |-> req.selector, printDeps |-> FALSE]

\* The options a dependency is converged with, copied field by field.
depOpts(req, step) ==
    [target |-> step, dryRun |-> req.dryRun, skipChecks |-> req.skipChecks,
     checksOnly |-> req.checksOnly, selector |-> req.selector, printDeps |-> FALSE]

\* The options the current step of r is converged with.
Options(r) == IF r.at = Len(r.steps) THEN r.req ELSE depOpts(r.req, r.steps[r.at])
opts       == Options(run)

\* withUser: the operator's selector is ANDed to the selector of the group.
Selected(g) ==
    {k \in RenderedBy[repo][Step] :
        Mode[k[1]] \in g.modes /\ (opts.selector => k[1] \in Labelled)}

\* Where a step starts: with the preflight, the applies, or the checks.  A step
\* without a kustomization cannot be walked.
Enter(r) ==
    IF r.steps[r.at] \notin tree.kust THEN [r EXCEPT !.pc = "failed"]
    ELSE IF Options(r).checksOnly THEN
        IF Options(r).skipChecks THEN [r EXCEPT !.pc = "finish"] ELSE [r EXCEPT !.pc = "parse"]
    ELSE IF Options(r).selector THEN [r EXCEPT !.pc = "preflight"]
    ELSE [r EXCEPT !.pc = "apply", !.inv = 1]

\* Run: refuse, print the plan, or start with its first step.
Begin ==
    /\ ~Running /\ left.runs > 0
    /\ \E q \in Requests :
        /\ <<repo, q>> \in Cases
        /\ LET req   == [q EXCEPT !.dryRun = normalizeDryRun(@)]
               steps == Plan(tree, q.target)
               r     == [NoRun EXCEPT !.req = req, !.steps = steps, !.at = 1]
           IN  run' = CASE req.dryRun \notin {"", "server"} -> [NoRun EXCEPT !.pc = "refused"]
                        [] tree.module /\ q.target \notin tree.kust -> [r EXCEPT !.pc = "failed"]
                        [] q.printDeps -> [r EXCEPT !.pc = "printed"]
                        [] OTHER       -> Enter(r)
    /\ left' = [left EXCEPT !.runs = @ - 1]
    /\ UNCHANGED <<repo, source, cluster, ready, pods>>

\* preflightSelectorMatches: a selector that matches nothing is refused.
Preflight ==
    /\ run.pc = "preflight"
    /\ \/ /\ run' = IF \E k \in RenderedBy[repo][Step] : k[1] \in Labelled
                    THEN [run EXCEPT !.pc = "apply", !.inv = 1] ELSE [run EXCEPT !.pc = "failed"]
          /\ UNCHANGED left
       \/ Fails /\ run' = [run EXCEPT !.pc = "failed"]
    /\ UNCHANGED <<repo, source, cluster, ready, pods>>

\* What one invocation does to an object when the API server accepts it.
Applied(g, k) ==
    IF g.verb = "delete" THEN NoObject
    ELSE IF g.verb = "create" /\ cluster[k] # NoObject THEN cluster[k]
    ELSE [ver |-> source, by |-> Step]

\* withDryRun: every invocation carries the flag, delete too.
Writes(g) == opts.dryRun = ""

\* mutant of Tolerated: no rejection is an error.
ToleratedAlways(g, rejected) == TRUE

\* kubectl reports AlreadyExists for one of the resources.
Exists(g) == g.verb = "create" /\ \E k \in Selected(g) : cluster[k] # NoObject

\* An invocation tolerates an error whose text contains AlreadyExists, whatever
\* else kubectl says in the same breath.
Tolerated(g, rejected) == rejected = {} \/ Exists(g)

\* runApplyInvocation.  kubectl goes on after an object the API rejects.
Apply ==
    /\ run.pc = "apply"
    /\ \E rejected \in SUBSET Selected(applyGroups[run.inv]) :
        LET g == applyGroups[run.inv]
            touched == IF Writes(g) THEN Selected(g) \ rejected ELSE {}
        IN  /\ IF rejected = {} THEN UNCHANGED left ELSE Fails
            /\ rejected = {} \/ Cardinality(rejected) = 1 \/ rejected = Selected(g)
            /\ \A k \in rejected : g.verb = "create" => cluster[k] = NoObject
            /\ rejected # {} /\ Exists(g) => HiddenErrors
            /\ cluster' = [k \in Keys |-> IF k \in touched THEN Applied(g, k) ELSE cluster[k]]
            /\ ready' = {k \in ready : cluster'[k] = cluster[k]}
            /\ run' = IF ~Tolerated(g, rejected) THEN [run EXCEPT !.pc = "failed"]
                      ELSE IF run.inv < Len(applyGroups) THEN [run EXCEPT !.inv = @ + 1]
                      ELSE IF opts.skipChecks THEN [run EXCEPT !.pc = "finish"]
                      ELSE [run EXCEPT !.pc = "parse"]
    /\ UNCHANGED <<repo, source, pods>>

\* ParseChecks of every yconverge.cue in the step's tree.
Parse ==
    /\ run.pc = "parse"
    /\ run' = [run EXCEPT !.pc = "check", !.todo = ChecksBy[repo][Step], !.wait = Timeout]
    /\ UNCHANGED <<repo, source, cluster, ready, pods, left>>

\* The object the check looks at.
Looked == <<Head(run.todo).obj, CheckNamespace(tree, Step, Head(run.todo))>>

Passes == [run EXCEPT !.pc = "check", !.todo = Tail(@), !.wait = Timeout,
                      !.passed = @ \cup {<<Step, Head(run.todo), Looked>>}]

\* mutant of Wait: a check that fails is skipped.
WaitSkipping ==
    /\ run.pc = "check" /\ run.todo # <<>> /\ Head(run.todo).kind \in {"wait", "rollout"}
    /\ run' = IF Looked \in ready THEN Passes ELSE [run EXCEPT !.todo = Tail(@)]
    /\ UNCHANGED <<repo, source, cluster, ready, pods, left>>

\* kubectl wait and kubectl rollout status have the timeout; a resource that
\* does not exist fails at once.
Wait ==
    /\ run.pc = "check" /\ run.todo # <<>> /\ Head(run.todo).kind \in {"wait", "rollout"}
    /\ run' = IF Looked \in ready THEN Passes ELSE [run EXCEPT !.pc = "failed"]
    /\ UNCHANGED <<repo, source, cluster, ready, pods, left>>

\* runExec and runGateway: an attempt starts.  A gateway probe that finds no
\* address starts no pod.
Attempt ==
    /\ run.pc = "check" /\ run.todo # <<>> /\ Head(run.todo).kind \in {"exec", "gateway"}
    /\ \/ run' = [run EXCEPT !.pc = IF Head(run.todo).kind = "exec" THEN "exec" ELSE "probe"]
       \/ /\ Head(run.todo).kind = "gateway" /\ Looked \notin ready
          /\ run' = [run EXCEPT !.pc = "retry"]
    /\ UNCHANGED <<repo, source, cluster, ready, pods, left>>

\* The attempt ends at the latest at the check's deadline, and passes if what
\* it looks for is there by then.
AttemptEnds ==
    /\ run.pc = "exec"
    /\ \E took \in 0..run.wait :
        run' = IF Looked \in ready THEN Passes ELSE [run EXCEPT !.pc = "retry", !.wait = @ - took]
    /\ UNCHANGED <<repo, source, cluster, ready, pods, left>>

\* deleteProbePod: best effort, on a context of its own.
deleteProbePod == \/ UNCHANGED <<pods, left>>
                  \/ Fails /\ pods' = pods + 1

\* kubectl run --rm removes the pod when it gets to its end; a kubectl that
\* fails or is killed at the deadline does not.
ProbeEnds ==
    /\ run.pc = "probe"
    /\ \/ /\ run' = IF Looked \in ready THEN Passes ELSE [run EXCEPT !.pc = "retry"]
          /\ UNCHANGED <<pods, left>>
       \/ \E took \in 0..run.wait :
          /\ run' = [run EXCEPT !.pc = "retry", !.wait = @ - took]
          /\ deleteProbePod
    /\ UNCHANGED <<repo, source, cluster, ready>>

\* mutant of Retry: the deadline is not looked at.
RetryForever ==
    /\ run.pc = "retry"
    /\ run' = [run EXCEPT !.pc = "check"]
    /\ UNCHANGED <<repo, source, cluster, ready, pods, left>>

\* No attempt is made that could not start before the deadline.
Retry ==
    /\ run.pc = "retry"
    /\ run' = IF RetryInterval > run.wait THEN [run EXCEPT !.pc = "failed"]
              ELSE [run EXCEPT !.pc = "check", !.wait = @ - RetryInterval]
    /\ UNCHANGED <<repo, source, cluster, ready, pods, left>>

\* The step is converged; the next one starts, or the run has succeeded.
Finish ==
    /\ run.pc = "finish" \/ (run.pc = "check" /\ run.todo = <<>>)
    /\ LET r == [run EXCEPT !.done = @ \cup {Step}]
       IN  run' = IF run.at = Len(run.steps) THEN [r EXCEPT !.pc = "ok"]
                  ELSE Enter([r EXCEPT !.at = @ + 1])
    /\ UNCHANGED <<repo, source, cluster, ready, pods, left>>

\* Interrupted, or the machine goes away.  The pod of a probe is left behind.
Killed ==
    /\ Running /\ left.kills > 0
    /\ run' = [run EXCEPT !.pc = "killed"]
    /\ pods' = IF run.pc = "probe" THEN pods + 1 ELSE pods
    /\ left' = [left EXCEPT !.kills = @ - 1]
    /\ UNCHANGED <<repo, source, cluster, ready>>

\* Controllers bring a resource up.
BecomeReady(k) ==
    /\ cluster[k] # NoObject /\ k \notin ready
    /\ ready' = ready \cup {k}
    /\ UNCHANGED <<repo, source, cluster, run, pods, left>>

Progress == Preflight \/ Apply \/ Parse \/ Wait \/ Attempt \/ AttemptEnds \/ ProbeEnds \/ Retry \/ Finish
Next == Edit \/ Begin \/ Progress \/ Killed \/ \E k \in Keys : BecomeReady(k)

Spec == Init /\ [][Next]_vars

\* The process runs, and its calls end.  Controllers promise nothing.
FairSpec == Spec /\ WF_vars(Progress)

(****************************************************************************)
(* Properties.                                                              *)
(****************************************************************************)
\* Runs, objects and bounds keep their shape; a check is never past its deadline.
TypeOK ==
    /\ source \in 1..(Edits + 1) /\ ready \subseteq Keys /\ pods \in 0..(Faults + Kills)
    /\ \A k \in Keys : cluster[k] = NoObject \/ (cluster[k].ver \in 1..source /\ cluster[k].by \in Dirs)
    /\ run.pc \in Ended \cup {"preflight", "apply", "parse", "check", "exec", "probe", "retry", "finish"}
    /\ run.wait \in 0..Timeout /\ run.inv \in 1..Len(applyGroups) /\ run.at \in 0..Len(run.steps)
    /\ run.done \subseteq ToSet(run.steps)

\* Whatever d refers to, over any number of references: the least set that has
\* what d refers to and what its members refer to.
Below(next, d) ==
    {e \in Dirs : \A S \in SUBSET Dirs :
        ToSet(next[d]) \subseteq S /\ (\A c \in S : ToSet(next[c]) \subseteq S) => e \in S}

\* The directories a directory imports, over any number of imports: the
\* reference for the plan, a relation and not a walk.
ImportedBy == [i \in DOMAIN Trees |->
                 [d \in Dirs |-> Below([e \in Dirs |-> ParseImports(Trees[i], e)], d)]]
CueIn == [i \in DOMAIN Trees |-> [d \in Dirs |-> ToSet(walkTree(Trees[i], d)) \cap Trees[i].cue]]
Imported(S) == UNION {ImportedBy[repo][c] : c \in S}

\* What has to be converged in repository i before d, on the way to target.
NeedsOf(i, target, d) ==
    IF ~Trees[i].module THEN {}
    ELSE (UNION {ImportedBy[i][c] : c \in IF d = target THEN CueIn[i][d] ELSE {d}}) \ {d}
Needs(d) == NeedsOf(repo, run.req.target, d)

\* What the target's tree imports, each directory once and after its own
\* imports, and the target at the end.
PlanExact(i, target, steps) ==
    /\ IsInjective(steps)
    /\ Last(steps) = target
    /\ ToSet(steps) = NeedsOf(i, target, target) \cup {target}
    /\ \A n \in 1..Len(steps) : NeedsOf(i, target, steps[n]) \subseteq ToSet(SubSeq(steps, 1, n - 1))

\* The plan of every run is exact (yconverge.go, Run).
PlanIsExact == run.steps # <<>> => PlanExact(repo, run.req.target, run.steps)

\* Whatever the step imports has converged in this run before the step is
\* applied or checked: applied, and each of its checks passed.
DepsConverged ==
    Running => \A d \in Needs(Step) :
        /\ d \in run.done
        /\ ~run.req.skipChecks =>
              \A c \in ToSet(tree.checks[d]) : \E p \in run.passed : p[1] = d /\ p[2] = c

\* A resource is written as its label says, by its own step, and only if the
\* selector takes it: what is labelled create is never touched again, and only
\* what is labelled replace is ever taken away, to be put back next.  What the
\* operator asked for goes for the dependencies too: a dry run, a run that only
\* checks and a refused or printed run write nothing anywhere.
WritesRouted ==
    [][\A k \in Keys : cluster'[k] # cluster[k] =>
        /\ run.req.dryRun = "" /\ ~run.req.checksOnly /\ ~run.req.printDeps
        /\ k \in RenderedBy[repo][Step] /\ (run.req.selector => k[1] \in Labelled)
        /\ Mode[k[1]] = "create" => cluster[k] = NoObject
        /\ cluster'[k] = NoObject => Mode[k[1]] = "replace" /\ run.inv = 2
      ]_vars

\* The resources of step d that the run had to see to.
Taken(d) == {k \in RenderedBy[repo][d] : run.req.selector => k[1] \in Labelled}

\* In place: as the last step that renders it does, from the manifests as they
\* are; for create, from any manifests.
InPlace(k, i) ==
    IF Mode[k[1]] = "create" THEN cluster[k] # NoObject
    ELSE \E j \in i..Len(run.steps) :
            /\ cluster[k] = [ver |-> source, by |-> run.steps[j]]
            /\ \A m \in (j + 1)..Len(run.steps) : k \notin Taken(run.steps[m])

Applies == run.req.dryRun = "" /\ ~run.req.checksOnly
AllApplied == \A i \in 1..Len(run.steps) : \A k \in Taken(run.steps[i]) : InPlace(k, i)

AllChecked ==
    \A d \in ToSet(run.steps) : \A b \in CueIn[repo][d] : \A c \in ToSet(tree.checks[b]) :
        \E k \in RenderedBy[repo][d] : k[1] = c.obj /\ <<d, c, k>> \in run'.passed

\* A run that reports success has put every selected resource of every step in
\* place, and has seen each check of each step pass, those of the bases included
\* (README: an overlay's checks include the base's), on the object that this
\* step rendered and not on one of that name elsewhere.  So it is unless the API
\* rejects a resource next to one that exists: see DiagnosticsSurface.
SuccessMeansConverged ==
    [][Running /\ run'.pc = "ok" =>
        /\ Applies => AllApplied
        /\ ~run.req.skipChecks => AllChecked]_vars

\* A run comes to an end whatever the cluster does: checks have deadlines.
RunsEnd == Running ~> ~Running

\* yconverge.go: "An overlay (e.g. backend/qa) inherits dependencies from its
\* base"; violated when the overlay is itself a dependency, of which Run follows
\* only its own imports.
OverlayInherits == Running => Imported(CueIn[repo][Step]) \ CueIn[repo][Step] \subseteq run.done

\* kubectl.go: "stderr that doesn't match a tolerate pattern is forwarded to the
\* user's stderr before the error propagates, so a real kubectl diagnostic isn't
\* swallowed": what could not be created has failed the run.  Violated with
\* HiddenErrors: the pattern is looked for in all that kubectl says at once.
DiagnosticsSurface ==
    run.pc = "ok" /\ Applies =>
       \A i \in 1..Len(run.steps) : \A k \in Taken(run.steps[i]) :
          Mode[k[1]] = "create" => cluster[k] # NoObject

(****************************************************************************)
(* What the theorems rest on.                                               *)
(****************************************************************************)
Checking == {"check", "exec", "probe", "retry"}

\* No cycle: wherever one starts, the references lead to an end.
Acyclic(next) == \A S \in (SUBSET Dirs) \ {{}} : \E e \in S : ToSet(next[e]) \cap S = {}

\* No directory refers to itself, by bases, by imports or by both in turn.  Of
\* bases kustomize refuses a cycle, of imports CUE, of both nobody.
NoCycles == \A i \in DOMAIN Trees :
               Acyclic([d \in Dirs |-> LocalBases(Trees[i], d) \o ParseImports(Trees[i], d)])

\* Every check of a directory is about an object of its own render.
ChecksMeetRender ==
    \A i \in DOMAIN Trees, d \in Dirs : \A c \in ToSet(ChecksBy[i][d]) :
       <<c.obj, CheckNamespace(Trees[i], d, c)>> \in RenderedBy[i][d]

\* Bounds count down while what they bound goes up.
Counted ==
    /\ repo \in DOMAIN Trees
    /\ left \in [edits : 0..Edits, runs : 0..Runs, faults : 0..Faults, kills : 0..Kills]
    /\ source = 1 + Edits - left.edits
    /\ pods \in Nat /\ pods + left.faults + left.kills <= Faults + Kills
    /\ ready \subseteq Keys
    /\ cluster \in [Keys -> {NoObject} \cup [ver : 1..source, by : Dirs]]

\* A run carries out a request it was given, along the plan made for it.
Planned ==
    run.steps # <<>> =>
       \E c \in Cases :
          /\ repo = c[1]
          /\ run.req = [c[2] EXCEPT !.dryRun = normalizeDryRun(@)]
          /\ run.steps = Plan(tree, c[2].target)

RunRecord ==
    [pc     : Ended \cup Checking \cup {"preflight", "apply", "parse", "finish"},
     req    : Asked,         steps  : Seq(Dirs),
     at     : Nat,           inv    : 1..6,
     todo   : Seq(Checks),   wait   : 0..Timeout,
     done   : SUBSET Dirs,
     passed : SUBSET (Dirs \X Checks \X Keys)]

\* Where a run stands, and which flags brought it there.
Stands ==
    /\ run \in RunRecord
    /\ run.at \in 0..Len(run.steps)
    /\ run.done \subseteq ToSet(run.steps)
    /\ Running => run.at # 0 /\ ~run.req.printDeps
    /\ run.pc \in {"preflight", "apply"} => ~run.req.checksOnly
    /\ run.pc \in Checking \cup {"parse"} => ~run.req.skipChecks
    /\ run.pc = "finish" => run.req.skipChecks
    /\ run.pc \in Checking \ {"check"} => run.todo # <<>>

\* Check c of directory d has passed, on the object it is about.
PassedFor(d, c) == <<d, c, <<c.obj, CheckNamespace(tree, d, c)>>>> \in run.passed

\* The steps before the current one are done, with their checks; those of the
\* current one have passed or are still to do.
ChecksKept ==
    Running =>
       /\ \A i \in 1..(run.at - 1) :
             /\ run.steps[i] \in run.done
             /\ ~run.req.skipChecks =>
                   \A c \in ToSet(ChecksBy[repo][run.steps[i]]) : PassedFor(run.steps[i], c)
       /\ run.pc \in Checking =>
             \A c \in ToSet(ChecksBy[repo][Step]) : c \in ToSet(run.todo) \/ PassedFor(Step, c)

\* The invocation that puts resources of mode m in place.
PutBy(m) == CASE m = "create" -> 1 [] m = "replace" -> 3 [] m = "serverside-force" -> 4
              [] m = "serverside" -> 5 [] OTHER -> 6

\* Step i of the run is through with resource k.
Through(i, k) ==
    \/ i < run.at
    \/ i = run.at /\ run.pc \notin {"preflight", "apply"}
    \/ i = run.at /\ run.pc = "apply" /\ PutBy(Mode[k[1]]) < run.inv

\* Between the delete and the apply of replace mode.
TakenAway(k) ==
    run.pc = "apply" /\ run.inv = 3 /\ Mode[k[1]] = "replace" /\ k \in Taken(Step)

\* What a step is through with is there as the last such step made it (without
\* HiddenErrors).
AppliedSoFar ==
    Running /\ Applies =>
       \A i \in 1..run.at : \A k \in Taken(run.steps[i]) :
          Through(i, k) =>
             IF Mode[k[1]] = "create" THEN cluster[k] # NoObject
             ELSE \/ TakenAway(k)
                  \/ \E j \in i..run.at :
                        /\ cluster[k] = [ver |-> source, by |-> run.steps[j]]
                        /\ \A m \in (j + 1)..run.at : k \in Taken(run.steps[m]) => ~Through(m, k)

RunInv == Counted /\ Planned /\ Stands /\ ChecksKept

================================================================================
