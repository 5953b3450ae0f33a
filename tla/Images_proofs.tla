----------------------------- MODULE Images_proofs -----------------------------
(****************************************************************************)
(* TLAPS proofs about Images: for every set of commands running at once,    *)
(* any of them at any time on the node, the cache and the bucket, for every *)
(* set of references, images, published tags, leftovers and faults.         *)
(****************************************************************************)
EXTENDS Images, TLAPS

VerbNames == {"none", "cache", "load", "push", "preload", "purge"}

Command == [pc : Pcs, verb : VerbNames, ref : Refs \cup {NoRef}, keep : BOOLEAN,
            want : Digests \cup {""}, digest : Digests \cup {""}, staging : Layouts,
            listed : BOOLEAN, before : SUBSET NameForms, found : SUBSET Files,
            todo : SUBSET (Blobs \cup Refs \cup Rows), idx : [Refs -> Entries]]

ProcOK == proc \in [Procs -> Command]

LEMMA IdleType == Idle \in Command
<1>1. NoLayout \in Layouts /\ NoIndex \in [Refs -> Entries]
  BY DEF NoLayout, Layouts, NoIndex, Entries
<1>2. "idle" \in Pcs /\ "none" \in VerbNames
  BY DEF Pcs, VerbNames
<1> QED
  BY <1>1, <1>2 DEF Idle, Command

\* A layout as pulled has the files of its image.
LEMMA FilesType ==
    ASSUME NEW d \in Digests
    PROVE  /\ FilesOf(d) \subseteq Files /\ "index.json" \in FilesOf(d) /\ "oci-layout" \in FilesOf(d)
           /\ Manifests \subseteq FilesOf(d)
           /\ FilesOf(d) \ Manifests = BlobsOf[d] /\ BlobsOf[d] \subseteq Blobs
<1>1. /\ FilesOf(d) \subseteq Files /\ "index.json" \in FilesOf(d) /\ "oci-layout" \in FilesOf(d)
      /\ BlobsOf[d] \subseteq Blobs /\ Manifests \subseteq FilesOf(d)
  BY DEF FilesOf, Files, Manifests, Blobs
<1>2. FilesOf(d) \ Manifests = BlobsOf[d]
  BY BlobsAssumption DEF FilesOf, Manifests
<1> QED
  BY <1>1, <1>2

LEMMA LayoutType ==
    ASSUME NEW n \in Refs, NEW d \in Digests
    PROVE  Layout(n, d) \in Layouts
  BY FilesType DEF Layout, Layouts

LEMMA LayoutShapes ==
    /\ NoLayout \in Layouts /\ Broken \in Layouts /\ NoLayout # Broken
    /\ NoLayout.files = {} /\ Broken.files = {"oci-layout"}
  BY DEF Broken, NoLayout, Layouts, Files, Manifests

LEMMA PcsType == CachePcs \cup LoadPcs \cup PushPcs \cup PreloadPcs \cup {"idle", "purge"} \subseteq Pcs
  BY DEF Pcs

LEMMA ProcStep ==
    ASSUME ProcOK, NEW p \in Procs, NEW rec \in Command, Step(p, rec)
    PROVE  ProcOK' /\ proc'[p] = rec /\ \A q \in Procs \ {p} : proc'[q] = proc[q]
  BY DEF ProcOK, Step

LEMMA ProcGoto ==
    ASSUME ProcOK, NEW p \in Procs, NEW l \in Pcs, Goto(p, l)
    PROVE  ProcOK' /\ proc'[p] = [proc[p] EXCEPT !.pc = l]
<1>1. [proc[p] EXCEPT !.pc = l] \in Command
  BY DEF ProcOK, Command
<1> QED
  BY <1>1, ProcStep DEF Goto

LEMMA ProcDone ==
    ASSUME ProcOK, NEW p \in Procs, Done(p)
    PROVE  ProcOK' /\ proc'[p] = Idle /\ proc'[p].pc = "idle" /\ proc'[p].verb = "none"
<1>1. ProcOK' /\ proc'[p] = Idle
  BY IdleType, ProcStep DEF Done
<1>2. Idle.pc = "idle" /\ Idle.verb = "none"
  BY DEF Idle
<1> QED
  BY <1>1, <1>2

\* A reference resolves to a digest.
LEMMA DigestOfType ==
    ASSUME TypeOK, NEW r \in Refs
    PROVE  DigestOf(r) \in Digests
<1>1. CASE r.dig # ""
  BY <1>1, RefsAssumption DEF DigestOf
<1>2. CASE r.dig = ""
  <2>1. r.tag # "" /\ [r EXCEPT !.dig = ""] = r
    BY <1>2, RefsAssumption
  <2>2. r \in TagRefs
    BY <2>1 DEF TagRefs
  <2> QED
    BY <1>2, <2>2 DEF DigestOf, TypeOK
<1> QED
  BY <1>1, <1>2

LEMMA NoRefIsNone == NoRef \notin Refs
  BY RefsAssumption DEF NoRef

--------------------------------------------------------------------------------
(* Names on the node *)

LEMMA BareName ==
    ASSUME NEW d \in Digests
    PROVE  Bare(d) \in NameForms /\ \A r \in Refs : r # Bare(d) /\ CanonicalForm(r) # Bare(d)
<1>1. Bare(d) \in NameForms /\ Bare(d).repo = "sha256"
  BY DEF Bare, NameForms
<1>2. ASSUME NEW r \in Refs PROVE r.repo # "sha256" /\ CanonicalForm(r).repo # "sha256"
  <2>1. r = [repo |-> r.repo, tag |-> r.tag, dig |-> r.dig]
    BY RefsAssumption
  <2>2. CanonicalForm(r).repo = Canonical[r.repo]
    BY <2>1 DEF CanonicalForm
  <2> QED
    BY <2>2, ReposAssumption
<1> QED
  BY <1>1, <1>2

LEMMA RefNames ==
    ASSUME NEW r \in Refs
    PROVE  r \in NameForms /\ CanonicalForm(r) \in NameForms
<1>1. r = [repo |-> r.repo, tag |-> r.tag, dig |-> r.dig] /\ r.dig \in Digests \cup {""}
  BY RefsAssumption
<1>2. r.repo \in UNION {{q.repo, Canonical[q.repo]} : q \in Refs} /\ r.tag \in {q.tag : q \in Refs}
  OBVIOUS
<1>3. Canonical[r.repo] \in UNION {{q.repo, Canonical[q.repo]} : q \in Refs}
  OBVIOUS
<1>4. r \in NameForms
  <2>1. [repo |-> r.repo, tag |-> r.tag, dig |-> r.dig] \in NameForms
    BY <1>1, <1>2 DEF NameForms
  <2> QED
    BY <1>1, <2>1
<1>5. CanonicalForm(r) \in NameForms
  BY <1>3, <1>4 DEF CanonicalForm, NameForms
<1> QED
  BY <1>4, <1>5

LEMMA AliasNames ==
    ASSUME NEW n \in NameForms, NEW d \in Digests
    PROVE  aliasFor(n, d) \subseteq NameForms
<1> USE DEF NameForms
<1>1. [n EXCEPT !.tag = "", !.dig = d] \in NameForms
  OBVIOUS
<1>2. [n EXCEPT !.tag = ""] \in NameForms /\ [n EXCEPT !.tag = "latest"] \in NameForms
  OBVIOUS
<1> QED
  BY <1>1, <1>2 DEF aliasFor

\* Rows are keyed by name.
KeyedRows(rs) == rs \subseteq Rows /\ \A a, b \in rs : a.name = b.name => a = b

\* Held after the step.
HeldNext(d) == [name |-> Bare(d), digest |-> d] \in rows'

LEMMA ImportRows ==
    ASSUME KeyedRows(rows), NEW n \in Refs, NEW d \in Digests
    PROVE  /\ KeyedRows(Import(n, d))
           /\ [name |-> Bare(d), digest |-> d] \in Import(n, d)
           /\ \A e \in Digests : Held(e) => [name |-> Bare(e), digest |-> e] \in Import(n, d)
<1>1. n \in NameForms /\ Bare(d) \in NameForms /\ n # Bare(d)
  BY RefNames, BareName
<1>2. KeyedRows(Import(n, d))
  BY <1>1 DEF KeyedRows, Import, Rows
<1>3. ASSUME NEW e \in Digests, Held(e) PROVE [name |-> Bare(e), digest |-> e] \in Import(n, d)
  <2>1. Bare(e) # n
    BY BareName
  <2>2. CASE Bare(e) = Bare(d)
    BY <2>2 DEF Bare, Import
  <2>3. CASE Bare(e) # Bare(d)
    BY <1>3, <2>1, <2>3 DEF Held, Import
  <2> QED
    BY <2>2, <2>3
<1> QED
  BY <1>2, <1>3 DEF Import

LEMMA TagRows ==
    ASSUME KeyedRows(rows), NEW from, NEW to \in NameForms, NEW force \in BOOLEAN
    PROVE  /\ KeyedRows(Tag(rows, from, to, force))
           /\ ~force => rows \subseteq Tag(rows, from, to, force)
           /\ \A d \in Digests : Held(d) /\ to # Bare(d) =>
                  [name |-> Bare(d), digest |-> d] \in Tag(rows, from, to, force)
<1> DEFINE hit == {r \in rows : r.name = from}
           new == {[name |-> to, digest |-> r.digest] : r \in hit}
           kept == {r \in rows : r.name # to}
<1>1. CASE hit = {} \/ (~force /\ \E r \in rows : r.name = to)
  BY <1>1 DEF Tag, Held
<1>2. CASE ~(hit = {} \/ (~force /\ \E r \in rows : r.name = to))
  <2>1. Tag(rows, from, to, force) = kept \cup new
    BY <1>2 DEF Tag
  <2>2. \A a, b \in hit : a = b
    BY DEF KeyedRows
  <2>3. new \subseteq Rows /\ \A a, b \in new : a = b
    BY <2>2 DEF KeyedRows, Rows
  <2>4. \A a \in new : a.name = to
    OBVIOUS
  <2>5. KeyedRows(kept \cup new)
    BY <2>3, <2>4 DEF KeyedRows
  <2>6. ~force => rows \subseteq kept \cup new
    BY <1>2
  <2>7. \A d \in Digests : Held(d) /\ to # Bare(d) => [name |-> Bare(d), digest |-> d] \in kept
    BY DEF Held
  <2> QED
    BY <2>1, <2>5, <2>6, <2>7
<1> QED
  BY <1>1, <1>2

--------------------------------------------------------------------------------
(* Type correctness *)

\* Where Cache returns to: the end of the command, the push or the import.
LEMMA ReturnsStep ==
    ASSUME ProcOK, NEW p \in Procs, CacheReturns(p)
    PROVE  /\ ProcOK'
           /\ proc'[p].pc \in {"idle", "walk", "before"}
           /\ \/ proc'[p] = Idle
              \/ /\ proc[p].verb \in {"push", "load"}
                 /\ proc'[p].pc = IF proc[p].verb = "push" THEN "walk" ELSE "before"
                 /\ proc'[p].verb = proc[p].verb /\ proc'[p].ref = proc[p].ref
                 /\ proc'[p].keep = proc[p].keep /\ proc'[p].want = proc[p].want
                 /\ proc'[p].digest = proc[p].digest
                 /\ proc'[p].staging = IF proc[p].keep THEN NoLayout ELSE proc[p].staging
<1>c. proc[p] \in Command /\ NoLayout \in Layouts
  BY DEF ProcOK, NoLayout, Layouts
<1>1. CASE Cached(p) = "idle"
  BY <1>1, ProcDone DEF CacheReturns
<1>2. CASE Cached(p) # "idle"
  <2>1. /\ Cached(p) = IF proc[p].verb = "push" THEN "walk" ELSE "before"
        /\ proc[p].verb \in {"push", "load"} /\ Cached(p) \in Pcs
    BY <1>2, PcsType DEF Cached, LoadPcs, PushPcs
  <2> DEFINE rec == [proc[p] EXCEPT !.pc = Cached(p),
                                    !.staging = IF proc[p].keep THEN NoLayout ELSE @]
  <2>2. rec \in Command
    BY <1>c, <2>1 DEF Command
  <2>3. Step(p, rec)
    BY <1>2 DEF CacheReturns
  <2>4. ProcOK' /\ proc'[p] = rec
    BY <2>2, <2>3, ProcStep
  <2>5. /\ rec.pc = Cached(p) /\ rec.verb = proc[p].verb /\ rec.ref = proc[p].ref
        /\ rec.keep = proc[p].keep /\ rec.want = proc[p].want /\ rec.digest = proc[p].digest
        /\ rec.staging = IF proc[p].keep THEN NoLayout ELSE proc[p].staging
    BY <1>c DEF Command
  <2> HIDE DEF rec
  <2> QED
    BY <2>1, <2>4, <2>5
<1> QED
  BY <1>1, <1>2

\* A step of a command is a step of that command alone.
LEMMA OthersKeep ==
    ASSUME ProcOK, NEW p \in Procs, Begin(p) \/ Works(p) \/ Fail(p), NEW q \in Procs \ {p}
    PROVE  proc'[q] = proc[q]
<1>0. UNCHANGED proc => proc'[q] = proc[q]
  OBVIOUS
<1>1. ASSUME NEW rec, Step(p, rec) PROVE proc'[q] = proc[q]
  BY <1>1 DEF Step, ProcOK
<1>2. CASE Begin(p) \/ Fail(p)
  BY <1>1, <1>2 DEF Begin, Fail, Done
<1>3. CASE Head(p) \/ Check(p) \/ Pull(p) \/ Clear(p) \/ Move(p) \/ Purge(p)
  BY <1>0, <1>1, <1>3 DEF Head, Check, Pull, Clear, Move, Purge, CacheReturns, Goto, Done
<1>4. CASE Resolve(p) \/ Present(p) \/ Before(p) \/ ImportLayout(p) \/ After(p) \/ Alias(p)
  BY <1>1, <1>4 DEF Resolve, Present, Before, ImportLayout, After, Alias, Goto, Done
<1>5. CASE Walk(p) \/ Probe(p) \/ Upload(p) \/ StatManifests(p) \/ PutLayout(p) \/ PutIndex(p)
           \/ ReadIndex(p) \/ WriteIndex(p)
  BY <1>1, <1>5 DEF Walk, Probe, Upload, StatManifests, PutLayout, PutIndex, PutManifest,
                    ReadIndex, WriteIndex, Goto, Done
<1>6. CASE PreIndex(p) \/ Fetch(p) \/ Retag(p)
  BY <1>1, <1>6 DEF PreIndex, Fetch, Retag, Done
<1> QED
  BY <1>2, <1>3, <1>4, <1>5, <1>6 DEF Works

\* What a command has when it begins.
LEMMA BeginStep ==
    ASSUME ProcOK, NEW p \in Procs, Begin(p)
    PROVE  /\ ProcOK'
           /\ proc'[p].pc \in {"head", "resolve", "preindex", "purge"}
           /\ proc'[p].pc = "head" => proc'[p].verb \in {"cache", "push"} /\ proc'[p].ref \in Refs
           /\ proc'[p].pc = "resolve" => proc'[p].verb = "load" /\ proc'[p].ref \in Refs
           /\ proc'[p].pc = "preindex" => proc'[p].verb = "preload" /\ proc'[p].ref = NoRef
           /\ proc'[p].pc = "purge" => proc'[p].verb = "purge"
           /\ proc'[p].verb = "push" => proc'[p].keep
<1>1. PICK v \in Verbs[p], r \in Refs, k \in BOOLEAN :
         Step(p, CASE v \in {"cache", "push"} -> [Idle EXCEPT !.pc = "head", !.verb = v, !.ref = r]
                   [] v = "load"    -> [Idle EXCEPT !.pc = "resolve", !.verb = v, !.ref = r, !.keep = k]
                   [] v = "preload" -> [Idle EXCEPT !.pc = "preindex", !.verb = v]
                   [] v = "purge"   -> [Idle EXCEPT !.pc = "purge", !.verb = v])
  BY DEF Begin
<1>2. v \in {"cache", "load", "push", "preload", "purge"}
  BY VerbsAssumption
<1>3. {"head", "resolve", "preindex", "purge"} \subseteq Pcs
  BY DEF Pcs, CachePcs, LoadPcs, PreloadPcs
<1>4. CASE v \in {"cache", "push"}
  <2>1. [Idle EXCEPT !.pc = "head", !.verb = v, !.ref = r] \in Command
    BY <1>3, <1>4, IdleType DEF Command, VerbNames
  <2>2. ProcOK' /\ proc'[p] = [Idle EXCEPT !.pc = "head", !.verb = v, !.ref = r]
    BY <1>1, <1>4, <2>1, ProcStep
  <2> QED
    BY <1>4, <2>2 DEF Idle
<1>5. CASE v = "load"
  <2>1. [Idle EXCEPT !.pc = "resolve", !.verb = v, !.ref = r, !.keep = k] \in Command
    BY <1>3, <1>5, IdleType DEF Command, VerbNames
  <2>2. ProcOK' /\ proc'[p] = [Idle EXCEPT !.pc = "resolve", !.verb = v, !.ref = r, !.keep = k]
    BY <1>1, <1>5, <2>1, ProcStep
  <2> QED
    BY <1>5, <2>2 DEF Idle
<1>6. CASE v = "preload"
  <2>1. [Idle EXCEPT !.pc = "preindex", !.verb = v] \in Command
    BY <1>3, <1>6, IdleType DEF Command, VerbNames
  <2>2. ProcOK' /\ proc'[p] = [Idle EXCEPT !.pc = "preindex", !.verb = v]
    BY <1>1, <1>6, <2>1, ProcStep
  <2> QED
    BY <1>6, <2>2 DEF Idle
<1>7. CASE v = "purge"
  <2>1. [Idle EXCEPT !.pc = "purge", !.verb = v] \in Command
    BY <1>3, <1>7, IdleType DEF Command, VerbNames
  <2>2. ProcOK' /\ proc'[p] = [Idle EXCEPT !.pc = "purge", !.verb = v]
    BY <1>1, <1>7, <2>1, ProcStep
  <2> QED
    BY <1>7, <2>2 DEF Idle
<1> QED
  BY <1>2, <1>4, <1>5, <1>6, <1>7

\* Moving on without a change but of the program counter.
LEMMA GotoFields ==
    ASSUME ProcOK, NEW p \in Procs, NEW l \in Pcs, Goto(p, l)
    PROVE  /\ ProcOK' /\ proc'[p].pc = l
           /\ proc'[p].verb = proc[p].verb /\ proc'[p].ref = proc[p].ref
           /\ proc'[p].keep = proc[p].keep /\ proc'[p].want = proc[p].want
           /\ proc'[p].digest = proc[p].digest /\ proc'[p].staging = proc[p].staging
           /\ proc'[p].found = proc[p].found
           /\ proc'[p].todo = proc[p].todo /\ proc'[p].idx = proc[p].idx
<1>1. ProcOK' /\ proc'[p] = [proc[p] EXCEPT !.pc = l] /\ proc[p] \in Command
  BY ProcGoto DEF ProcOK
<1> QED
  BY <1>1 DEF Command

--------------------------------------------------------------------------------
\* A command's own record, for each of its steps.
LEMMA IdlePull == PullInv(Idle)
  BY DEF PullInv, Idle, CachePcs, LoadPcs, PushPcs, PreloadPcs

LEMMA DonePull ==
    ASSUME ProcOK, NEW p \in Procs, Done(p)
    PROVE  ProcOK' /\ PullInv(proc'[p])
  BY ProcDone, IdlePull

LEMMA ReturnsPull ==
    ASSUME ProcOK, NEW p \in Procs, CacheReturns(p), PullInv(proc[p]),
           proc[p].digest \in Digests, proc[p].pc # "resolve",
           ~proc[p].keep => proc[p].staging = Layout(proc[p].ref, proc[p].digest)
    PROVE  ProcOK' /\ PullInv(proc'[p])
<1>1. CASE proc'[p] = Idle
  BY <1>1, ReturnsStep, IdlePull
<1>2. CASE proc'[p] # Idle
  <2> DEFINE n == proc'[p]
  <2>1. /\ proc[p].verb \in {"push", "load"}
        /\ n.pc = IF proc[p].verb = "push" THEN "walk" ELSE "before"
        /\ n.verb = proc[p].verb /\ n.ref = proc[p].ref /\ n.want = proc[p].want
        /\ n.digest = proc[p].digest /\ n.keep = proc[p].keep
        /\ n.staging = IF proc[p].keep THEN NoLayout ELSE proc[p].staging
    BY <1>2, ReturnsStep
  <2>2. proc[p].ref \in Refs /\ (proc[p].verb = "load" => proc[p].want \in Digests)
    BY <2>1 DEF PullInv
  <2> HIDE DEF n
  <2>3. CASE proc[p].verb = "push"
    <3>1. n.pc = "walk" /\ n.verb = "push" /\ n.ref \in Refs /\ n.digest \in Digests /\ n.keep
      BY <2>1, <2>2, <2>3 DEF PullInv
    <3> QED
      BY <3>1, ReturnsStep DEF PullInv, CachePcs, LoadPcs, PushPcs, PreloadPcs, n
  <2>4. CASE proc[p].verb = "load"
    <3>1. /\ n.pc = "before" /\ n.verb = "load" /\ n.ref \in Refs /\ n.digest \in Digests
          /\ n.want \in Digests /\ (~n.keep => n.staging = Layout(n.ref, n.digest))
      BY <2>1, <2>2, <2>4
    <3> QED
      BY <3>1, ReturnsStep DEF PullInv, CachePcs, LoadPcs, PushPcs, PreloadPcs, n
  <2> QED
    BY <2>1, <2>3, <2>4
<1> QED
  BY <1>1, <1>2

LEMMA ProcWorks ==
    ASSUME TypeOK, ProcOK, NEW p \in Procs, PullInv(proc[p]), NodeInv(proc[p]), Works(p)
    PROVE  ProcOK' /\ PullInv(proc'[p])
<1>c. proc[p] \in Command
  BY DEF ProcOK
<1>t. /\ layouts \in [Digests -> Layouts] /\ index \in [Refs -> Entries]
      /\ rows \subseteq Rows /\ shared \subseteq Blobs /\ NoLayout \in Layouts
  BY DEF TypeOK, NoLayout, Layouts
<1>i. PullInv(proc[p])
  OBVIOUS
<1>1. CASE Head(p)
  <2> DEFINE rec == [proc[p] EXCEPT !.pc = "check", !.digest = DigestOf(proc[p].ref)]
  <2>1. DigestOf(proc[p].ref) \in Digests
    BY <1>i, <1>1, DigestOfType DEF Head, At, PullInv, CachePcs
  <2>2. rec \in Command
    BY <1>c, <1>t, <2>1, PcsType DEF Command, CachePcs, LoadPcs, PushPcs, PreloadPcs
  <2>3. PullInv(rec)
    BY <1>c, <1>i, <1>1, <2>1 DEF Head, At, PullInv, Command, CachePcs, LoadPcs, PushPcs, PreloadPcs
  <2>4. Step(p, rec)
    BY <1>1 DEF Head
  <2> HIDE DEF rec
  <2> QED
    BY <2>2, <2>3, <2>4, ProcStep
<1>2. CASE Check(p)
  <2>1. proc[p].digest \in Digests /\ proc[p].pc = "check"
    BY <1>i, <1>2 DEF Check, At, PullInv, CachePcs
  <2>2. CASE proc[p].keep /\ layoutExists(proc[p].digest)
    BY <1>i, <1>2, <2>1, <2>2, ReturnsPull DEF Check
  <2>3. CASE ~(proc[p].keep /\ layoutExists(proc[p].digest))
    <3>1. Goto(p, "pull") /\ "pull" \in Pcs
      BY <1>2, <2>3, PcsType DEF Check, CachePcs
    <3> QED
      BY <1>i, <2>1, <3>1, GotoFields DEF PullInv, CachePcs, LoadPcs, PushPcs, PreloadPcs
  <2> QED
    BY <2>2, <2>3
<1>3. CASE Pull(p)
  <2> DEFINE rec == [proc[p] EXCEPT !.pc = "clear", !.staging = Layout(proc[p].ref, proc[p].digest)]
  <2>0. proc[p].digest \in Digests /\ proc[p].ref \in Refs
    BY <1>i, <1>3 DEF Pull, At, PullInv, CachePcs
  <2>1. proc[p].digest \in Digests /\ Layout(proc[p].ref, proc[p].digest) \in Layouts
    BY <2>0, LayoutType
  <2>2. rec \in Command
    BY <1>c, <1>t, <2>1, PcsType DEF Command, CachePcs, LoadPcs, PushPcs, PreloadPcs
  <2>3. PullInv(rec)
    BY <1>c, <1>i, <1>3, <2>1 DEF Pull, At, PullInv, Command, CachePcs, LoadPcs, PushPcs, PreloadPcs
  <2>4. Step(p, rec)
    BY <1>3 DEF Pull
  <2> HIDE DEF rec
  <2> QED
    BY <2>2, <2>3, <2>4, ProcStep
<1>4. CASE Clear(p)
  <2>1. proc[p].digest \in Digests /\ proc[p].pc = "clear"
    BY <1>i, <1>4 DEF Clear, At, PullInv, CachePcs
  <2>2. CASE ~proc[p].keep
    <3>1. proc[p].staging = Layout(proc[p].ref, proc[p].digest)
      BY <1>i, <2>1 DEF PullInv
    <3> QED
      BY <1>i, <1>4, <2>1, <2>2, <3>1, ReturnsPull DEF Clear
  <2>3. CASE proc[p].keep /\ Goto(p, "move")
    <3>1. Goto(p, "move") /\ "move" \in Pcs
      BY <2>3, PcsType DEF CachePcs
    <3> QED
      BY <1>i, <2>1, <3>1, GotoFields DEF PullInv, CachePcs, LoadPcs, PushPcs, PreloadPcs
  <2>4. CASE UNCHANGED proc
    BY <1>i, <2>4 DEF ProcOK
  <2> QED
    BY <1>4, <2>2, <2>3, <2>4 DEF Clear
<1>5. CASE Move(p)
  <2>1. proc[p].digest \in Digests
    BY <1>i, <1>5 DEF Move, At, PullInv, CachePcs
  <2>2. CASE Done(p)
    BY <2>2, DonePull
  <2>3. CASE CacheReturns(p)
    <3>1. proc[p].staging = Layout(proc[p].ref, proc[p].digest) /\ proc[p].pc = "move"
      BY <1>i, <1>5 DEF Move, At, PullInv
    <3> QED
      BY <1>i, <2>1, <2>3, <3>1, ReturnsPull
  <2> QED
    BY <1>5, <2>2, <2>3 DEF Move
<1>6. CASE Purge(p)
  <2>1. CASE UNCHANGED proc
    BY <1>i, <2>1 DEF ProcOK
  <2> QED
    BY <1>6, <2>1, DonePull DEF Purge
<1>7. CASE Resolve(p)
  <2> DEFINE rec == [proc[p] EXCEPT !.pc = "present", !.want = DigestOf(proc[p].ref)]
  <2>1. DigestOf(proc[p].ref) \in Digests
    BY <1>i, <1>7, DigestOfType DEF Resolve, At, PullInv, LoadPcs
  <2>2. rec \in Command
    BY <1>c, <1>t, <2>1, PcsType DEF Command, CachePcs, LoadPcs, PushPcs, PreloadPcs
  <2>3. PullInv(rec)
    BY <1>c, <1>i, <1>7, <2>1 DEF Resolve, At, PullInv, Command, CachePcs, LoadPcs, PushPcs, PreloadPcs
  <2>4. Step(p, rec)
    BY <1>7 DEF Resolve
  <2> HIDE DEF rec
  <2> QED
    BY <2>2, <2>3, <2>4, ProcStep
<1>8. CASE Present(p)
  <2>1. ASSUME Goto(p, "head") PROVE ProcOK' /\ PullInv(proc'[p])
    <3>1. "head" \in Pcs /\ proc[p].pc = "present" /\ proc[p].verb = "load"
      BY <1>i, <1>8, PcsType DEF Present, At, PullInv, CachePcs, LoadPcs
    <3> QED
      BY <1>i, <2>1, <3>1, GotoFields DEF PullInv, CachePcs, LoadPcs, PushPcs, PreloadPcs
  <2> QED
    BY <1>8, <2>1, DonePull DEF Present
<1>9. CASE Before(p)
  <2>n. Names \subseteq NameForms
    BY <1>t DEF Names, Rows
  <2> DEFINE full == [proc[p] EXCEPT !.pc = "import", !.listed = TRUE, !.before = Names]
             bare == [proc[p] EXCEPT !.pc = "import"]
  <2>1. full \in Command /\ bare \in Command
    BY <1>c, <2>n, PcsType DEF Command, LoadPcs
  <2>2. PullInv(full) /\ PullInv(bare)
    BY <1>c, <1>i, <1>9 DEF Before, At, PullInv, Command, CachePcs, LoadPcs, PushPcs, PreloadPcs
  <2>3. Step(p, full) \/ Step(p, bare)
    BY <1>9 DEF Before
  <2> HIDE DEF full, bare
  <2> QED
    BY <2>1, <2>2, <2>3, ProcStep
<1>10. CASE ImportLayout(p)
  <2> DEFINE rec == [proc[p] EXCEPT !.pc = "after", !.staging = NoLayout]
  <2>1. rec \in Command
    BY <1>c, <1>t, PcsType DEF Command, LoadPcs
  <2>2. PullInv(rec)
    BY <1>c, <1>i, <1>10 DEF ImportLayout, At, PullInv, Command, CachePcs, LoadPcs, PushPcs, PreloadPcs
  <2>3. Step(p, rec) \/ Done(p)
    BY <1>10 DEF ImportLayout
  <2> HIDE DEF rec
  <2> QED
    BY <2>1, <2>2, <2>3, ProcStep, DonePull
<1>11. CASE After(p)
  <2> DEFINE left0 == {r \in rows : r.name \notin proc[p].before
                                      /\ aliasFor(r.name, r.digest) \ proc[p].before # {}}
             rec == [proc[p] EXCEPT !.pc = "alias", !.todo = left0]
  <2>0. left0 \subseteq Blobs \cup Refs \cup Rows
    BY <1>t
  <2>3. Step(p, rec) \/ Done(p)
    BY <1>11 DEF After
  <2> HIDE DEF left0
  <2>1. rec \in Command
    BY <1>c, <2>0, PcsType DEF Command, LoadPcs
  <2>2. PullInv(rec)
    BY <1>c, <1>i, <1>11 DEF After, At, PullInv, Command, CachePcs, LoadPcs, PushPcs, PreloadPcs
  <2> HIDE DEF rec
  <2> QED
    BY <2>1, <2>2, <2>3, ProcStep, DonePull
<1>12. CASE Alias(p)
  <2>1. ASSUME NEW r, Step(p, [proc[p] EXCEPT !.todo = @ \ {r}])
        PROVE  ProcOK' /\ PullInv(proc'[p])
    <3> DEFINE rec == [proc[p] EXCEPT !.todo = @ \ {r}]
    <3>1. rec \in Command
      BY <1>c DEF Command
    <3>2. PullInv(rec)
      BY <1>c, <1>i DEF PullInv, Command
    <3>3. Step(p, rec)
      BY <2>1
    <3> HIDE DEF rec
    <3> QED
      BY <3>1, <3>2, <3>3, ProcStep
  <2> QED
    BY <1>12, <2>1, DonePull DEF Alias
<1>13. CASE Walk(p)
  <2> DEFINE rec == [proc[p] EXCEPT !.pc = "probe", !.found = Local(p).files]
  <2>1. Local(p).files \subseteq Files
    BY <1>i, <1>t, <1>13 DEF Walk, At, PullInv, PushPcs, Local, Layouts
  <2>2. rec \in Command
    BY <1>c, <2>1, PcsType DEF Command, PushPcs
  <2>3. PullInv(rec)
    BY <1>c, <1>i, <1>13 DEF Walk, At, PullInv, Command, CachePcs, LoadPcs, PushPcs, PreloadPcs
  <2>4. Step(p, rec) \/ Done(p)
    BY <1>13 DEF Walk
  <2> HIDE DEF rec
  <2> QED
    BY <2>2, <2>3, <2>4, ProcStep, DonePull
<1>14. CASE Probe(p)
  <2>1. (proc[p].found \ Manifests) \ shared \subseteq Blobs \cup Refs \cup Rows
    BY <1>c DEF Command, Files
  <2> DEFINE gone == (proc[p].found \ Manifests) \ shared
             rec == [proc[p] EXCEPT !.pc = "upload", !.todo = gone]
  <2>4. Step(p, rec)
    BY <1>14 DEF Probe
  <2> HIDE DEF gone
  <2>2. rec \in Command
    BY <1>c, <2>1, PcsType DEF Command, PushPcs, gone
  <2>3. PullInv(rec)
    BY <1>c, <1>i, <1>14 DEF Probe, At, PullInv, Command, CachePcs, LoadPcs, PushPcs, PreloadPcs
  <2> HIDE DEF rec
  <2> QED
    BY <2>2, <2>3, <2>4, ProcStep
<1>15. CASE Upload(p)
  <2>1. ASSUME NEW r, Step(p, [proc[p] EXCEPT !.todo = @ \ {r}])
        PROVE  ProcOK' /\ PullInv(proc'[p])
    <3> DEFINE rec == [proc[p] EXCEPT !.todo = @ \ {r}]
    <3>1. rec \in Command
      BY <1>c DEF Command
    <3>2. PullInv(rec)
      BY <1>c, <1>i DEF PullInv, Command
    <3>3. Step(p, rec)
      BY <2>1
    <3> HIDE DEF rec
    <3> QED
      BY <3>1, <3>2, <3>3, ProcStep
  <2>2. ASSUME Goto(p, "stat") PROVE ProcOK' /\ PullInv(proc'[p])
    <3>1. "stat" \in Pcs /\ proc[p].pc = "upload"
      BY <1>15, PcsType DEF Upload, At, PushPcs
    <3> QED
      BY <1>i, <2>2, <3>1, GotoFields DEF PullInv, CachePcs, LoadPcs, PushPcs, PreloadPcs
  <2> QED
    BY <1>15, <2>1, <2>2, DonePull DEF Upload
<1>16. CASE StatManifests(p) \/ PutLayout(p) \/ PutIndex(p)
  <2>1. ASSUME NEW l \in {"readindex", "manifest", "sentinel"}, Goto(p, l)
        PROVE  ProcOK' /\ PullInv(proc'[p])
    <3>1. l \in Pcs /\ proc[p].pc \in {"stat", "manifest", "sentinel"}
      BY <1>16, PcsType DEF StatManifests, PutLayout, PutIndex, At, PushPcs
    <3> QED
      BY <1>i, <2>1, <3>1, GotoFields DEF PullInv, CachePcs, LoadPcs, PushPcs, PreloadPcs
  <2> QED
    BY <1>16, <2>1, DonePull DEF StatManifests, PutLayout, PutIndex, PutManifest
<1>17. CASE ReadIndex(p)
  <2> DEFINE rec == [proc[p] EXCEPT !.pc = "writeindex", !.idx = index]
  <2>2. rec \in Command
    BY <1>c, <1>t, PcsType DEF Command, CachePcs, LoadPcs, PushPcs, PreloadPcs
  <2>3. PullInv(rec)
    BY <1>c, <1>i, <1>17 DEF ReadIndex, At, PullInv, Command, CachePcs, LoadPcs, PushPcs, PreloadPcs
  <2>4. Step(p, rec)
    BY <1>17 DEF ReadIndex
  <2> HIDE DEF rec
  <2> QED
    BY <2>2, <2>3, <2>4, ProcStep
<1>18. CASE WriteIndex(p)
  BY <1>18, DonePull DEF WriteIndex
<1>19. CASE PreIndex(p)
  <2> DEFINE refs == {r \in Refs : index[r] # NoEntry}
             rec == [proc[p] EXCEPT !.pc = "fetch", !.idx = index, !.todo = refs]
  <2>3. Step(p, rec) \/ Done(p)
    BY <1>19 DEF PreIndex
  <2>0. refs \subseteq Refs
    OBVIOUS
  <2> HIDE DEF refs
  <2>1. rec \in Command
    BY <1>c, <1>t, <2>0, PcsType DEF Command, PreloadPcs
  <2>2. PullInv(rec)
    <3>1. proc[p].verb \notin {"load"} \/ proc[p].want \in Digests
      BY <1>i, <1>19 DEF PreIndex, At, PullInv
    <3> QED
      BY <1>c, <1>i, <1>19, <3>1 DEF PreIndex, At, PullInv, Command, CachePcs, LoadPcs, PushPcs, PreloadPcs
  <2> HIDE DEF rec
  <2> QED
    BY <2>1, <2>2, <2>3, ProcStep, DonePull
<1>20. CASE Fetch(p)
  <2> DEFINE r == CHOOSE x \in proc[p].todo : TRUE
             rec == [proc[p] EXCEPT !.pc = "retag", !.ref = r]
  <2>0. r \in Refs
    BY <1>20 DEF Fetch, At, NodeInv
  <2>3. Step(p, rec) \/ Done(p)
    BY <1>20 DEF Fetch
  <2> HIDE DEF r
  <2>1. rec \in Command
    BY <1>c, <2>0, PcsType DEF Command, PreloadPcs
  <2>2. PullInv(rec)
    BY <1>c, <1>i, <1>20, <2>0 DEF Fetch, At, PullInv, Command, CachePcs, LoadPcs, PushPcs, PreloadPcs
  <2> HIDE DEF rec
  <2> QED
    BY <2>1, <2>2, <2>3, ProcStep, DonePull
<1>21. CASE Retag(p)
  <2> DEFINE rec == [proc[p] EXCEPT !.pc = "fetch", !.todo = @ \ {proc[p].ref}, !.ref = NoRef]
  <2>0. proc[p].verb \notin {"cache", "push", "load"}
    BY <1>i, <1>21 DEF Retag, At, PullInv, PreloadPcs
  <2>3. Step(p, rec) \/ Done(p)
    BY <1>21 DEF Retag
  <2>1. rec \in Command
    BY <1>c, PcsType DEF Command, PreloadPcs
  <2>2. PullInv(rec)
    BY <1>c, <1>i, <1>21, <2>0 DEF Retag, At, PullInv, Command, CachePcs, LoadPcs, PushPcs, PreloadPcs
  <2> HIDE DEF rec
  <2> QED
    BY <2>1, <2>2, <2>3, ProcStep, DonePull
<1> QED
  BY <1>1, <1>2, <1>3, <1>4, <1>5, <1>6, <1>7, <1>8, <1>9, <1>10, <1>11, <1>12, <1>13, <1>14,
     <1>15, <1>16, <1>17, <1>18, <1>19, <1>20, <1>21 DEF Works

--------------------------------------------------------------------------------
\* The files, the bucket and the node, for each step.

\* What ctr is given on import is the image resolved first.
LEMMA SourceFields ==
    ASSUME TypeOK, ProcOK, CacheInv, NEW p \in Procs, PullInv(proc[p]), At(p, "import"),
           "index.json" \in Source(p).files
    PROVE  /\ Source(p).name \in Refs /\ Source(p).image = proc[p].want
           /\ proc[p].want \in Digests
<1>1. /\ proc[p].want \in Digests /\ proc[p].ref \in Refs
      /\ ~proc[p].keep => proc[p].staging = Layout(proc[p].ref, proc[p].digest)
  BY DEF At, PullInv, LoadPcs
<1>2. CASE proc[p].keep
  BY <1>1, <1>2 DEF Source, CacheInv
<1>3. CASE ~proc[p].keep
  BY <1>1, <1>3, LayoutShapes DEF Source, Layout
<1> QED
  BY <1>2, <1>3

FetchedRef(p) == CHOOSE x \in proc[p].todo : TRUE

LEMMA FetchType ==
    ASSUME TypeOK, ProcOK, NEW p \in Procs, NodeInv(proc[p]), At(p, "fetch")
    PROVE  LET r == FetchedRef(p)
               e == proc[p].idx[r]
           IN  /\ r \in proc[p].todo /\ r \in Refs
               /\ e \in Entries /\ e # NoEntry /\ e.v \in {1, 2} /\ e.digest \in Digests
               /\ oci[<<r, e.digest>>] \in Objects
<1> DEFINE r == FetchedRef(p)
           e == proc[p].idx[r]
<1>1. r \in proc[p].todo /\ proc[p].todo \subseteq {q \in Refs : proc[p].idx[q] # NoEntry}
  BY DEF At, NodeInv, FetchedRef
<1>2. r \in Refs /\ e # NoEntry
  BY <1>1
<1>3. e \in Entries
  BY <1>2 DEF ProcOK, Command
<1>4. e.v \in {1, 2} /\ e.digest \in Digests
  BY <1>2, <1>3 DEF Entries
<1>5. oci[<<r, e.digest>>] \in Objects
  BY <1>2, <1>4 DEF TypeOK
<1> QED
  BY <1>1, <1>2, <1>3, <1>4, <1>5

\* What a pre-load fetched is the image its entry names.
LEMMA FetchFields ==
    ASSUME TypeOK, ProcOK, ObjectsInv, NEW p \in Procs, NodeInv(proc[p]), At(p, "fetch"),
           Fetchable(FetchedRef(p), proc[p].idx[FetchedRef(p)]),
           "index.json" \in proc[p].idx[FetchedRef(p)].files
    PROVE  LET r == FetchedRef(p)
               e == proc[p].idx[r]
               o == oci[<<r, e.digest>>]
           IN  o.name \in Refs /\ o.image = e.digest /\ e.digest \in Digests
<1> DEFINE r == FetchedRef(p)
           e == proc[p].idx[r]
<1>1. r \in Refs /\ e.digest \in Digests
  BY FetchType
<1>2. "index.json" \in oci[<<r, e.digest>>].files
  BY DEF Fetchable, Manifests
<1>3. <<r, e.digest>> \in Refs \X Digests
  BY <1>1
<1> QED
  BY <1>1, <1>2, <1>3 DEF ObjectsInv

LEMMA KeyedType ==
    ASSUME TypeOK
    PROVE  KeyedRows(rows)
  BY DEF TypeOK, KeyedRows

\* The rows after a step are keyed, and what was held is held.
LEMMA RowsWorks ==
    ASSUME TypeOK, ProcOK, NEW p \in Procs, PullInv(proc[p]), NodeInv(proc[p]), CacheInv,
           ObjectsInv, Works(p)
    PROVE  KeyedRows(rows') /\ \A d \in Digests : Held(d) => HeldNext(d)
<1>k. KeyedRows(rows)
  BY KeyedType
<1>u. ASSUME rows' = rows PROVE KeyedRows(rows') /\ \A d \in Digests : Held(d) => HeldNext(d)
  BY <1>k, <1>u DEF Held, HeldNext
<1>1. CASE ImportLayout(p) /\ rows' # rows
  <2>1. Complete(Source(p)) \/ Manifests \subseteq Source(p).files
    BY <1>1 DEF ImportLayout, ImportFails
  <2>2. rows' = Import(Source(p).name, Source(p).image)
    BY <1>1 DEF ImportLayout, ImportFails
  <2>3. Source(p).name \in Refs /\ Source(p).image \in Digests
    <3>1. "index.json" \in Source(p).files
      BY <2>1, FilesType DEF Complete, Manifests
    <3> QED
      BY <1>1, <3>1, SourceFields DEF ImportLayout
  <2> QED
    BY <1>k, <2>2, <2>3, ImportRows DEF Held, HeldNext
<1>2. CASE Fetch(p) /\ rows' # rows
  <2> DEFINE r == FetchedRef(p)
             o == oci[<<r, proc[p].idx[r].digest>>]
  <2>0. /\ rows' = Import(o.name, o.image) /\ Fetchable(r, proc[p].idx[r])
        /\ \/ [o EXCEPT !.files = proc[p].idx[r].files].files = FilesOf(o.image) /\ o.image \in Digests
           \/ Manifests \subseteq [o EXCEPT !.files = proc[p].idx[r].files].files
    <3>1. o \in Objects
      BY <1>2, FetchType DEF Fetch
    <3>2. [o EXCEPT !.files = proc[p].idx[r].files].image = o.image
          /\ [o EXCEPT !.files = proc[p].idx[r].files].name = o.name
      BY <3>1 DEF Objects
    <3> QED
      BY <1>2, <3>2 DEF Fetch, FetchedRef, Complete, ImportFails
  <2>1. "index.json" \in proc[p].idx[r].files
    <3>1. o \in Objects
      BY <1>2, FetchType DEF Fetch
    <3>2. [o EXCEPT !.files = proc[p].idx[r].files].files = proc[p].idx[r].files
      BY <3>1 DEF Objects
    <3> QED
      BY <2>0, <3>2, FilesType DEF Manifests
  <2>3. o.name \in Refs /\ o.image \in Digests
    BY <1>2, <2>0, <2>1, FetchFields DEF Fetch
  <2> HIDE DEF o
  <2> QED
    BY <1>k, <2>0, <2>3, ImportRows DEF Held, HeldNext
<1>3. CASE Alias(p) /\ rows' # rows
  <2> DEFINE r == CHOOSE x \in proc[p].todo : TRUE
  <2>1. proc[p].todo # {} /\ \E a \in aliasFor(r.name, r.digest) : rows' = Tag(rows, r.name, a, FALSE)
    BY <1>3 DEF Alias
  <2>2. r \in Rows
    BY <1>3, <2>1 DEF Alias, At, NodeInv
  <2>3. r.name \in NameForms /\ r.digest \in Digests
    BY <2>2 DEF Rows
  <2> HIDE DEF r
  <2>4. PICK a \in NameForms : rows' = Tag(rows, r.name, a, FALSE)
    BY <2>1, <2>3, AliasNames
  <2>5. KeyedRows(rows') /\ rows \subseteq rows'
    BY <1>k, <2>4, TagRows
  <2> QED
    BY <2>5 DEF Held, HeldNext
<1>4. CASE Retag(p) /\ rows' # rows
  <2>1. proc[p].ref \in Refs
    BY <1>4 DEF Retag, At, NodeInv
  <2>2. canonicalAliasesForKubelet(proc[p].ref) # {}
    BY <1>4 DEF Retag
  <2>3. (CHOOSE a \in canonicalAliasesForKubelet(proc[p].ref) : TRUE) = CanonicalForm(proc[p].ref)
    BY <2>2 DEF canonicalAliasesForKubelet
  <2>4. rows' = Tag(rows, proc[p].ref, CanonicalForm(proc[p].ref), TRUE)
    BY <1>4, <2>2, <2>3 DEF Retag
  <2>5. /\ CanonicalForm(proc[p].ref) \in NameForms
        /\ \A d \in Digests : CanonicalForm(proc[p].ref) # Bare(d)
    BY <2>1, RefNames, BareName
  <2> QED
    BY <1>k, <2>4, <2>5, TagRows DEF Held, HeldNext
<1>5. CASE ~(ImportLayout(p) \/ Fetch(p) \/ Alias(p) \/ Retag(p))
  BY <1>5, <1>u
     DEF Works, Head, Check, Pull, Clear, Move, Purge, Resolve, Present, Before, After, Walk,
         Probe, Upload, StatManifests, PutLayout, PutIndex, PutManifest, ReadIndex, WriteIndex,
         PreIndex
<1> QED
  BY <1>u, <1>1, <1>2, <1>3, <1>4, <1>5

\* A directory once removed in part is remembered, and no step leaves a leftover
\* like an older release's.
CacheKeeps ==
    /\ torn \subseteq torn'
    /\ \A d \in Digests : d \notin torn' /\ layouts'[d] = Broken => layouts[d] = Broken

\* The cache's directories after a step are layouts of their digest, leftovers or
\* known to be removed in part.
LEMMA CacheWorks ==
    ASSUME TypeOK, ProcOK, NEW p \in Procs, PullInv(proc[p]), CacheInv, Works(p)
    PROVE  /\ layouts' \in [Digests -> Layouts] /\ torn' \subseteq Digests
           /\ CacheInv' /\ CacheKeeps
<1>t. layouts \in [Digests -> Layouts] /\ torn \subseteq Digests
  BY DEF TypeOK
<1>u. ASSUME layouts' = layouts, torn' = torn
      PROVE  layouts' \in [Digests -> Layouts] /\ torn' \subseteq Digests /\ CacheInv' /\ CacheKeeps
  BY <1>t, <1>u DEF CacheInv, CacheKeeps
<1>r. ASSUME NEW d \in Digests, Removed(d)
      PROVE  layouts' \in [Digests -> Layouts] /\ torn' \subseteq Digests /\ CacheInv' /\ CacheKeeps
  <2>1. layouts' = [layouts EXCEPT ![d] = NoLayout] /\ torn' = torn
    BY <1>r DEF Removed
  <2> QED
    BY <1>t, <2>1, LayoutShapes DEF CacheInv, CacheKeeps
<1>l. ASSUME NEW d \in Digests, Unlinked(d)
      PROVE  layouts' \in [Digests -> Layouts] /\ torn' \subseteq Digests /\ CacheInv' /\ CacheKeeps
  <2>1. PICK f \in layouts[d].files : layouts' = [layouts EXCEPT ![d].files = @ \ {f}]
    BY <1>l DEF Unlinked
  <2>2. torn' = torn \cup {d}
    BY <1>l DEF Unlinked
  <2>3. layouts' \in [Digests -> Layouts]
    BY <1>t, <2>1 DEF Layouts
  <2>4. /\ layouts'[d].name = layouts[d].name /\ layouts'[d].image = layouts[d].image
        /\ layouts'[d].files \subseteq layouts[d].files
        /\ \A x \in Digests \ {d} : layouts'[x] = layouts[x]
    BY <1>t, <2>1 DEF Layouts
  <2> QED
    BY <1>t, <2>2, <2>3, <2>4 DEF CacheInv, CacheKeeps
<1>1. CASE Clear(p)
  <2>1. proc[p].digest \in Digests
    BY <1>1 DEF Clear, At, PullInv, CachePcs
  <2> QED
    BY <1>1, <1>u, <1>r, <1>l, <2>1 DEF Clear, cached
<1>2. CASE Move(p) /\ layouts' # layouts
  <2> DEFINE c == proc[p]
  <2>1. layouts' = [layouts EXCEPT ![c.digest] = c.staging] /\ torn' = torn
    BY <1>2 DEF Move
  <2>2. c.staging = Layout(c.ref, c.digest) /\ c.ref \in Refs /\ c.digest \in Digests
    BY <1>2 DEF Move, At, PullInv, CachePcs
  <2>3. c.staging \in Layouts
    BY <2>2, LayoutType
  <2>4. /\ c.staging.name = c.ref /\ c.staging.image = c.digest
        /\ c.staging.files = FilesOf(c.digest) /\ c.staging # Broken
    <3>1. "index.json" \in c.staging.files
      BY <2>2, FilesType DEF Layout
    <3> QED
      BY <2>2, <3>1, LayoutShapes DEF Layout
  <2> HIDE DEF c
  <2> QED
    BY <1>t, <2>1, <2>2, <2>3, <2>4 DEF CacheInv, CacheKeeps
<1>3. CASE Purge(p)
  BY <1>3, <1>u, <1>r, <1>l DEF Purge, cached
<1>4. CASE ~(Clear(p) \/ Purge(p)) /\ ~(Move(p) /\ layouts' # layouts)
  <2>1. layouts' = layouts /\ torn' = torn
    BY <1>4
       DEF cached, Works, Head, Check, Pull, Move, Resolve, Present, Before, ImportLayout, After,
           Alias, Walk, Probe, Upload, StatManifests, PutLayout, PutIndex, PutManifest, ReadIndex,
           WriteIndex, PreIndex, Fetch, Retag
  <2> QED
    BY <1>u, <2>1
<1> QED
  BY <1>1, <1>2, <1>3, <1>4

\* Only these steps write to the bucket.
BucketSteps(p) == Upload(p) \/ PutLayout(p) \/ PutIndex(p) \/ WriteIndex(p)

LEMMA BucketUnchanged ==
    ASSUME NEW p \in Procs, Works(p), ~BucketSteps(p)
    PROVE  UNCHANGED bucket
  BY DEF BucketSteps, Works, Head, Check, Pull, Clear, Move, Purge, Resolve, Present, Before,
         ImportLayout, After, Alias, Walk, Probe, StatManifests, ReadIndex, PreIndex, Fetch,
         Retag

\* What the bucket has it keeps: nothing a push writes takes something away
\* that an index entry may name.
BucketGrows ==
    /\ shared \subseteq shared'
    /\ \A k \in Refs \X Digests : oci[k].files \subseteq oci'[k].files

LEMMA BucketWorks ==
    ASSUME TypeOK, ProcOK, NEW p \in Procs, PullInv(proc[p]), PushInv(proc[p]), CacheInv,
           CacheKeeps, ObjectsInv, Works(p)
    PROVE  /\ shared' \subseteq Blobs /\ oci' \in [Refs \X Digests -> Objects]
           /\ index' \in [Refs -> Entries]
           /\ ObjectsInv' /\ BucketGrows
<1> DEFINE c == proc[p]
           k == <<c.ref, c.digest>>
<1>t. /\ oci \in [Refs \X Digests -> Objects] /\ index \in [Refs -> Entries] /\ shared \subseteq Blobs
      /\ c \in Command
  BY DEF TypeOK, ProcOK
<1>k. ASSUME BucketSteps(p) PROVE k \in Refs \X Digests /\ c.digest \in Digests /\ c.ref \in Refs
  BY <1>k DEF BucketSteps, Upload, PutLayout, PutIndex, PutManifest, WriteIndex, At, PullInv, PushPcs
<1>o. ASSUME UNCHANGED oci PROVE ObjectsInv' /\ oci' \in [Refs \X Digests -> Objects]
  BY <1>t, <1>o DEF ObjectsInv, CacheKeeps
<1>1. CASE Upload(p)
  <2>1. oci' = oci /\ index' = index
    BY <1>1 DEF Upload
  <2>2. shared \subseteq shared' /\ shared' \subseteq Blobs
    <3>1. CASE shared' = shared
      BY <1>t, <3>1
    <3>2. CASE shared' # shared
      <4>1. c.todo # {} /\ shared' = shared \cup {CHOOSE x \in c.todo : TRUE}
        BY <1>1, <3>2 DEF Upload
      <4>2. c.todo \subseteq Blobs
        BY <1>1 DEF Upload, At, PushInv
      <4> QED
        BY <1>t, <4>1, <4>2
    <3> QED
      BY <3>1, <3>2
  <2> QED
    BY <1>t, <1>o, <2>1, <2>2 DEF BucketGrows
<1>2. ASSUME NEW f \in Manifests, NEW next, PutManifest(p, f, next), BucketSteps(p),
             f = "index.json" => c.pc = "sentinel"
      PROVE  /\ shared' \subseteq Blobs /\ oci' \in [Refs \X Digests -> Objects]
             /\ index' \in [Refs -> Entries]
             /\ ObjectsInv' /\ BucketGrows
  <2>1. shared' = shared /\ index' = index
    BY <1>2 DEF PutManifest
  <2>2. CASE oci' = oci
    BY <1>t, <1>o, <2>1, <2>2 DEF BucketGrows
  <2>3. CASE oci' # oci
    <3> DEFINE from == IF f = "index.json" THEN Local(p) ELSE oci[k]
               new  == [name |-> from.name, image |-> from.image, files |-> oci[k].files \cup {f}]
    <3>1. k \in Refs \X Digests /\ k[2] = c.digest /\ oci[k] \in Objects
      BY <1>2, <1>k, <1>t
    <3>2. f \in Local(p).files /\ oci' = [oci EXCEPT ![k] = new]
      BY <1>2, <1>t, <2>3, <3>1 DEF PutManifest, Key
    <3>3. /\ new.files = oci[k].files \cup {f} /\ new.name = from.name /\ new.image = from.image
      OBVIOUS
    <3>4. f = "index.json" => from.name \in Refs /\ from.image = c.digest
      BY <1>2, <1>k, <3>2 DEF CacheInv, Local
    <3>5. f # "index.json" => from = oci[k]
      OBVIOUS
    <3>6. f = "index.json" /\ c.digest \notin torn => "oci-layout" \in oci[k].files
      BY <1>2 DEF PushInv
    <3>7. c.digest \in Digests
      BY <1>2, <1>k
    <3> HIDE DEF from
    <3>8. new \in Objects
      BY <3>1, <3>4, <3>5, <3>7 DEF Objects, Files
    <3> HIDE DEF new, k
    <3>9. oci' \in [Refs \X Digests -> Objects]
      BY <1>t, <3>1, <3>2, <3>8
    <3>10. BucketGrows
      BY <1>t, <2>1, <3>1, <3>2, <3>3 DEF BucketGrows
    <3>11. ASSUME NEW j \in Refs \X Digests, "index.json" \in oci'[j].files
           PROVE  /\ oci'[j].name \in Refs /\ oci'[j].image = j[2]
                  /\ j[2] \notin torn' => "oci-layout" \in oci'[j].files
      <4>1. CASE j # k
        BY <1>t, <3>2, <3>11, <4>1 DEF ObjectsInv, CacheKeeps
      <4>2. CASE j = k /\ f = "index.json"
        BY <1>t, <3>1, <3>2, <3>3, <3>4, <3>6, <4>2 DEF CacheKeeps
      <4>3. CASE j = k /\ f # "index.json"
        BY <1>t, <3>1, <3>2, <3>3, <3>5, <3>11, <4>3 DEF ObjectsInv, CacheKeeps
      <4> QED
        BY <4>1, <4>2, <4>3
    <3>12. ObjectsInv'
      BY <3>11 DEF ObjectsInv
    <3> QED
      BY <1>t, <2>1, <3>9, <3>10, <3>12
  <2> QED
    BY <2>2, <2>3
<1>3. CASE PutLayout(p) \/ PutIndex(p)
  BY <1>2, <1>3 DEF PutLayout, PutIndex, BucketSteps, Manifests, At
<1>4. CASE WriteIndex(p)
  <2>1. /\ shared' = shared /\ oci' = oci
        /\ index' = Upsert(c.idx, c.ref, Entry(2, c.digest, c.found))
    BY <1>4 DEF WriteIndex
  <2>2. c.idx \in [Refs -> Entries] /\ c.ref \in Refs /\ c.digest \in Digests /\ c.found \subseteq Files
    BY <1>4, <1>t, <1>k DEF BucketSteps, Command
  <2>3. index' \in [Refs -> Entries]
    BY <2>1, <2>2 DEF Upsert, Entry, Entries
  <2> QED
    BY <1>t, <1>o, <2>1, <2>3 DEF BucketGrows
<1>5. CASE ~BucketSteps(p)
  BY <1>t, <1>o, <1>5, BucketUnchanged DEF bucket, BucketGrows
<1> QED
  BY <1>1, <1>3, <1>4, <1>5 DEF BucketSteps

\* Complete after the step.
EntryNext(r, e) ==
    e # NoEntry /\ e.digest \notin torn' =>
        /\ e.files = FilesOf(e.digest)
        /\ IF e.v = 2
           THEN e.files \cap Manifests \subseteq oci'[<<r, e.digest>>].files /\ e.files \ Manifests \subseteq shared'
           ELSE e.files \subseteq oci'[<<r, e.digest>>].files

\* An entry that was complete still is.
LEMMA StillComplete ==
    ASSUME BucketGrows, CacheKeeps, NEW r \in Refs, NEW e \in Entries, EntryComplete(r, e)
    PROVE  EntryNext(r, e)
<1> SUFFICES ASSUME e # NoEntry, e.digest \notin torn'
             PROVE  EntryNext(r, e)
  BY DEF EntryNext
<1>1. e.digest \in Digests /\ e.digest \notin torn
  BY DEF Entries, CacheKeeps
<1>2. <<r, e.digest>> \in Refs \X Digests
  BY <1>1
<1>3. e.files = FilesOf(e.digest) /\ Fetchable(r, e)
  BY <1>1 DEF EntryComplete
<1> QED
  BY <1>2, <1>3 DEF EntryNext, Fetchable, BucketGrows

--------------------------------------------------------------------------------
(* Pushes *)

\* Other commands leave a push what it relies on.
LEMMA PushOthers ==
    ASSUME TypeOK, ProcOK, BucketGrows, CacheKeeps, NEW q \in Procs, PullInv(proc[q]), PushInv(proc[q]),
           proc'[q] = proc[q]
    PROVE  PushInv(proc[q])'
<1> DEFINE c == proc[q]
           k == <<c.ref, c.digest>>
<1>1. CASE c.pc \in PushPcs
  <2>1. k \in Refs \X Digests /\ c.digest \in Digests
    BY <1>1 DEF PullInv, PushPcs
  <2>2. /\ oci[k].files \subseteq oci'[k].files /\ shared \subseteq shared'
        /\ c.digest \notin torn' => c.digest \notin torn
        /\ c.digest \notin torn' /\ layouts'[c.digest] = Broken => layouts[c.digest] = Broken
    BY <2>1 DEF BucketGrows, CacheKeeps
  <2>3. ASSUME c.pc = "writeindex", NEW r \in Refs
        PROVE  EntryNext(r, c.idx[r])
    <3>1. c.idx[r] \in Entries
      BY DEF ProcOK, Command
    <3>2. EntryComplete(r, c.idx[r])
      BY <2>3 DEF PushInv
    <3> QED
      BY <3>1, <3>2, StillComplete
  <2>4. c.pc = "writeindex" => \A r \in Refs : EntryComplete(r, c.idx[r])'
    BY <2>3 DEF EntryNext, EntryComplete, Fetchable
  <2> QED
    BY <2>2, <2>4 DEF PushInv
<1>2. CASE c.pc \notin PushPcs
  BY <1>2 DEF PushInv, PushPcs
<1> QED
  BY <1>1, <1>2

\* A command outside of a push relies on nothing in the bucket.
LEMMA NoPush ==
    ASSUME NEW p \in Procs, proc'[p].pc \notin PushPcs
    PROVE  PushInv(proc[p])'
  BY DEF PushInv, PushPcs

\* A push begins where the cache has the image it resolved.
LEMMA WalkBegins ==
    ASSUME TypeOK, ProcOK, NEW p \in Procs, PullInv(proc[p]), CacheKeeps,
           Check(p) \/ Clear(p) \/ Move(p), CacheReturns(p)
    PROVE  PushInv(proc[p])'
<1> DEFINE c == proc[p]
           n == proc'[p]
<1>1. CASE n.pc # "walk"
  BY <1>1, ReturnsStep, NoPush DEF PushPcs
<1>2. CASE n.pc = "walk"
  <2>1. c.verb = "push" /\ c.keep /\ n.digest = c.digest
    <3>0. Idle.pc = "idle"
      BY DEF Idle
    <3>1. n # Idle
      BY <1>2, <3>0
    <3>2. c.verb = "push" /\ n.digest = c.digest
      BY <1>2, <3>1, ReturnsStep
    <3> QED
      BY <3>2 DEF PullInv
  <2>2. c.digest \in Digests
    BY DEF Check, Clear, Move, At, PullInv, CachePcs
  <2>3. layoutExists(c.digest) => layouts[c.digest] # Broken
    BY LayoutShapes DEF layoutExists, Manifests
  <2>4. layouts'[c.digest] # Broken
    <3>1. CASE Check(p)
      <4>1. ~Goto(p, "pull")
        BY <1>2, <3>1, GotoFields, PcsType DEF CachePcs
      <4> QED
        BY <2>3, <3>1, <4>1 DEF Check, cached
    <3>2. CASE Clear(p)
      <4>1. Goto(p, "move") \/ UNCHANGED proc
        BY <2>1, <3>2 DEF Clear
      <4>2. Goto(p, "move") => n.pc = "move"
        BY GotoFields, PcsType DEF CachePcs
      <4>3. UNCHANGED proc => n.pc = "clear"
        BY <3>2 DEF Clear, At
      <4> QED
        BY <1>2, <4>1, <4>2, <4>3
    <3>3. CASE Move(p) /\ layouts[c.digest].there
      <4>1. ~Done(p)
        BY <1>2, ProcDone
      <4> QED
        BY <2>3, <3>3, <4>1 DEF Move
    <3>4. CASE Move(p) /\ ~layouts[c.digest].there
      <4>1. layouts'[c.digest] = c.staging /\ c.staging = Layout(c.ref, c.digest)
        BY <2>2, <3>4 DEF Move, TypeOK, At, PullInv
      <4>2. "index.json" \in c.staging.files
        BY <2>2, <4>1, FilesType DEF Layout
      <4> QED
        BY <4>1, <4>2, LayoutShapes
    <3> QED
      BY <3>1, <3>2, <3>3, <3>4
  <2> QED
    BY <1>2, <2>1, <2>4 DEF PushInv
<1> QED
  BY <1>1, <1>2

LEMMA PushWorks ==
    ASSUME TypeOK, ProcOK, NEW p \in Procs, PullInv(proc[p]), PushInv(proc[p]), CacheInv, CacheKeeps,
           ObjectsInv, IndexComplete, BucketGrows, Works(p)
    PROVE  PushInv(proc[p])'
<1> DEFINE c == proc[p]
           k == <<c.ref, c.digest>>
           n == proc'[p]
<1>t. c \in Command /\ torn \subseteq torn'
  BY DEF ProcOK, CacheKeeps
<1>d. ASSUME Done(p) PROVE PushInv(proc[p])'
  BY <1>d, ProcDone, NoPush DEF PushPcs
<1>s. ASSUME NEW rec, Step(p, rec) PROVE n = rec
  BY <1>s DEF Step, ProcOK
<1>g. ASSUME NEW l \in PushPcs, Goto(p, l)
      PROVE  /\ n.pc = l /\ n.digest = c.digest /\ n.ref = c.ref /\ n.found = c.found
             /\ n.todo = c.todo
  BY <1>g, GotoFields, PcsType
<1>k. ASSUME c.pc \in PushPcs PROVE k \in Refs \X Digests /\ c.digest \in Digests
  BY <1>k DEF PullInv, PushPcs
<1>0. CASE Walk(p) /\ ~Done(p)
  <2>1. n = [c EXCEPT !.pc = "probe", !.found = Local(p).files] /\ Local(p).files # {}
    BY <1>0, <1>s DEF Walk
  <2>2. n.pc = "probe" /\ n.digest = c.digest /\ n.found = Local(p).files
    BY <1>t, <2>1 DEF Command
  <2>3. c.digest \in Digests /\ c.pc = "walk"
    BY <1>0, <1>k DEF Walk, At, PushPcs
  <2>4. c.digest \notin torn => Local(p).files = FilesOf(c.digest)
    BY <2>1, <2>3, LayoutShapes DEF PushInv, CacheInv, Local
  <2> QED
    BY <1>t, <2>2, <2>4 DEF PushInv
<1>1. CASE Probe(p)
  <2>1. shared' = shared /\ c.pc = "probe"
    BY <1>1 DEF Probe, bucket, At
  <2>2. n = [c EXCEPT !.pc = "upload", !.todo = (c.found \ Manifests) \ shared]
    BY <1>1, <1>s DEF Probe
  <2>3. /\ n.pc = "upload" /\ n.todo = (c.found \ Manifests) \ shared /\ n.digest = c.digest
        /\ n.found = c.found
    BY <1>t, <2>2 DEF Command
  <2>4. c.found \ Manifests \subseteq Blobs
    BY <1>t DEF Command, Files
  <2>5. c.digest \notin torn' => c.found = FilesOf(c.digest)
    BY <1>t, <2>1 DEF PushInv, PushPcs
  <2> QED
    BY <2>1, <2>3, <2>4, <2>5 DEF PushInv
<1>2. CASE Upload(p)
  <2>0. /\ c.pc = "upload" /\ (c.found \ Manifests) \ shared \subseteq c.todo /\ c.todo \subseteq Blobs
        /\ c.digest \notin torn' => c.found = FilesOf(c.digest)
    BY <1>t, <1>2 DEF Upload, At, PushInv, PushPcs
  <2>1. CASE Goto(p, "stat") /\ c.todo = {} /\ shared' = shared
    <3>1. /\ n.pc = "stat" /\ n.digest = c.digest /\ n.found = c.found
      BY <2>1, <1>g DEF PushPcs
    <3> QED
      BY <2>0, <2>1, <3>1 DEF PushInv
  <2>2. ASSUME NEW b, shared' = shared \cup {b}, Step(p, [c EXCEPT !.todo = @ \ {b}])
        PROVE  PushInv(proc[p])'
    <3>1. n = [c EXCEPT !.todo = @ \ {b}]
      BY <2>2, <1>s
    <3>2. /\ n.pc = "upload" /\ n.digest = c.digest /\ n.todo = c.todo \ {b}
          /\ n.found = c.found
      BY <1>t, <2>0, <3>1 DEF Command
    <3> QED
      BY <2>0, <2>2, <3>2 DEF PushInv
  <2> QED
    BY <1>2, <1>d, <2>1, <2>2 DEF Upload
<1>3. CASE StatManifests(p)
  <2>1. /\ UNCHANGED bucket /\ c.found \ Manifests \subseteq shared
        /\ c.digest \notin torn' => c.found = FilesOf(c.digest)
    BY <1>t, <1>3 DEF StatManifests, At, PushInv, PushPcs
  <2>2. CASE "index.json" \in oci[k].files
    <3>1. /\ n.pc = "readindex" /\ n.digest = c.digest /\ n.found = c.found /\ n.ref = c.ref
      BY <1>3, <1>g, <2>2 DEF StatManifests, PushPcs, Key
    <3> QED
      BY <2>1, <2>2, <3>1 DEF PushInv, bucket
  <2>3. CASE "index.json" \notin oci[k].files
    <3>1. /\ n.pc = "manifest" /\ n.digest = c.digest /\ n.found = c.found /\ n.ref = c.ref
      BY <1>3, <1>g, <2>3 DEF StatManifests, PushPcs, Key
    <3> QED
      BY <2>1, <3>1 DEF PushInv, bucket
  <2> QED
    BY <2>2, <2>3
<1>4. ASSUME NEW f \in Manifests, NEW next \in PushPcs, PutManifest(p, f, next), ~Done(p),
             c.pc \in {"manifest", "sentinel"}
      PROVE  /\ n.pc = next /\ n.digest = c.digest /\ n.ref = c.ref /\ n.found = c.found
             /\ c.found \ Manifests \subseteq shared'
             /\ c.digest \notin torn' => c.found = FilesOf(c.digest) /\ f \in oci'[k].files
  <2>1. Goto(p, next) /\ shared' = shared
    BY <1>4 DEF PutManifest
  <2>2. /\ n.pc = next /\ n.digest = c.digest /\ n.ref = c.ref /\ n.found = c.found
    BY <1>g, <2>1
  <2>3. c.found \ Manifests \subseteq shared /\ (c.digest \notin torn' => c.found = FilesOf(c.digest))
    BY <1>t, <1>4 DEF PushInv, PushPcs
  <2>4. k \in Refs \X Digests /\ c.digest \in Digests
    BY <1>4, <1>k DEF PushPcs
  <2>5. c.digest \notin torn' => f \in oci'[k].files
    <3>1. SUFFICES ASSUME c.digest \notin torn' PROVE f \in oci'[k].files
      OBVIOUS
    <3>2. f \in c.found
      BY <2>3, <2>4, <3>1, FilesType
    <3>3. oci' = [oci EXCEPT ![k] =
              LET o == IF f = "index.json" THEN Local(p) ELSE @ IN
              [name |-> o.name, image |-> o.image, files |-> @.files \cup {f}]]
      BY <1>4, <3>2 DEF PutManifest, Key
    <3> HIDE DEF k
    <3> QED
      BY <2>4, <3>3 DEF TypeOK
  <2> QED
    BY <2>1, <2>2, <2>3, <2>5
<1>5. CASE PutLayout(p) /\ ~Done(p)
  <2>1. /\ n.pc = "sentinel" /\ n.digest = c.digest /\ n.ref = c.ref /\ n.found = c.found
        /\ c.found \ Manifests \subseteq shared'
        /\ c.digest \notin torn' => c.found = FilesOf(c.digest) /\ "oci-layout" \in oci'[k].files
    BY <1>4, <1>5 DEF PutLayout, At, PushPcs, Manifests
  <2> QED
    BY <2>1 DEF PushInv
<1>6. CASE PutIndex(p) /\ ~Done(p)
  <2>1. /\ n.pc = "readindex" /\ n.digest = c.digest /\ n.ref = c.ref /\ n.found = c.found
        /\ c.found \ Manifests \subseteq shared'
        /\ c.digest \notin torn' => c.found = FilesOf(c.digest) /\ "index.json" \in oci'[k].files
    BY <1>4, <1>6 DEF PutIndex, At, PushPcs, Manifests
  <2> QED
    BY <2>1 DEF PushInv
<1>7. CASE ReadIndex(p)
  <2>1. /\ UNCHANGED <<bucket, torn>> /\ c.found \ Manifests \subseteq shared
        /\ c.digest \notin torn => c.found = FilesOf(c.digest) /\ "index.json" \in oci[k].files
    BY <1>7 DEF ReadIndex, At, PushInv, PushPcs, cached
  <2>2. n = [c EXCEPT !.pc = "writeindex", !.idx = index]
    BY <1>7, <1>s DEF ReadIndex
  <2>3. /\ n.pc = "writeindex" /\ n.idx = index /\ n.digest = c.digest /\ n.ref = c.ref
        /\ n.found = c.found
    BY <1>t, <2>2 DEF Command
  <2>4. \A r \in Refs : EntryComplete(r, index[r])'
    BY <2>1 DEF IndexComplete, EntryComplete, Fetchable, bucket
  <2>5. \A r \in Refs : EntryComplete(r, proc[p].idx[r])'
    BY <2>1, <2>3, <2>4 DEF EntryComplete, Fetchable, bucket
  <2> QED
    BY <2>1, <2>3, <2>5 DEF PushInv, bucket
<1>8. CASE WriteIndex(p)
  BY <1>8, <1>d DEF WriteIndex
<1>9. CASE Check(p) \/ Clear(p) \/ Move(p)
  <2>1. CASE CacheReturns(p)
    BY <1>9, <2>1, WalkBegins
  <2>2. CASE ~CacheReturns(p) /\ ~Done(p)
    <3>1. ASSUME NEW l \in Pcs, Goto(p, l) PROVE n.pc = l
      BY <3>1, GotoFields
    <3>2. n.pc \notin PushPcs
      BY <1>9, <2>2, <3>1, PcsType DEF Check, Clear, Move, At, CachePcs, PushPcs
    <3> QED
      BY <3>2, NoPush
  <2> QED
    BY <1>d, <2>1, <2>2
<1>10. CASE ~Done(p) /\
            \/ Head(p) \/ Pull(p) \/ Purge(p) \/ Resolve(p)
            \/ Present(p) \/ Before(p) \/ ImportLayout(p) \/ After(p) \/ Alias(p)
            \/ PreIndex(p) \/ Fetch(p) \/ Retag(p)
  <2>1. n.pc \notin PushPcs
    <3>1. CASE Head(p) \/ Resolve(p) \/ Pull(p)
      BY <1>t, <3>1, <1>s DEF Head, Resolve, Pull, Command, PushPcs
    <3>2. CASE Purge(p)
      BY <1>10, <3>2 DEF Purge, PushPcs, At
    <3>3. CASE Present(p)
      BY <1>10, <3>3, GotoFields, PcsType DEF Present, CachePcs, PushPcs
    <3>4. CASE Before(p) \/ ImportLayout(p) \/ After(p)
      BY <1>t, <1>10, <3>4, <1>s DEF Before, ImportLayout, After, Command, PushPcs
    <3>5. CASE Alias(p)
      BY <1>t, <1>10, <3>5, <1>s DEF Alias, At, Command, PushPcs
    <3>6. CASE PreIndex(p) \/ Fetch(p) \/ Retag(p)
      BY <1>t, <1>10, <3>6, <1>s DEF PreIndex, Fetch, Retag, Command, PushPcs
    <3> QED
      BY <1>10, <3>1, <3>2, <3>3, <3>4, <3>5, <3>6
  <2> QED
    BY <2>1, NoPush
<1> QED
  BY <1>d, <1>0, <1>1, <1>2, <1>3, <1>5, <1>6, <1>7, <1>8, <1>9, <1>10 DEF Works

\* The index stays complete: an entry is written when its objects are there.
LEMMA IndexWorks ==
    ASSUME TypeOK, ProcOK, NEW p \in Procs, PullInv(proc[p]), PushInv(proc[p]),
           ObjectsInv, IndexComplete, BucketGrows, CacheKeeps, Works(p)
    PROVE  IndexComplete'
<1> DEFINE c == proc[p]
<1>1. CASE WriteIndex(p)
  <2>1. /\ index' = [c.idx EXCEPT ![c.ref] = Entry(2, c.digest, c.found)]
        /\ UNCHANGED <<shared, oci, torn>>
    BY <1>1 DEF WriteIndex, Upsert, cached
  <2>2. c.idx \in [Refs -> Entries] /\ c.ref \in Refs /\ c.digest \in Digests
    BY <1>1 DEF WriteIndex, At, PullInv, PushPcs, ProcOK, Command
  <2>3. EntryComplete(c.ref, Entry(2, c.digest, c.found))
    <3> DEFINE e == Entry(2, c.digest, c.found)
    <3>1. e.v = 2 /\ e.digest = c.digest /\ e.files = c.found
      BY DEF Entry
    <3> HIDE DEF e
    <3> SUFFICES ASSUME e.digest \notin torn PROVE e.files = FilesOf(e.digest) /\ Fetchable(c.ref, e)
      BY DEF EntryComplete, e
    <3>2. /\ c.found = FilesOf(c.digest) /\ c.found \ Manifests \subseteq shared
          /\ "index.json" \in oci[<<c.ref, c.digest>>].files
      BY <1>1, <3>1 DEF WriteIndex, At, PushInv, PushPcs
    <3>3. "oci-layout" \in oci[<<c.ref, c.digest>>].files
      BY <2>2, <3>1, <3>2 DEF ObjectsInv
    <3> QED
      BY <3>1, <3>2, <3>3 DEF Fetchable, Manifests
  <2>4. \A r \in Refs : EntryComplete(r, c.idx[r])
    BY <1>1 DEF WriteIndex, At, PushInv
  <2>5. \A r \in Refs : EntryComplete(r, [c.idx EXCEPT ![c.ref] = Entry(2, c.digest, c.found)][r])
    BY <2>2, <2>3, <2>4
  <2> QED
    BY <2>1, <2>5 DEF IndexComplete, EntryComplete, Fetchable
<1>2. CASE ~WriteIndex(p)
  <2>1. index' = index
    BY <1>2, BucketUnchanged DEF BucketSteps, bucket, Upload, PutLayout, PutIndex, PutManifest
  <2>2. ASSUME NEW r \in Refs PROVE EntryNext(r, index[r])
    BY StillComplete DEF IndexComplete, TypeOK
  <2> QED
    BY <2>1, <2>2 DEF IndexComplete, EntryNext, EntryComplete, Fetchable
<1> QED
  BY <1>1, <1>2

--------------------------------------------------------------------------------
(* The node *)

\* What other commands import never takes a digest away.
LEMMA NodeOthers ==
    ASSUME TypeOK, ProcOK, NEW q \in Procs, PullInv(proc[q]), NodeInv(proc[q]),
           \A d \in Digests : Held(d) => HeldNext(d), proc'[q] = proc[q]
    PROVE  NodeInv(proc[q])'
<1> DEFINE c == proc[q]
<1>1. c.pc \in {"after", "alias"} => Held(c.want)'
  <2>1. c.pc \in {"after", "alias"} => Held(c.want) /\ c.want \in Digests
    BY DEF NodeInv, PullInv, LoadPcs
  <2> QED
    BY <2>1 DEF Held, HeldNext
<1>2. ASSUME c.pc \in {"fetch", "retag"}, NEW r \in Refs, c.idx[r] # NoEntry,
             r \notin c.todo \/ r = c.ref
      PROVE  Held(c.idx[r].digest)'
  <2>1. Held(c.idx[r].digest) /\ c.idx[r] \in Entries
    BY <1>2 DEF NodeInv, ProcOK, Command
  <2>2. c.idx[r].digest \in Digests
    BY <1>2, <2>1 DEF Entries
  <2> QED
    BY <2>1, <2>2 DEF Held, HeldNext
<1> QED
  BY <1>1, <1>2 DEF NodeInv, Held

LEMMA NoNode ==
    ASSUME NEW p \in Procs,
           proc'[p].pc \notin {"after", "alias", "preindex", "fetch", "retag"}
    PROVE  NodeInv(proc[p])'
  BY DEF NodeInv

LEMMA NodeWorks ==
    ASSUME TypeOK, ProcOK, NEW p \in Procs, PullInv(proc[p]), NodeInv(proc[p]), CacheInv,
           ObjectsInv, \A d \in Digests : Held(d) => HeldNext(d), Works(p)
    PROVE  NodeInv(proc[p])'
<1> DEFINE c == proc[p]
<1>t. c \in Command
  BY DEF ProcOK
<1>d. ASSUME Done(p) PROVE NodeInv(proc[p])'
  BY <1>d, ProcDone, NoNode
<1>s. ASSUME NEW rec, Step(p, rec) PROVE proc'[p] = rec
  BY <1>s DEF Step, ProcOK
<1>1. CASE ImportLayout(p) /\ ~Done(p)
  <2>1. /\ Complete(Source(p)) /\ rows' = Import(Source(p).name, Source(p).image)
        /\ proc'[p] = [c EXCEPT !.pc = "after", !.staging = NoLayout]
    BY <1>1, <1>s DEF ImportLayout
  <2>3. Source(p).image = c.want
    <3>1. "index.json" \in Source(p).files
      BY <2>1, FilesType DEF Complete
    <3> QED
      BY <1>1, <3>1, SourceFields DEF ImportLayout
  <2>4. HeldNext(c.want)
    BY <2>1, <2>3 DEF HeldNext, Import
  <2>5. proc'[p].pc = "after" /\ proc'[p].want = c.want
    BY <1>t, <2>1 DEF Command
  <2> QED
    BY <2>4, <2>5 DEF NodeInv, Held, HeldNext
<1>2. CASE After(p) /\ ~Done(p)
  <2> DEFINE new == {r \in rows : r.name \notin c.before /\ aliasFor(r.name, r.digest) \ c.before # {}}
  <2>1. proc'[p] = [c EXCEPT !.pc = "alias", !.todo = new] /\ rows' = rows
    BY <1>2, <1>s DEF After
  <2>2. new \subseteq Rows
    BY DEF TypeOK
  <2>3. Held(c.want)
    BY <1>2 DEF After, At, NodeInv
  <2> HIDE DEF new
  <2>4. proc'[p].pc = "alias" /\ proc'[p].want = c.want /\ proc'[p].todo = new
    BY <1>t, <2>1 DEF Command
  <2> QED
    BY <2>1, <2>2, <2>3, <2>4 DEF NodeInv, Held, HeldNext
<1>3. CASE Alias(p) /\ ~Done(p)
  <2>1. PICK r : proc'[p] = [c EXCEPT !.todo = @ \ {r}]
    BY <1>3, <1>s DEF Alias
  <2>2. c.pc = "alias" /\ Held(c.want) /\ c.want \in Digests /\ c.todo \subseteq Rows
    BY <1>3 DEF Alias, At, NodeInv, PullInv, LoadPcs
  <2>3. HeldNext(c.want)
    BY <2>2 DEF Held, HeldNext
  <2>4. proc'[p].pc = "alias" /\ proc'[p].want = c.want /\ proc'[p].todo \subseteq Rows
    BY <1>t, <2>1, <2>2 DEF Command
  <2> QED
    BY <2>3, <2>4 DEF NodeInv, Held, HeldNext
<1>4. CASE PreIndex(p) /\ ~Done(p)
  <2> DEFINE refs == {r \in Refs : index[r] # NoEntry}
  <2>1. proc'[p] = [c EXCEPT !.pc = "fetch", !.idx = index, !.todo = refs] /\ refs # {}
    BY <1>4, <1>s DEF PreIndex
  <2>2. c.ref = NoRef
    BY <1>4 DEF PreIndex, At, NodeInv
  <2>3. \A r \in Refs : index[r] # NoEntry => r \in refs /\ r # NoRef
    BY NoRefIsNone
  <2>4. refs \subseteq {r \in Refs : index[r] # NoEntry}
    OBVIOUS
  <2> HIDE DEF refs
  <2>5. /\ proc'[p].pc = "fetch" /\ proc'[p].idx = index /\ proc'[p].todo = refs
        /\ proc'[p].ref = NoRef
    BY <1>t, <2>1, <2>2 DEF Command
  <2> QED
    BY <2>1, <2>3, <2>4, <2>5 DEF NodeInv
<1>5. CASE Fetch(p) /\ ~Done(p)
  <2> DEFINE r == FetchedRef(p)
             o == oci[<<r, c.idx[r].digest>>]
  <2>1. /\ rows' = Import(o.name, o.image) /\ Fetchable(r, c.idx[r])
        /\ Complete([o EXCEPT !.files = c.idx[r].files])
        /\ proc'[p] = [c EXCEPT !.pc = "retag", !.ref = r]
    BY <1>5, <1>s DEF Fetch, FetchedRef
  <2>2. r \in c.todo /\ r \in Refs /\ c.idx[r].digest \in Digests /\ o \in Objects
    BY <1>5, FetchType DEF Fetch
  <2>3. o.image = c.idx[r].digest
    <3>1. "index.json" \in c.idx[r].files
      BY <2>1, <2>2, FilesType DEF Complete, Objects
    <3> QED
      BY <1>5, <2>1, <3>1, FetchFields DEF Fetch
  <2>4. HeldNext(c.idx[r].digest)
    BY <2>1, <2>3 DEF HeldNext, Import
  <2>5. /\ c.todo \subseteq {q \in Refs : c.idx[q] # NoEntry}
        /\ \A q \in Refs : c.idx[q] # NoEntry /\ q \notin c.todo => Held(c.idx[q].digest)
    BY <1>5 DEF Fetch, At, NodeInv
  <2>6. \A q \in Refs : c.idx[q] # NoEntry => c.idx[q].digest \in Digests
    BY <1>t DEF Command, Entries
  <2> HIDE DEF r
  <2>7. /\ proc'[p].pc = "retag" /\ proc'[p].ref = r /\ proc'[p].todo = c.todo
        /\ proc'[p].idx = c.idx
    BY <1>t, <2>1 DEF Command
  <2>8. ASSUME NEW q \in Refs, c.idx[q] # NoEntry, q \notin c.todo \/ q = r
        PROVE  HeldNext(c.idx[q].digest)
    BY <2>4, <2>5, <2>6, <2>8 DEF Held, HeldNext
  <2> QED
    BY <2>2, <2>5, <2>7, <2>8 DEF NodeInv, Held, HeldNext
<1>6. CASE Retag(p) /\ ~Done(p)
  <2>1. /\ proc'[p] = [c EXCEPT !.pc = "fetch", !.todo = @ \ {c.ref}, !.ref = NoRef]
        /\ c.todo # {c.ref}
    BY <1>6, <1>s DEF Retag
  <2>2. /\ c.ref \in c.todo /\ c.todo \subseteq {q \in Refs : c.idx[q] # NoEntry}
        /\ \A q \in Refs : c.idx[q] # NoEntry /\ (q \notin c.todo \/ q = c.ref)
              => Held(c.idx[q].digest)
    BY <1>6 DEF Retag, At, NodeInv
  <2>3. \A q \in Refs : c.idx[q] # NoEntry => c.idx[q].digest \in Digests
    BY <1>t DEF Command, Entries
  <2>4. /\ proc'[p].pc = "fetch" /\ proc'[p].ref = NoRef /\ proc'[p].todo = c.todo \ {c.ref}
        /\ proc'[p].idx = c.idx
    BY <1>t, <2>1 DEF Command
  <2>5. ASSUME NEW q \in Refs, c.idx[q] # NoEntry, q \notin c.todo \ {c.ref} \/ q = NoRef
        PROVE  HeldNext(c.idx[q].digest)
    <3>1. q # NoRef
      BY NoRefIsNone
    <3> QED
      BY <2>2, <2>3, <2>5, <3>1 DEF Held, HeldNext
  <2>6. c.todo \ {c.ref} # {}
    BY <2>1, <2>2
  <2> QED
    BY <2>2, <2>4, <2>5, <2>6 DEF NodeInv, Held, HeldNext
<1>7. CASE ~(ImportLayout(p) \/ After(p) \/ Alias(p) \/ PreIndex(p) \/ Fetch(p) \/ Retag(p))
  <2>1. proc'[p].pc \notin {"after", "alias", "preindex", "fetch", "retag"}
    <3>d. ASSUME Done(p) PROVE proc'[p].pc = "idle"
      BY <3>d, ProcDone
    <3>g. ASSUME NEW l \in Pcs, Goto(p, l) PROVE proc'[p].pc = l
      BY <3>g, GotoFields
    <3>r. ASSUME CacheReturns(p) PROVE proc'[p].pc \in {"idle", "walk", "before"}
      BY <3>r, ReturnsStep
    <3>1. CASE Head(p) \/ Resolve(p) \/ Pull(p)
      BY <1>t, <3>1, <1>s DEF Head, Resolve, Pull, Command
    <3>2. CASE Check(p) \/ Clear(p) \/ Move(p) \/ Purge(p)
      BY <3>2, <3>d, <3>g, <3>r, PcsType DEF Check, Clear, Move, Purge, CachePcs, At
    <3>3. CASE Present(p) \/ StatManifests(p) \/ PutLayout(p) \/ PutIndex(p)
      BY <3>3, <3>d, <3>g, PcsType
         DEF Present, StatManifests, PutLayout, PutIndex, PutManifest, CachePcs, PushPcs
    <3>4. CASE Before(p) \/ Walk(p) \/ Probe(p) \/ ReadIndex(p)
      BY <1>t, <3>4, <3>d, <1>s DEF Before, Walk, Probe, ReadIndex, Command
    <3>5. CASE Upload(p)
      BY <1>t, <3>5, <3>d, <3>g, <1>s, PcsType DEF Upload, At, Command, PushPcs
    <3>6. CASE WriteIndex(p)
      BY <3>6, <3>d DEF WriteIndex
    <3> QED
      BY <1>7, <3>1, <3>2, <3>3, <3>4, <3>5, <3>6 DEF Works
  <2> QED
    BY <2>1, NoNode
<1> QED
  BY <1>d, <1>1, <1>2, <1>3, <1>4, <1>5, <1>6, <1>7

--------------------------------------------------------------------------------
(* The inductive invariant *)

ImagesInv == TypeOK /\ ProcOK /\ DeliveryInv

LEMMA TypeFromParts ==
    ASSUME registry' \in [TagRefs -> Digests], layouts' \in [Digests -> Layouts],
           torn' \subseteq Digests, shared' \subseteq Blobs, oci' \in [Refs \X Digests -> Objects],
           index' \in [Refs -> Entries], KeyedRows(rows'), ProcOK',
           left' \in 0 .. Commands, moves' \in 0 .. Moves
    PROVE  TypeOK'
<1>1. \A p \in Procs : proc'[p].pc \in Pcs
  BY DEF ProcOK, Command
<1> QED
  BY <1>1 DEF TypeOK, KeyedRows

\* Nothing the invariant says of other commands changes with a step that leaves
\* the files, the bucket and the rows alone.
LEMMA QuietStep ==
    ASSUME ImagesInv, NEW p \in Procs, UNCHANGED <<cached, bucket, rows>>, ProcOK',
           \A q \in Procs \ {p} : proc'[q] = proc[q],
           PullInv(proc'[p]), PushInv(proc[p])', NodeInv(proc[p])'
    PROVE  DeliveryInv'
<1>1. CacheInv' /\ ObjectsInv' /\ IndexComplete'
  BY DEF ImagesInv, DeliveryInv, CacheInv, ObjectsInv, IndexComplete, EntryComplete, Fetchable,
         bucket, cached
<1>2. BucketGrows /\ CacheKeeps /\ \A d \in Digests : Held(d) => HeldNext(d)
  BY DEF BucketGrows, CacheKeeps, Held, HeldNext, bucket, cached
<1>3. ASSUME NEW q \in Procs PROVE PullInv(proc'[q]) /\ PushInv(proc[q])' /\ NodeInv(proc[q])'
  <2>1. CASE q = p
    BY <2>1
  <2>2. CASE q # p
    <3>1. proc'[q] = proc[q] /\ PullInv(proc[q]) /\ PushInv(proc[q]) /\ NodeInv(proc[q])
      BY <2>2 DEF ImagesInv, DeliveryInv
    <3> QED
      BY <1>2, <3>1, PushOthers, NodeOthers DEF ImagesInv
  <2> QED
    BY <2>1, <2>2
<1> QED
  BY <1>1, <1>3 DEF DeliveryInv

LEMMA BeginInv ==
    ASSUME ImagesInv, NEW p \in Procs, Begin(p)
    PROVE  ImagesInv'
<1>1. ProcOK' /\ \A q \in Procs \ {p} : proc'[q] = proc[q]
  BY BeginStep, OthersKeep DEF ImagesInv
<1>2. PullInv(proc'[p])
  BY BeginStep DEF ImagesInv, PullInv, CachePcs, LoadPcs, PushPcs, PreloadPcs
<1>3. PushInv(proc[p])' /\ NodeInv(proc[p])'
  BY BeginStep DEF ImagesInv, PushInv, PushPcs, NodeInv
<1>4. DeliveryInv'
  BY <1>1, <1>2, <1>3, QuietStep DEF Begin
<1>5. left' \in 0 .. Commands /\ moves' = moves
  BY BoundsAssumption DEF Begin, ImagesInv, TypeOK
<1>6. TypeOK'
  BY <1>1, <1>5, TypeFromParts DEF Begin, bucket, cached, ImagesInv, TypeOK, KeyedRows
<1> QED
  BY <1>1, <1>4, <1>6 DEF ImagesInv

LEMMA FailInv ==
    ASSUME ImagesInv, NEW p \in Procs, Fail(p), UNCHANGED budget
    PROVE  ImagesInv'
<1>d. Done(p)
  BY DEF Fail
<1>1. ProcOK' /\ \A q \in Procs \ {p} : proc'[q] = proc[q]
  BY <1>d, ProcDone, OthersKeep DEF ImagesInv
<1>2. PullInv(proc'[p])
  BY <1>d, DonePull DEF ImagesInv
<1>3. PushInv(proc[p])' /\ NodeInv(proc[p])'
  BY <1>d, ProcDone, NoPush, NoNode DEF ImagesInv, PushPcs
<1>4. DeliveryInv'
  BY <1>1, <1>2, <1>3, QuietStep DEF Fail
<1>6. TypeOK'
  BY <1>1, TypeFromParts DEF Fail, bucket, cached, budget, ImagesInv, TypeOK, KeyedRows
<1> QED
  BY <1>1, <1>4, <1>6 DEF ImagesInv

LEMMA WorksInv ==
    ASSUME ImagesInv, NEW p \in Procs, Works(p), UNCHANGED budget
    PROVE  ImagesInv'
<1>i. /\ TypeOK /\ ProcOK /\ CacheInv /\ ObjectsInv /\ IndexComplete
      /\ PullInv(proc[p]) /\ PushInv(proc[p]) /\ NodeInv(proc[p])
  BY DEF ImagesInv, DeliveryInv
<1>1. ProcOK' /\ PullInv(proc'[p])
  BY <1>i, ProcWorks
<1>2. KeyedRows(rows') /\ \A d \in Digests : Held(d) => HeldNext(d)
  BY <1>i, RowsWorks
<1>3. layouts' \in [Digests -> Layouts] /\ torn' \subseteq Digests /\ CacheInv' /\ CacheKeeps
  BY <1>i, CacheWorks
<1>4. /\ shared' \subseteq Blobs /\ oci' \in [Refs \X Digests -> Objects]
      /\ index' \in [Refs -> Entries] /\ ObjectsInv' /\ BucketGrows
  BY <1>i, <1>3, BucketWorks
<1>5. PushInv(proc[p])' /\ IndexComplete'
  BY <1>i, <1>3, <1>4, PushWorks, IndexWorks
<1>6. NodeInv(proc[p])'
  BY <1>i, <1>2, NodeWorks
<1>7. ASSUME NEW q \in Procs PROVE PullInv(proc'[q]) /\ PushInv(proc[q])' /\ NodeInv(proc[q])'
  <2>1. CASE q = p
    BY <1>1, <1>5, <1>6, <2>1
  <2>2. CASE q # p
    <3>1. proc'[q] = proc[q] /\ PullInv(proc[q]) /\ PushInv(proc[q]) /\ NodeInv(proc[q])
      BY <1>i, <2>2, OthersKeep DEF ImagesInv, DeliveryInv
    <3> QED
      BY <1>i, <1>2, <1>3, <1>4, <3>1, PushOthers, NodeOthers
  <2> QED
    BY <2>1, <2>2
<1>8. registry' = registry
  BY DEF Works, Head, Check, Pull, Clear, Move, Purge, Resolve, Present, Before, ImportLayout,
         After, Alias, Walk, Probe, Upload, StatManifests, PutLayout, PutIndex, PutManifest,
         ReadIndex, WriteIndex, PreIndex, Fetch, Retag
<1>9. TypeOK'
  BY <1>i, <1>1, <1>2, <1>3, <1>4, <1>8, TypeFromParts DEF budget, TypeOK
<1> QED
  BY <1>1, <1>3, <1>4, <1>5, <1>7, <1>9 DEF ImagesInv, DeliveryInv

LEMMA ImagesStep == ImagesInv /\ [Next]_vars => ImagesInv'
<1> SUFFICES ASSUME ImagesInv, [Next]_vars PROVE ImagesInv'
  OBVIOUS
<1>1. CASE MoveTag
  <2>1. registry' \in [TagRefs -> Digests]
    BY <1>1 DEF MoveTag, ImagesInv, TypeOK
  <2>2. moves' \in 0 .. Moves
    BY <1>1, BoundsAssumption DEF MoveTag, ImagesInv, TypeOK
  <2>3. UNCHANGED <<layouts, torn, shared, oci, index, rows, proc, left>>
    BY <1>1 DEF MoveTag, cached, bucket
  <2>4. TypeOK' /\ ProcOK'
    BY <2>1, <2>2, <2>3 DEF ImagesInv, TypeOK, ProcOK
  <2>5. DeliveryInv'
    BY <2>3 DEF ImagesInv, DeliveryInv, CacheInv, ObjectsInv, IndexComplete, EntryComplete,
                Fetchable, PushInv, NodeInv, Held
  <2> QED
    BY <2>4, <2>5 DEF ImagesInv
<1>2. CASE UNCHANGED vars
  <2>1. UNCHANGED <<registry, layouts, torn, shared, oci, index, rows, proc, left, moves>>
    BY <1>2 DEF vars, budget
  <2>2. TypeOK' /\ ProcOK'
    BY <2>1 DEF ImagesInv, TypeOK, ProcOK
  <2>3. DeliveryInv'
    BY <2>1 DEF ImagesInv, DeliveryInv, CacheInv, ObjectsInv, IndexComplete, EntryComplete,
                Fetchable, PushInv, NodeInv, Held
  <2> QED
    BY <2>2, <2>3 DEF ImagesInv
<1> QED
  BY <1>1, <1>2, BeginInv, FailInv, WorksInv DEF Next

LEMMA ImagesInit == Init => ImagesInv
<1> SUFFICES ASSUME Init PROVE ImagesInv
  OBVIOUS
<1>1. registry \in [TagRefs -> Digests]
  BY PublishedAssumption DEF Init
<1>r. ASSUME NEW r \in Refs PROVE DigestOf(r) \in Digests
  <2>1. CASE r.dig # ""
    BY <2>1, RefsAssumption DEF DigestOf
  <2>2. CASE r.dig = ""
    <3>1. r.tag # "" /\ [r EXCEPT !.dig = ""] = r
      BY <2>2, RefsAssumption
    <3>2. r \in TagRefs
      BY <3>1 DEF TagRefs
    <3> QED
      BY <1>1, <2>2, <3>2 DEF DigestOf
  <2> QED
    BY <2>1, <2>2
<1>2. layouts \in [Digests -> Layouts] /\ CacheInv
  <2>1. "index.json" \notin Broken.files
    BY LayoutShapes
  <2> QED
    BY <2>1, LayoutShapes DEF Init, CacheInv
<1>3. PICK old \in SUBSET Legacy :
        /\ index = [r \in Refs |-> IF r \in old THEN Entry(1, DigestOf(r), FilesOf(DigestOf(r))) ELSE NoEntry]
        /\ oci = [k \in Refs \X Digests |->
                    IF k[1] \in old /\ k[2] = DigestOf(k[1]) THEN V1Objects(k[1], k[2]) ELSE NoObjects]
  BY DEF Init
<1>4. index \in [Refs -> Entries]
  <2>1. \A d \in Digests : Entry(1, d, FilesOf(d)) \in Entries
    BY FilesType DEF Entry, Entries
  <2>2. NoEntry \in Entries
    BY DEF Entries
  <2> QED
    BY <1>3, <1>r, <2>1, <2>2
<1>5. oci \in [Refs \X Digests -> Objects]
  <2>1. NoObjects \in Objects
    BY DEF NoObjects, Objects
  <2>2. \A n \in Refs, d \in Digests : V1Objects(n, d) \in Objects
    BY FilesType DEF V1Objects, Objects
  <2> QED
    BY <1>3, <2>1, <2>2
<1>6. \A r \in Refs, d \in Digests :
        /\ V1Objects(r, d).name = r /\ V1Objects(r, d).image = d
        /\ V1Objects(r, d).files = FilesOf(d)
  BY DEF V1Objects
<1>7. ObjectsInv
  <2>1. ASSUME NEW k \in Refs \X Digests, "index.json" \in oci[k].files
        PROVE  oci[k].name \in Refs /\ oci[k].image = k[2] /\ "oci-layout" \in oci[k].files
    <3>1. oci[k] = V1Objects(k[1], k[2])
      BY <1>3, <2>1 DEF NoObjects
    <3> QED
      BY <1>6, <3>1, FilesType
  <2> QED
    BY <2>1 DEF ObjectsInv
<1>8. IndexComplete
  <2>1. ASSUME NEW r \in Refs, index[r] # NoEntry
        PROVE  index[r].files = FilesOf(index[r].digest) /\ Fetchable(r, index[r])
    <3>1. r \in old /\ index[r] = Entry(1, DigestOf(r), FilesOf(DigestOf(r)))
      BY <1>3, <2>1
    <3>2. /\ index[r].v = 1 /\ index[r].digest = DigestOf(r)
          /\ index[r].files = FilesOf(DigestOf(r))
      BY <3>1 DEF Entry
    <3>3. oci[<<r, DigestOf(r)>>] = V1Objects(r, DigestOf(r))
      BY <1>3, <1>r, <3>1
    <3> QED
      BY <1>6, <1>r, <3>2, <3>3 DEF Fetchable
  <2> QED
    BY <2>1 DEF IndexComplete, EntryComplete
<1>9. ProcOK /\ \A p \in Procs : proc[p] = Idle
  BY IdleType DEF Init, ProcOK
<1>10. PullInv(Idle) /\ PushInv(Idle) /\ NodeInv(Idle)
  BY IdlePull DEF PushInv, PushPcs, NodeInv, Idle
<1>11. TypeOK
  <2>1. torn = {} /\ shared = {} /\ rows = {} /\ left \in 0 .. Commands /\ moves \in 0 .. Moves
    BY BoundsAssumption DEF Init
  <2>2. Idle.pc \in Pcs
    BY IdleType DEF Command
  <2> QED
    BY <1>1, <1>2, <1>4, <1>5, <1>9, <2>1, <2>2 DEF TypeOK
<1> QED
  BY <1>2, <1>7, <1>8, <1>9, <1>10, <1>11 DEF ImagesInv, DeliveryInv

LEMMA ImagesInvariant == Spec => []ImagesInv
  BY ImagesInit, ImagesStep, PTL DEF Spec

--------------------------------------------------------------------------------
(* The properties *)

\* Types, and that a name on the node is a key: an import and a tag replace the
\* row of a name, never double it (load.go, preload.go).
THEOREM TypeCorrect == Spec => []TypeOK
<1>1. ImagesInv => TypeOK
  BY DEF ImagesInv
<1> QED
  BY <1>1, ImagesInvariant, PTL

\* However many pulls of a digest swap its directory and wherever the tag moves
\* meanwhile, a cache hit is the image its directory is named for.  It is whole
\* unless somebody could see, or a kill left, that directory removed in part:
\* layoutExists has no way to tell such a part from the whole (cache.go, Cache).
THEOREM CacheHitsUsable == Spec => []CacheUsable
<1>1. ImagesInv => CacheUsable
  <2> SUFFICES ASSUME ImagesInv, NEW d \in Digests, layoutExists(d)
               PROVE  layouts[d].image = d /\ (d \notin torn => layouts[d].files = FilesOf(d))
    BY DEF CacheUsable
  <2>1. "index.json" \in layouts[d].files
    BY DEF layoutExists, Manifests
  <2> QED
    BY <2>1, LayoutShapes DEF ImagesInv, DeliveryInv, CacheInv
<1> QED
  BY <1>1, ImagesInvariant, PTL

\* The bucket's index never names what the bucket lacks, for any number of
\* pushes at once, of entries of either version, and names the whole image;
\* excepted are images whose directory in the cache was ever removed in part,
\* which a push may have walked (s3.go, PushOCILayout).
THEOREM IndexIsComplete == Spec => []IndexComplete
<1>1. ImagesInv => IndexComplete
  BY DEF ImagesInv, DeliveryInv
<1> QED
  BY <1>1, ImagesInvariant, PTL

\* A load past its import has the digest it announced on the node, though it
\* asks the registry twice and others import, tag and purge (images.go,
\* loadFromRef).
THEOREM LoadsDeliver == Spec => []LoadDelivers
<1>1. ImagesInv => LoadDelivers
  <2> SUFFICES ASSUME ImagesInv, NEW p \in Procs, proc[p].pc \in {"after", "alias"}
               PROVE  \E r \in rows : r.digest = proc[p].want
    BY DEF LoadDelivers
  <2>1. Held(proc[p].want)
    BY DEF ImagesInv, DeliveryInv, NodeInv
  <2> QED
    BY <2>1 DEF Held
<1> QED
  BY <1>1, ImagesInvariant, PTL

\* A pre-load has every digest it is done with on the node: no later import or
\* forced tag displaces it (preload.go, BuildPreloadScript).
THEOREM PreloadsDeliver == Spec => []PreloadDelivers
<1>1. ImagesInv => PreloadDelivers
  <2> SUFFICES ASSUME ImagesInv, NEW p \in Procs, proc[p].pc \in {"fetch", "retag"},
                      NEW q \in Refs, proc[p].idx[q] # NoEntry,
                      q \notin proc[p].todo \/ q = proc[p].ref
               PROVE  \E r \in rows : r.digest = proc[p].idx[q].digest
    BY DEF PreloadDelivers
  <2>1. Held(proc[p].idx[q].digest)
    BY DEF ImagesInv, DeliveryInv, NodeInv
  <2> QED
    BY <2>1 DEF Held
<1> QED
  BY <1>1, ImagesInvariant, PTL

================================================================================
