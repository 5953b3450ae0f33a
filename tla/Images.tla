---------------------------------- MODULE Images ----------------------------------
(****************************************************************************)
(* Container images on their way into a node: `images cache`, `load` and    *)
(* `push` on the operator's machine, `cache purge`, and the pre-load a      *)
(* hetzner provision runs.  They share a registry whose tags move, the OCI  *)
(* layout cache on disk, an S3 bucket with an index, and the node's         *)
(* containerd.  Every registry, file, bucket and node access is a step of   *)
(* its own; there is no lock, and a command may be killed between any two.  *)
(* A directory goes file by file: `torn` has the digests of which somebody  *)
(* could see, or a killed command leaves, a part.                           *)
(****************************************************************************)
EXTENDS Naturals, FiniteSets

CONSTANTS
    Procs,       \* commands that can run at once
    Verbs,       \* process -> the verbs it may run
    Refs,        \* references operators type: records of RefForms
    Digests,     \* manifests the registry has
    Published,   \* tag -> the digest it points at to begin with
    BlobsOf,     \* digest -> its blobs; images share layers
    Canonical,   \* repository as typed -> as kubelet writes it
    Leftover,    \* digests with a broken layout in the cache
    Legacy,      \* refs a version 1 push may have left in the bucket
    Commands,    \* bound: how many commands run
    Moves,       \* bound: how often tags move
    Gone,        \* bound: files a directory lacks that others see half removed
    Faults       \* the failures that may happen, a subset of FaultNames

\* pull: registry or disk fails.  list: `ctr image list` fails.  import, tag:
\* ctr fails.  s3: a bucket call fails.  kill: the command dies.
FaultNames == {"pull", "list", "import", "tag", "s3", "kill"}

\* name.Reference: repository, tag and digest, "" when absent.
RefForms(repos, tags) == [repo : repos, tag : tags \cup {""}, dig : Digests \cup {""}]

Blobs   == UNION {BlobsOf[d] : d \in Digests}
TagRefs == {[r EXCEPT !.dig = ""] : r \in {q \in Refs : q.tag # ""}}

ASSUME VerbsAssumption  == Verbs \in [Procs -> SUBSET {"cache", "load", "push", "preload", "purge"}]
ASSUME RefsAssumption   == \A r \in Refs :
    /\ r = [repo |-> r.repo, tag |-> r.tag, dig |-> r.dig]
    /\ r.dig \in Digests \cup {""}
    /\ r.tag = "" => r.dig # ""
\* The name containerd gives its own rows is nobody's repository.
ASSUME ReposAssumption  == \A r \in Refs : "sha256" \notin {r.repo, Canonical[r.repo]}
ASSUME PublishedAssumption == Published \in [TagRefs -> Digests]
ASSUME LegacyAssumption == Legacy \subseteq Refs /\ Leftover \subseteq Digests
ASSUME BlobsAssumption  == \A d \in Digests : BlobsOf[d] \cap {"oci-layout", "index.json"} = {}
ASSUME BoundsAssumption == {Commands, Moves, Gone} \subseteq Nat
ASSUME FaultAssumption  == Faults \subseteq FaultNames

VARIABLES
    registry,   \* tag -> the digest it points at
    layouts,    \* <root>/images/<digest>: the directory, if there, and its files
    torn,       \* history: digests whose directory was ever removed in part
    shared,     \* blobs under the bucket-level blobs/ prefix
    oci,        \* <<ref, digest>> -> what the bucket holds under that prefix
    index,      \* ref -> its entry in the bucket's index.json, or NoEntry
    rows,       \* `ctr image list`: a set of [name, digest], one per name
    proc,       \* process -> its command in progress
    left,       \* bound: commands left
    moves       \* bound: moves of tags left

bucket == <<shared, oci, index>>
budget == <<left, moves>>
cached == <<layouts, torn>>
vars   == <<registry, layouts, torn, shared, oci, index, rows, proc, budget>>

NoRef == [repo |-> "", tag |-> "", dig |-> ""]

\* The files of a layout: oci-layout, an index.json that lists manifests, blobs.
Manifests  == {"oci-layout", "index.json"}
FilesOf(d) == Manifests \cup BlobsOf[d]

\* name: the org.opencontainers.image.ref.name annotation; image: the manifest
\* index.json lists; files: the files present.
\* Broken is what a pull of an older release left: oci-layout and an empty index.
NoLayout == [there |-> FALSE, name |-> NoRef, image |-> "", files |-> {}]
Broken   == [NoLayout EXCEPT !.there = TRUE, !.files = {"oci-layout"}]
Layout(n, d) == [there |-> TRUE, name |-> n, image |-> d, files |-> FilesOf(d)]

\* What is under an image's own prefix, the same way; a version 2 push leaves the
\* manifests there, a version 1 push left the blobs, too.
NoObjects == [name |-> NoRef, image |-> "", files |-> {}]
V1Objects(n, d) == [name |-> n, image |-> d, files |-> FilesOf(d)]

\* An entry of the bucket's index names the files a push found in the layout.
NoEntry == [v |-> 0, digest |-> "", files |-> {}]
Entry(v, d, fs) == [v |-> v, digest |-> d, files |-> fs]
NoIndex == [r \in Refs |-> NoEntry]

\* keep: --cache; want: the digest load resolved first; digest: the one Cache
\* resolved; staging: the pulled layout; before: names listed before the import
\* (listed: whether that worked); found: files the push walked; todo: what is
\* left of a loop; idx: index read.
Idle == [pc |-> "idle", verb |-> "none", ref |-> NoRef, keep |-> TRUE, want |-> "", digest |-> "",
         staging |-> NoLayout, listed |-> FALSE, before |-> {}, found |-> {}, todo |-> {}, idx |-> NoIndex]

Names == {r.name : r \in rows}

CachePcs == {"head", "check", "pull", "clear", "move"}
LoadPcs  == {"resolve", "present", "before", "import", "after", "alias"}
PushPcs  == {"walk", "probe", "upload", "stat", "manifest", "sentinel", "readindex", "writeindex"}
PreloadPcs == {"preindex", "fetch", "retag"}
Pcs == {"idle", "purge"} \cup CachePcs \cup LoadPcs \cup PushPcs \cup PreloadPcs

Files   == Manifests \cup Blobs
Layouts == [there : BOOLEAN, name : Refs \cup {NoRef}, image : Digests \cup {""}, files : SUBSET Files]
Objects == [name : Refs \cup {NoRef}, image : Digests \cup {""}, files : SUBSET Files]
Entries == {NoEntry} \cup [v : {1, 2}, digest : Digests, files : SUBSET Files]

\* Names on the node: as typed, as kubelet writes them, pinned, and containerd's own.
NameForms == [repo : {"sha256"} \cup UNION {{r.repo, Canonical[r.repo]} : r \in Refs},
              tag  : Digests \cup {"", "latest"} \cup {r.tag : r \in Refs},
              dig  : Digests \cup {""}]
Rows == [name : NameForms, digest : Digests]

TypeOK ==
    /\ registry \in [TagRefs -> Digests]
    /\ layouts \in [Digests -> Layouts] /\ torn \subseteq Digests
    /\ shared \subseteq Blobs
    /\ oci \in [Refs \X Digests -> Objects]
    /\ index \in [Refs -> Entries]
    /\ rows \subseteq Rows
    /\ \A a, b \in rows : a.name = b.name => a = b          \* containerd: a name is a key
    /\ \A p \in Procs : proc[p].pc \in Pcs
    /\ left \in 0 .. Commands
    /\ moves \in 0 .. Moves

DigestOf(r) == IF r.dig # "" THEN r.dig ELSE registry[r]

Init ==
    /\ registry = Published
    /\ layouts = [d \in Digests |-> IF d \in Leftover THEN Broken ELSE NoLayout]
    /\ torn = {} /\ shared = {} /\ rows = {}
    /\ \E old \in SUBSET Legacy :
         /\ index = [r \in Refs |-> IF r \in old THEN Entry(1, DigestOf(r), FilesOf(DigestOf(r))) ELSE NoEntry]
         /\ oci = [k \in Refs \X Digests |->
                     IF k[1] \in old /\ k[2] = DigestOf(k[1]) THEN V1Objects(k[1], k[2]) ELSE NoObjects]
    /\ proc = [p \in Procs |-> Idle]
    /\ left = Commands /\ moves = Moves

--------------------------------------------------------------------------------
(* References, and the shapes the code gives them *)

At(p, l) == proc[p].pc = l
Step(p, rec) == proc' = [proc EXCEPT ![p] = rec]
Goto(p, l)   == Step(p, [proc[p] EXCEPT !.pc = l])
Done(p)      == Step(p, Idle)

\* containerd's own row for the config digest, "sha256:<hex>"
Bare(d) == [repo |-> "sha256", tag |-> d, dig |-> ""]

\* The alias Load adds for a new name, {} for none.  A tag and a tag+digest get
\* repo@digest, a digest gets repo:latest@digest.
aliasFor(n, d) ==
    IF n.repo = "sha256" THEN {}
    ELSE IF n.dig = "" THEN {[n EXCEPT !.tag = "", !.dig = d]}
    ELSE IF n.tag # "" THEN {[n EXCEPT !.tag = ""]}
    ELSE {[n EXCEPT !.tag = "latest"]}

\* Registry, repository and identifier: of a tag and a digest, the digest.
CanonicalForm(r) == [r EXCEPT !.repo = Canonical[@], !.tag = IF r.dig # "" THEN "" ELSE @]

canonicalAliasesForKubelet(r) == {CanonicalForm(r)} \ {r}

\* ctr image import: the annotation names the row, and replaces one of that name.
Import(n, d) ==
    {r \in rows : r.name \notin {n, Bare(d)}} \cup {[name |-> n, digest |-> d], [name |-> Bare(d), digest |-> d]}

\* ctr image tag: needs its source; without --force also a new target.
Tag(rs, from, to, force) ==
    LET hit == {r \in rs : r.name = from} IN
    IF hit = {} \/ (~force /\ \E r \in rs : r.name = to) THEN rs
    ELSE {r \in rs : r.name # to} \cup {[name |-> to, digest |-> r.digest] : r \in hit}

layoutExists(d) == Manifests \subseteq layouts[d].files

\* os.RemoveAll: directory gone ...
Removed(d) == layouts' = [layouts EXCEPT ![d] = NoLayout] /\ UNCHANGED torn

\* ... or, so far, one more of its files.
Unlinked(d) ==
    /\ Cardinality(FilesOf(d) \ layouts[d].files) < Gone
    /\ \E f \in layouts[d].files : layouts' = [layouts EXCEPT ![d].files = @ \ {f}]
    /\ torn' = torn \cup {d}

--------------------------------------------------------------------------------
(* Cache: resolve, look, pull into a staging directory, swap *)


Begin(p) ==
    /\ At(p, "idle") /\ left > 0 /\ left' = left - 1
    /\ \E v \in Verbs[p], r \in Refs, k \in BOOLEAN :
         Step(p, CASE v \in {"cache", "push"} -> [Idle EXCEPT !.pc = "head", !.verb = v, !.ref = r]
                   [] v = "load"    -> [Idle EXCEPT !.pc = "resolve", !.verb = v, !.ref = r, !.keep = k]
                   [] v = "preload" -> [Idle EXCEPT !.pc = "preindex", !.verb = v]
                   [] v = "purge"   -> [Idle EXCEPT !.pc = "purge", !.verb = v])
    /\ UNCHANGED <<registry, cached, bucket, rows, moves>>

\* The command returns an error or dies where it is; its staging directory is
\* removed or never looked at again.
Fail(p) ==
    /\ \/ "kill" \in Faults /\ ~At(p, "idle")
       \/ "pull" \in Faults /\ proc[p].pc \in {"resolve", "head", "pull", "clear"}
       \/ "import" \in Faults /\ proc[p].pc \in {"import", "fetch"}
       \/ "s3" \in Faults /\ proc[p].pc \in PushPcs \cup {"preindex", "fetch"}
    /\ Done(p)
    /\ UNCHANGED <<registry, cached, bucket, rows>>

\* A tag: HEAD the registry.  A digest: taken from the reference.
Head(p) ==
    /\ At(p, "head")
    /\ Step(p, [proc[p] EXCEPT !.pc = "check", !.digest = DigestOf(proc[p].ref)])
    /\ UNCHANGED <<registry, cached, bucket, rows>>

\* Where Cache returns to
Cached(p) == IF proc[p].verb = "push" THEN "walk" ELSE IF proc[p].verb = "load" THEN "before" ELSE "idle"
CacheReturns(p) == IF Cached(p) = "idle" THEN Done(p)
                   ELSE Step(p, [proc[p] EXCEPT !.pc = Cached(p), !.staging = IF proc[p].keep THEN NoLayout ELSE @])

\* --cache=false: the root is a fresh directory, never a hit
Check(p) ==
    /\ At(p, "check")
    /\ IF proc[p].keep /\ layoutExists(proc[p].digest) THEN CacheReturns(p) ELSE Goto(p, "pull")
    /\ UNCHANGED <<registry, cached, bucket, rows>>

\* mutant of Pull: the manifest is fetched by the typed reference, not by digest
PullByTag(p) ==
    /\ At(p, "pull")
    /\ Step(p, [proc[p] EXCEPT !.pc = "clear", !.staging = Layout(proc[p].ref, DigestOf(proc[p].ref))])
    /\ UNCHANGED <<registry, cached, bucket, rows>>

\* remote.Get by digest, written to a staging directory with the reference as
\* its name
Pull(p) ==
    /\ At(p, "pull")
    /\ Step(p, [proc[p] EXCEPT !.pc = "clear", !.staging = Layout(proc[p].ref, proc[p].digest)])
    /\ UNCHANGED <<registry, cached, bucket, rows>>

\* RemoveAll of the final directory, whatever is in it by now
Clear(p) ==
    /\ At(p, "clear")
    /\ \/ ~proc[p].keep /\ CacheReturns(p) /\ UNCHANGED cached
       \/ proc[p].keep /\ Removed(proc[p].digest) /\ Goto(p, "move")
       \/ proc[p].keep /\ Unlinked(proc[p].digest) /\ UNCHANGED proc
    /\ UNCHANGED <<registry, bucket, rows>>

\* os.Rename; a directory that is there again is a concurrent pull's, or what a
\* concurrent removal has not taken away yet
Move(p) ==
    /\ At(p, "move")
    /\ IF layouts[proc[p].digest].there
       THEN UNCHANGED layouts /\ IF layoutExists(proc[p].digest) THEN CacheReturns(p) ELSE Done(p)
       ELSE layouts' = [layouts EXCEPT ![proc[p].digest] = proc[p].staging] /\ CacheReturns(p)
    /\ UNCHANGED <<registry, torn, bucket, rows>>

\* cache purge --images: RemoveAll of every directory
Purge(p) ==
    /\ At(p, "purge")
    /\ \/ /\ \E d \in Digests : layouts[d].there /\ (Removed(d) \/ Unlinked(d))
          /\ UNCHANGED proc
       \/ /\ \A d \in Digests : ~layouts[d].there
          /\ Done(p) /\ UNCHANGED cached
    /\ UNCHANGED <<registry, bucket, rows>>

--------------------------------------------------------------------------------
(* load <ref>: skip when the digest is there, else cache, import, alias *)

Resolve(p) ==
    /\ At(p, "resolve")
    /\ Step(p, [proc[p] EXCEPT !.pc = "present", !.want = DigestOf(proc[p].ref)])
    /\ UNCHANGED <<registry, cached, bucket, rows>>

\* PresentInCluster: any name will do; a failed listing reads as absent.
Present(p) ==
    /\ At(p, "present")
    /\ \/ /\ \E r \in rows : r.digest = proc[p].want
          /\ Done(p)
       \/ /\ "list" \in Faults \/ \A r \in rows : r.digest # proc[p].want
          /\ Goto(p, "head")
    /\ UNCHANGED <<registry, cached, bucket, rows>>

Before(p) ==
    /\ At(p, "before")
    /\ \/ Step(p, [proc[p] EXCEPT !.pc = "import", !.listed = TRUE, !.before = Names])
       \/ "list" \in Faults /\ Step(p, [proc[p] EXCEPT !.pc = "import"])
    /\ UNCHANGED <<registry, cached, bucket, rows>>

\* mutant of Source: the directory of the digest Cache returned
SourceOfCache(p) ==
    IF ~proc[p].keep THEN proc[p].staging ELSE layouts[proc[p].digest]

\* The directory of the digest resolved first.
Source(p) ==
    IF ~proc[p].keep
    THEN IF proc[p].digest = proc[p].want THEN proc[p].staging ELSE NoLayout
    ELSE layouts[proc[p].want]

\* ctr finds every file of the image ...
Complete(s) == s.image \in Digests /\ s.files = FilesOf(s.image)

\* ... or fails, with the names given already when it is only a blob that it misses.
ImportFails(s) ==
    rows' \in {rows} \cup IF Manifests \subseteq s.files THEN {Import(s.name, s.image)} ELSE {}

\* The layout is tarred into ctr.
ImportLayout(p) ==
    /\ At(p, "import")
    /\ LET s == Source(p) IN
       IF Complete(s)
       THEN /\ rows' = Import(s.name, s.image)
            /\ IF proc[p].listed THEN Step(p, [proc[p] EXCEPT !.pc = "after", !.staging = NoLayout])
               ELSE Done(p)
       ELSE ImportFails(s) /\ Done(p)
    /\ UNCHANGED <<registry, cached, bucket>>

\* The snapshot diff: rows whose name is new, with an alias that is new.
After(p) ==
    /\ At(p, "after")
    /\ \/ Step(p, [proc[p] EXCEPT !.pc = "alias",
               !.todo = {r \in rows : r.name \notin proc[p].before
                                        /\ aliasFor(r.name, r.digest) \ proc[p].before # {}}])
       \/ "list" \in Faults /\ Done(p)
    /\ UNCHANGED <<registry, cached, bucket, rows>>

\* One alias; a failed tag is a warning.
Alias(p) ==
    /\ At(p, "alias")
    /\ IF proc[p].todo = {} THEN Done(p) /\ UNCHANGED rows
       ELSE LET r == CHOOSE x \in proc[p].todo : TRUE IN
              /\ \/ \E a \in aliasFor(r.name, r.digest) : rows' = Tag(rows, r.name, a, FALSE)
                 \/ "tag" \in Faults /\ UNCHANGED rows
              /\ Step(p, [proc[p] EXCEPT !.todo = @ \ {r}])
    /\ UNCHANGED <<registry, cached, bucket>>

--------------------------------------------------------------------------------
(* push <ref>: blobs once per bucket, then the image's manifests, then the index *)

Key(p)   == <<proc[p].ref, proc[p].digest>>
Local(p) == layouts[proc[p].digest]

\* walkOCILayout: the files there now; none is an error.
Walk(p) ==
    /\ At(p, "walk")
    /\ IF Local(p).files = {} THEN Done(p)
       ELSE Step(p, [proc[p] EXCEPT !.pc = "probe", !.found = Local(p).files])
    /\ UNCHANGED <<registry, cached, bucket, rows>>

\* partitionLayoutFiles, blobsMissingOnS3
Probe(p) ==
    /\ At(p, "probe")
    /\ Step(p, [proc[p] EXCEPT !.pc = "upload", !.todo = (proc[p].found \ Manifests) \ shared])
    /\ UNCHANGED <<registry, cached, bucket, rows>>

\* mutant of Upload: the image's v1 objects are taken for the shared blobs
UploadUnlessPushed(p) ==
    /\ At(p, "upload")
    /\ IF "index.json" \in oci[Key(p)].files \/ proc[p].todo = {} THEN Goto(p, "stat") /\ UNCHANGED shared
       ELSE LET b == CHOOSE x \in proc[p].todo : TRUE IN
              shared' = shared \cup {b} /\ Step(p, [proc[p] EXCEPT !.todo = @ \ {b}])
    /\ UNCHANGED <<registry, cached, oci, index, rows>>

\* FPutObject opens the file in the cache: gone, the push fails.
Upload(p) ==
    /\ At(p, "upload")
    /\ IF proc[p].todo = {} THEN Goto(p, "stat") /\ UNCHANGED shared
       ELSE LET b == CHOOSE x \in proc[p].todo : TRUE IN       \* in a fixed order
              IF b \in Local(p).files
              THEN shared' = shared \cup {b} /\ Step(p, [proc[p] EXCEPT !.todo = @ \ {b}])
              ELSE Done(p) /\ UNCHANGED shared
    /\ UNCHANGED <<registry, cached, oci, index, rows>>

\* index.json present: an earlier push wrote the manifests.
StatManifests(p) ==
    /\ At(p, "stat")
    /\ Goto(p, IF "index.json" \in oci[Key(p)].files THEN "readindex" ELSE "manifest")
    /\ UNCHANGED <<registry, cached, bucket, rows>>

\* FPutObject of a manifest, if it was found in the layout; gone by now fails the
\* push.  index.json brings the annotation and the image with it.
PutManifest(p, f, next) ==
    /\ \/ f \notin proc[p].found /\ UNCHANGED oci /\ Goto(p, next)
       \/ /\ f \in proc[p].found \cap Local(p).files
          /\ oci' = [oci EXCEPT ![Key(p)] =
                LET o == IF f = "index.json" THEN Local(p) ELSE @ IN
                [name |-> o.name, image |-> o.image, files |-> @.files \cup {f}]]
          /\ Goto(p, next)
       \/ f \in proc[p].found \ Local(p).files /\ UNCHANGED oci /\ Done(p)
    /\ UNCHANGED <<registry, cached, shared, index, rows>>

\* orderForUpload: oci-layout first, index.json last; nothing is ever removed.
PutLayout(p) == At(p, "manifest") /\ PutManifest(p, "oci-layout", "sentinel")
PutIndex(p)  == At(p, "sentinel") /\ PutManifest(p, "index.json", "readindex")

ReadIndex(p) ==
    /\ At(p, "readindex")
    /\ Step(p, [proc[p] EXCEPT !.pc = "writeindex", !.idx = index])
    /\ UNCHANGED <<registry, cached, bucket, rows>>

Upsert(idx, r, e) == [idx EXCEPT ![r] = e]

WriteIndex(p) ==
    /\ At(p, "writeindex")
    /\ index' = Upsert(proc[p].idx, proc[p].ref, Entry(2, proc[p].digest, proc[p].found))
    /\ Done(p)
    /\ UNCHANGED <<registry, cached, shared, oci, rows>>

--------------------------------------------------------------------------------
(* PreloadFromS3: every entry of the index into the node *)

PreIndex(p) ==
    /\ At(p, "preindex")
    /\ LET refs == {r \in Refs : index[r] # NoEntry} IN
       IF refs = {} THEN Done(p)
       ELSE Step(p, [proc[p] EXCEPT !.pc = "fetch", !.idx = index, !.todo = refs])
    /\ UNCHANGED <<registry, cached, bucket, rows>>

\* presignEntry: a v2 entry's blobs are shared, a v1 entry's its own.
Fetchable(r, e) ==
    LET own == oci[<<r, e.digest>>].files IN
    IF e.v = 2 THEN e.files \cap Manifests \subseteq own /\ e.files \ Manifests \subseteq shared
    ELSE e.files \subseteq own

\* The script: fetch, import, tag for kubelet (`|| true`).  A file that is not
\* there fails the whole pre-load.
Fetch(p) ==
    /\ At(p, "fetch")
    /\ LET r == CHOOSE x \in proc[p].todo : TRUE
           e == proc[p].idx[r]
           o == oci[<<r, e.digest>>]
       IN  IF ~Fetchable(r, e) THEN Done(p) /\ UNCHANGED rows
           ELSE IF Complete([o EXCEPT !.files = e.files])
           THEN rows' = Import(o.name, o.image) /\ Step(p, [proc[p] EXCEPT !.pc = "retag", !.ref = r])
           ELSE ImportFails([o EXCEPT !.files = e.files]) /\ Done(p)
    /\ UNCHANGED <<registry, cached, bucket>>

Retag(p) ==
    /\ At(p, "retag")
    /\ LET r == proc[p].ref
           aliases == canonicalAliasesForKubelet(r)
       IN  \/ rows' = IF aliases = {} THEN rows ELSE Tag(rows, r, CHOOSE a \in aliases : TRUE, TRUE)
           \/ "tag" \in Faults /\ UNCHANGED rows
    /\ IF proc[p].todo = {proc[p].ref} THEN Done(p)
       ELSE Step(p, [proc[p] EXCEPT !.pc = "fetch", !.todo = @ \ {proc[p].ref}, !.ref = NoRef])
    /\ UNCHANGED <<registry, cached, bucket>>

--------------------------------------------------------------------------------
(* The registry, and the whole *)

\* A publisher moves a tag.
MoveTag ==
    /\ moves > 0 /\ moves' = moves - 1
    /\ \E t \in TagRefs, d \in Digests : registry[t] # d /\ registry' = [registry EXCEPT ![t] = d]
    /\ UNCHANGED <<cached, bucket, rows, proc, left>>

Works(p) ==
    \/ Head(p) \/ Check(p) \/ Pull(p) \/ Clear(p) \/ Move(p) \/ Purge(p)
    \/ Resolve(p) \/ Present(p) \/ Before(p) \/ ImportLayout(p) \/ After(p) \/ Alias(p)
    \/ Walk(p) \/ Probe(p) \/ Upload(p) \/ StatManifests(p) \/ PutLayout(p) \/ PutIndex(p)
    \/ ReadIndex(p) \/ WriteIndex(p)
    \/ PreIndex(p) \/ Fetch(p) \/ Retag(p)

Next == MoveTag \/ \E p \in Procs : Begin(p) \/ ((Works(p) \/ Fail(p)) /\ UNCHANGED budget)

Spec == Init /\ [][Next]_vars

--------------------------------------------------------------------------------
(* Properties *)

\* What layoutExists accepts is the image its directory is named for, and whole
\* unless the directory was ever removed in part: a tag that moves during a pull,
\* a second pull that swaps the directory and a kill leave no other hit.  A part
\* that has both manifests is a hit (cache.go, layoutExists).
CacheUsable ==
    \A d \in Digests : layoutExists(d) =>
        layouts[d].image = d /\ (d \notin torn => layouts[d].files = FilesOf(d))

\* An index entry names the whole image and all of that is in the bucket, so that
\* a provision never fails on it: while pushes fail and die half way, and while a
\* v1 entry is replaced by a v2 one that looks for its blobs elsewhere.  Excepted
\* is the image whose directory was removed in part, which a push may have walked.
EntryComplete(r, e) ==
    e # NoEntry /\ e.digest \notin torn => e.files = FilesOf(e.digest) /\ Fetchable(r, e)
IndexComplete == \A r \in Refs : EntryComplete(r, index[r])

\* A load that got past its import has the digest it announced on the node, even
\* when the tag moved between its two HEADs.
LoadDelivers ==
    \A p \in Procs : proc[p].pc \in {"after", "alias"} => \E r \in rows : r.digest = proc[p].want

\* A pre-load has, of the entries done so far, every digest on the node: an
\* import under an older name never displaces another image's content.
PreloadDelivers ==
    \A p \in Procs : proc[p].pc \in {"fetch", "retag"} =>
        \A q \in Refs : proc[p].idx[q] # NoEntry /\ (q \notin proc[p].todo \/ q = proc[p].ref) =>
            \E r \in rows : r.digest = proc[p].idx[q].digest

--------------------------------------------------------------------------------
(* The inductive invariant of the proofs, by part *)

\* A directory with an index.json is a layout of the digest it is named for, and
\* one never removed in part is absent, a leftover or whole.
CacheInv == \A d \in Digests :
    /\ "index.json" \in layouts[d].files => layouts[d].name \in Refs /\ layouts[d].image = d
    /\ d \notin torn => layouts[d] \in {NoLayout, Broken} \/ layouts[d].files = FilesOf(d)

\* Objects of a prefix are those of its digest, index.json the last of them.
ObjectsInv ==
    \A k \in Refs \X Digests : "index.json" \in oci[k].files =>
        /\ oci[k].name \in Refs /\ oci[k].image = k[2]
        /\ k[2] \notin torn => "oci-layout" \in oci[k].files

\* The row containerd keeps under the digest itself, whatever takes the names.
Held(d) == [name |-> Bare(d), digest |-> d] \in rows

\* What a command knows of its own pull ...
PullInv(c) ==
    /\ c.verb \in {"cache", "push", "load"} => c.ref \in Refs
    /\ c.pc \in CachePcs \cup PushPcs => c.verb \in {"cache", "push", "load"}
    /\ c.pc \in LoadPcs => c.verb = "load"
    /\ c.pc \in PreloadPcs => c.verb = "preload"
    /\ c.verb = "push" => c.keep
    /\ c.verb = "load" /\ c.pc # "resolve" => c.want \in Digests
    /\ c.pc \in (CachePcs \ {"head"}) \cup {"before", "import"} \cup PushPcs => c.digest \in Digests
    /\ c.pc \in {"clear", "move"} \/ (c.pc \in {"before", "import"} /\ ~c.keep)
          => c.staging = Layout(c.ref, c.digest)

\* ... of the bucket it pushes to ...
PushInv(c) ==
    /\ c.pc = "walk" /\ c.digest \notin torn => layouts[c.digest] # Broken
    /\ c.pc \in PushPcs \ {"walk"} /\ c.digest \notin torn => c.found = FilesOf(c.digest)
    /\ c.pc = "upload" => (c.found \ Manifests) \ shared \subseteq c.todo /\ c.todo \subseteq Blobs
    /\ c.pc \in {"stat", "manifest", "sentinel", "readindex", "writeindex"} =>
          c.found \ Manifests \subseteq shared
    /\ c.pc = "sentinel" /\ c.digest \notin torn => "oci-layout" \in oci[<<c.ref, c.digest>>].files
    /\ c.pc \in {"readindex", "writeindex"} /\ c.digest \notin torn =>
          "index.json" \in oci[<<c.ref, c.digest>>].files
    /\ c.pc = "writeindex" => \A r \in Refs : EntryComplete(r, c.idx[r])

\* ... and of the node it imports into.
NodeInv(c) ==
    /\ c.pc \in {"after", "alias"} => Held(c.want)
    /\ c.pc = "alias" => c.todo \subseteq Rows
    /\ c.pc \in {"preindex", "fetch"} => c.ref = NoRef
    /\ c.pc = "retag" => c.ref \in c.todo
    /\ c.pc \in {"fetch", "retag"} =>
          /\ c.todo \subseteq {r \in Refs : c.idx[r] # NoEntry} /\ c.todo # {}
          /\ \A r \in Refs : c.idx[r] # NoEntry /\ (r \notin c.todo \/ r = c.ref) => Held(c.idx[r].digest)

DeliveryInv ==
    /\ CacheInv /\ ObjectsInv /\ IndexComplete
    /\ \A p \in Procs : PullInv(proc[p]) /\ PushInv(proc[p]) /\ NodeInv(proc[p])

================================================================================
