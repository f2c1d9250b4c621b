----------------------------- MODULE SourceIndex -----------------------------
(***************************************************************************)
(* Exact source generations of code-intel (source_v2_sync.go,              *)
(* source_v2_storage.go, source_v2_query.go).  A sync scans the worktree   *)
(* and the tree of HEAD, stores one fragment of facts per file content, a  *)
(* base manifest for HEAD, a delta manifest with tombstones for what the   *)
(* worktree changes, and last a receipt that names both.  A query scans    *)
(* again, refuses a receipt for other bytes, and merges base and delta.    *)
(*                                                                         *)
(* There is no lock: objects are content-addressed and created once with   *)
(* link(2), the receipt is replaced with rename(2), and the author edits   *)
(* files and moves HEAD all the time.  Nothing is synced to disk, so after *)
(* a power loss any object may be gone or damaged.                         *)
(*                                                                         *)
(* An object's ID is the object itself.  One worktree is modelled; another *)
(* shares fragments and bases only, as a second sync here does.  The       *)
(* configuration, exclusions and set of extractors do not change, and no   *)
(* file is too large to be indexed.                                        *)
(***************************************************************************)
EXTENDS Integers, FiniteSets

CONSTANTS Syncer, Reader,  \* processes of SyncSourceIndex, QuerySourceIndex
          Rank,            \* Path -> Nat: the order in which paths are visited
          External,        \* paths of languages with the external extractor
          Content, Bad,    \* file contents; those whose extraction fails
          Commit, Tree,    \* commits and their files
          MaxChanges,      \* bound: edits, commits and checkouts
          MaxLosses,       \* bound: power losses
          MaxSyncs         \* bound: syncs started

Path == DOMAIN Rank

\* The eligible files of a tree: a partial function.
Files == UNION {[S -> Content] : S \in SUBSET Path}

ASSUME SourceAssumption ==
  /\ Syncer \cap Reader = {}
  /\ \A p \in Path : Rank[p] \in Nat
  /\ \A p, q \in Path : Rank[p] = Rank[q] => p = q
  /\ External \subseteq Path /\ Bad \subseteq Content
  /\ Tree \in [Commit -> Files]
  /\ MaxChanges \in Nat /\ MaxLosses \in Nat /\ MaxSyncs \in Nat

Process == Syncer \cup Reader

VARIABLES head, work,  \* the author's HEAD and worktree
          store,       \* sound fragments and manifests
          damaged,     \* objects whose file no longer holds their bytes
          receipt,     \* current.json
          tainted,     \* was an object lost since the receipt was written
          pc,
          scan,        \* what a process has read of the source so far
          build,       \* what a sync has built so far
          got,         \* the receipt a query works from, later its answer
          changes, losses, syncs

author == <<head, work, changes>>
disk == <<store, damaged, receipt, tainted, losses>>
vars == <<author, disk, pc, scan, build, got, syncs>>

NoFiles == [p \in {} |-> "none"]
NoScan == [head |-> "none", current |-> NoFiles, tree |-> NoFiles, todo |-> {}]
NoBuild == [known |-> {}, base |-> NoFiles, delta |-> NoFiles]
NoReceipt == [is |-> "missing"]
BrokenReceipt == [is |-> "broken"]
NoFragment == [kind |-> "none"]

TypeOK ==
  /\ head \in Commit /\ work \in Files
  /\ \A o \in store \cup damaged : o.kind \in {"fragment", "base", "delta"}
  /\ store \cap damaged = {}
  /\ receipt.is \in {"missing", "broken", "stored"}
  /\ tainted \in BOOLEAN
  /\ pc \in [Process -> {"idle", "walk", "tree", "known", "base", "delta",
                         "publish", "receipt", "verify", "query", "answered"}]
  /\ \A x \in Process : /\ scan[x].head \in Commit \cup {"none"}
                        /\ scan[x].todo \subseteq Path
                        /\ scan[x].current \in Files /\ scan[x].tree \in Files
  /\ \A x \in Process : DOMAIN build[x].base \subseteq Path
                        /\ DOMAIN build[x].delta \subseteq Path
  /\ changes \in 0..MaxChanges /\ losses \in 0..MaxLosses
  /\ syncs \in 0..MaxSyncs

Init ==
  /\ head \in Commit /\ work = Tree[head]
  /\ store = {} /\ damaged = {} /\ receipt = NoReceipt /\ tainted = FALSE
  /\ pc = [x \in Process |-> "idle"]
  /\ scan = [x \in Process |-> NoScan]
  /\ build = [x \in Process |-> NoBuild]
  /\ got = [x \in Process |-> NoReceipt]
  /\ changes = 0 /\ losses = 0 /\ syncs = 0

goto(x, place) == pc' = [pc EXCEPT ![x] = place]

\* Visited next: lexical order, files for the external batch after the others.
Earlier(p, q) ==
  IF (p \in External) = (q \in External) THEN Rank[p] < Rank[q] ELSE q \in External
First(S) == CHOOSE p \in S : \A q \in S \ {p} : Earlier(p, q)

With(f, p, v) == [q \in DOMAIN f \cup {p} |-> IF q = p THEN v ELSE f[q]]
Only(f, S) == [p \in DOMAIN f \cap S |-> f[p]]

-----------------------------------------------------------------------------
(* The author and the machine.                                             *)

Change == changes < MaxChanges /\ changes' = changes + 1

\* A file is written, created or removed.
Edit(p, c) ==
  /\ Change
  /\ p \in DOMAIN work => work[p] # c
  /\ work' = With(work, p, c)
  /\ UNCHANGED <<head, disk, pc, scan, build, got, syncs>>

Remove(p) ==
  /\ Change
  /\ p \in DOMAIN work
  /\ work' = Only(work, Path \ {p})
  /\ UNCHANGED <<head, disk, pc, scan, build, got, syncs>>

\* reset --soft moves HEAD alone, checkout the files as well.
MoveHead(c, files) ==
  /\ Change
  /\ c # head
  /\ head' = c
  /\ work' = files
  /\ UNCHANGED <<disk, pc, scan, build, got, syncs>>

\* Everybody is gone; an object or the receipt was not on the disk yet.
PowerLoss ==
  /\ losses < MaxLosses /\ losses' = losses + 1
  /\ \/ \E o \in store :
          /\ store' = store \ {o}
          /\ damaged' \in {damaged, damaged \cup {o}}
          /\ tainted' = TRUE
          /\ UNCHANGED receipt
     \/ /\ receipt # NoReceipt
        /\ receipt' = BrokenReceipt
        /\ UNCHANGED <<store, damaged, tainted>>
  /\ pc' = [x \in Process |-> "idle"]
  /\ scan' = [x \in Process |-> NoScan]
  /\ build' = [x \in Process |-> NoBuild]
  /\ got' = [x \in Process |-> NoReceipt]
  /\ UNCHANGED <<author, syncs>>

-----------------------------------------------------------------------------
(* Scanning, for both: inspectSourceV2Repository.                          *)

\* rev-parse HEAD.
ScanHead(x) ==
  /\ pc[x] = "idle"
  /\ syncs' = IF x \in Syncer THEN syncs + 1 ELSE syncs
  /\ syncs' <= MaxSyncs
  /\ scan' = [scan EXCEPT ![x].head = head, ![x].todo = Path]
  /\ goto(x, "walk")
  /\ UNCHANGED <<author, disk, build, got>>

\* The walk reads one file after the other.
visitFile(x) ==
  /\ pc[x] = "walk" /\ scan[x].todo # {}
  /\ LET p == CHOOSE q \in scan[x].todo : \A r \in scan[x].todo : Rank[q] <= Rank[r]
     IN  scan' = [scan EXCEPT
           ![x].todo = @ \ {p},
           ![x].current = IF p \in DOMAIN work THEN With(@, p, work[p]) ELSE @]
  /\ UNCHANGED <<author, disk, pc, build, got, syncs>>

WalkDone(x) ==
  /\ pc[x] = "walk" /\ scan[x].todo = {}
  /\ goto(x, IF x \in Syncer THEN "tree" ELSE "receipt")
  /\ UNCHANGED <<author, disk, scan, build, got, syncs>>

\* ls-tree HEAD and cat-file: HEAD by its name again, after the walk.
headSourceV2Inputs(s) ==
  /\ pc[s] = "tree"
  /\ scan' = [scan EXCEPT ![s].tree = Tree[head]]
  /\ goto(s, "known")
  /\ UNCHANGED <<author, disk, build, got, syncs>>

-----------------------------------------------------------------------------
(* Fragments.  Facts of the external extractor name their file's path.     *)

Subject(p) == IF p \in External THEN p ELSE "any"
Fragment(p, c) == [kind |-> "fragment", subject |-> Subject(p), content |-> c]

sourceV2InputCacheKey(p, c) == <<Subject(p), c>>

\* Mutant: a file at the path is enough.
MutantReadyIfPresent(f, c) == f \in store \cup damaged /\ f.content = c

\* sourceV2FragmentReady: reads the file and recomputes its ID.
sourceV2FragmentReady(f, c) == f \in store /\ f.content = c

Indexed(c, f) == [status |-> "indexed", content |-> c, fragment |-> f]
Failed(c) == [status |-> "failed", content |-> c, fragment |-> NoFragment]

addKnownSourceV2Entries(entries) ==
  {<<sourceV2InputCacheKey(p, entries[p].content), entries[p].fragment>> :
     p \in {q \in DOMAIN entries :
              /\ entries[q].status = "indexed"
              /\ sourceV2FragmentReady(entries[q].fragment, entries[q].content)}}

\* Fragments of the bases of this HEAD and of the current receipt, if sound.
knownSourceV2Fragments(s) ==
  /\ pc[s] = "known"
  /\ LET shared == {o \in store : o.kind = "base" /\ o.head = scan[s].head}
         mine == IF /\ receipt.is = "stored"
                    /\ {receipt.base, receipt.delta} \subseteq store
                 THEN {receipt.base, receipt.delta} ELSE {}
     IN  build' = [build EXCEPT ![s].known =
           UNION {addKnownSourceV2Entries(o.entries) : o \in shared \cup mine}]
  /\ goto(s, "base")
  /\ UNCHANGED <<author, disk, scan, got, syncs>>

\* splitSourceV2Inputs.
DeltaInputs(s) ==
  LET c == scan[s].current
      t == scan[s].tree
  IN  Only(c, {p \in DOMAIN c : p \notin DOMAIN t \/ t[p] # c[p]})

Tombstones(s) == DOMAIN scan[s].tree \ DOMAIN scan[s].current

\* What s has built, with an entry for p and newly known fragments k.
Added(s, stage, p, e, k) ==
  LET b == build[s]
  IN  [known |-> b.known \cup k,
       base |-> IF stage = "base" THEN With(b.base, p, e) ELSE b.base,
       delta |-> IF stage = "delta" THEN With(b.delta, p, e) ELSE b.delta]

\* buildSourceV2Entry for the next input of a manifest: reuse, fail, or extract
\* and publish.  A file at the fragment's path that holds other bytes is an error.
BuildEntry(s, stage, inputs) ==
  LET built == IF stage = "base" THEN build[s].base ELSE build[s].delta
      p == First(DOMAIN inputs \ DOMAIN built)
      c == inputs[p]
      f == Fragment(p, c)
      key == sourceV2InputCacheKey(p, c)
      reusable == {k \in build[s].known :
                     k[1] = key /\ sourceV2FragmentReady(k[2], c)}
      put(e, k) == build' = [build EXCEPT ![s] = Added(s, stage, p, e, k)]
  IN
  /\ pc[s] = stage
  /\ DOMAIN inputs # DOMAIN built
  /\ \/ /\ c \notin Bad
        /\ \E k \in reusable : put(Indexed(c, k[2]), {})
        /\ UNCHANGED store
     \/ /\ c \in Bad
        /\ put(Failed(c), {})
        /\ UNCHANGED store
     \/ /\ c \notin Bad /\ reusable = {} /\ f \notin damaged
        /\ store' = store \cup {f}
        /\ put(Indexed(c, f), {<<key, f>>})
  /\ UNCHANGED <<author, damaged, receipt, tainted, losses,
                 pc, scan, got, syncs>>

-----------------------------------------------------------------------------
(* Manifests and the receipt.                                              *)

BaseManifest(s) ==
  [kind |-> "base", head |-> scan[s].head, entries |-> build[s].base]
DeltaManifest(s) ==
  [kind |-> "delta", head |-> scan[s].head, base |-> BaseManifest(s),
   entries |-> build[s].delta, tombstones |-> Tombstones(s)]

\* writeImmutableSourceV2JSON: created once; damaged bytes are a conflict.
writeImmutable(o) == o \notin damaged /\ store' = store \cup {o}

WriteBase(s) ==
  /\ pc[s] = "base" /\ DOMAIN build[s].base = DOMAIN scan[s].tree
  /\ writeImmutable(BaseManifest(s))
  /\ goto(s, "delta")
  /\ UNCHANGED <<author, damaged, receipt, tainted, losses,
                 scan, build, got, syncs>>

WriteDelta(s) ==
  /\ pc[s] = "delta" /\ DOMAIN build[s].delta = DOMAIN DeltaInputs(s)
  /\ writeImmutable(DeltaManifest(s))
  /\ goto(s, "publish")
  /\ UNCHANGED <<author, damaged, receipt, tainted, losses,
                 scan, build, got, syncs>>

mergeSourceV2Entries(base, delta, tombstones) ==
  [p \in (DOMAIN base \ tombstones) \cup DOMAIN delta |->
     IF p \in DOMAIN delta THEN delta[p] ELSE base[p]]

\* Over the scanned files: sourceV2Coverage.
sourceV2Readiness(current, entries) ==
  LET indexed == {p \in DOMAIN current :
                    p \in DOMAIN entries /\ entries[p].status = "indexed"}
  IN  IF indexed = DOMAIN current THEN "exact"
      ELSE IF indexed = {} THEN "failed" ELSE "partial"

\* Back to the start with nothing kept.
Leave(x) ==
  /\ goto(x, "idle")
  /\ scan' = [scan EXCEPT ![x] = NoScan]
  /\ build' = [build EXCEPT ![x] = NoBuild]
  /\ got' = [got EXCEPT ![x] = NoReceipt]

publishSourceV2Generation(s) ==
  /\ pc[s] = "publish"
  /\ receipt' = [is |-> "stored", head |-> scan[s].head,
                 current |-> scan[s].current,
                 base |-> BaseManifest(s), delta |-> DeltaManifest(s),
                 status |-> sourceV2Readiness(scan[s].current,
                              mergeSourceV2Entries(build[s].base, build[s].delta,
                                                   Tombstones(s)))]
  /\ tainted' = FALSE
  /\ Leave(s)
  /\ UNCHANGED <<author, store, damaged, losses, syncs>>

\* An error (git, a file gone during the walk, no or a wrong external
\* extractor, a conflict, I/O) or the end of the process at any step.
Stop(x) ==
  /\ pc[x] # "idle"
  /\ Leave(x)
  /\ UNCHANGED <<author, disk, syncs>>

-----------------------------------------------------------------------------
(* SourceIndexStatus and QuerySourceIndex.                                 *)

\* No receipt, one that does not decode, or one of other bytes ends the query.
LoadReceipt(r) ==
  /\ pc[r] = "receipt"
  /\ IF receipt.is = "stored" /\ receipt.head = scan[r].head
        /\ receipt.current = scan[r].current
     THEN got' = [got EXCEPT ![r] = receipt] /\ goto(r, "verify")
          /\ UNCHANGED <<scan, build>>
     ELSE Leave(r)
  /\ UNCHANGED <<author, disk, syncs>>

Entries(g) ==
  mergeSourceV2Entries(g.base.entries, g.delta.entries, g.delta.tombstones)

\* Manifests load, belong together, and every indexed entry has its fragment.
verifySourceV2Generation(g) ==
  /\ {g.base, g.delta} \subseteq store
  /\ g.base.head = g.head /\ g.delta.head = g.head /\ g.delta.base = g.base
  /\ \A p \in DOMAIN Entries(g) :
       LET e == Entries(g)[p]
       IN  e.status = "indexed" => sourceV2FragmentReady(e.fragment, e.content)

Verify(r) ==
  /\ pc[r] = "verify"
  /\ got' = [got EXCEPT ![r].status =
               IF verifySourceV2Generation(got[r]) THEN @ ELSE "failed"]
  /\ goto(r, "query")
  /\ UNCHANGED <<author, disk, scan, build, syncs>>

\* The facts a reader gets from a fragment's file: altered ones pass, because
\* only the status check recomputes the ID.
Loaded(f) == IF f \in store THEN f ELSE [f EXCEPT !.kind = "altered"]

\* Mutant: the query opens the generation that is current by then.
MutantQueryCurrent(r) ==
  /\ pc[r] = "query"
  /\ receipt.is = "stored"
  /\ {receipt.base, receipt.delta} \subseteq store
  /\ LET e == Entries(receipt)
         matching == {p \in DOMAIN e : e[p].status = "indexed"}
     IN  /\ \A p \in matching : e[p].fragment \in store \cup damaged
         /\ got' = [got EXCEPT ![r] =
              [is |-> "answer", status |-> got[r].status,
               records |-> [p \in matching |-> Loaded(e[p].fragment)]]]
  /\ goto(r, "answered")
  /\ UNCHANGED <<author, disk, scan, build, syncs>>

\* Any status but missing and stale is answered, from the manifests that the
\* status named; an object that does not load is an error.
QuerySourceIndex(r) ==
  /\ pc[r] = "query"
  /\ {got[r].base, got[r].delta} \subseteq store
  /\ LET e == Entries(got[r])
         matching == {p \in DOMAIN e : e[p].status = "indexed"}
     IN  /\ \A p \in matching : e[p].fragment \in store \cup damaged
         /\ got' = [got EXCEPT ![r] =
              [is |-> "answer", status |-> got[r].status,
               records |-> [p \in matching |-> Loaded(e[p].fragment)]]]
  /\ goto(r, "answered")
  /\ UNCHANGED <<author, disk, scan, build, syncs>>

-----------------------------------------------------------------------------
Next ==
  \/ \E p \in Path : Remove(p) \/ \E c \in Content : Edit(p, c)
  \/ \E c \in Commit : MoveHead(c, work) \/ MoveHead(c, Tree[c])
  \/ PowerLoss
  \/ \E x \in Process : ScanHead(x) \/ visitFile(x) \/ WalkDone(x) \/ Stop(x)
  \/ \E s \in Syncer :
       \/ headSourceV2Inputs(s) \/ knownSourceV2Fragments(s)
       \/ BuildEntry(s, "base", scan[s].tree) \/ WriteBase(s)
       \/ BuildEntry(s, "delta", DeltaInputs(s)) \/ WriteDelta(s)
       \/ publishSourceV2Generation(s)
  \/ \E r \in Reader : LoadReceipt(r) \/ Verify(r) \/ QuerySourceIndex(r)

Spec == Init /\ [][Next]_vars

-----------------------------------------------------------------------------
\* CODE_INTEL.md: QuerySourceIndex "refuses missing or stale generations", and
\* "a status is exact only when every eligible file is indexed".  An exact or
\* partial answer holds, for exactly the files that its own scan read and that
\* can be indexed, the facts of the bytes it read, however syncs, edits and
\* movements of HEAD interleaved and whatever a power loss destroyed before.
AnswerIsExact ==
  \A r \in Reader :
    pc[r] = "answered" /\ got[r].status # "failed" =>
      LET c == scan[r].current
      IN  /\ got[r].records =
               [p \in {q \in DOMAIN c : c[q] \notin Bad} |-> Fragment(p, c[p])]
          /\ (got[r].status = "exact") = (\A p \in DOMAIN c : c[p] \notin Bad)

\* The receipt is written after everything it names, and a sync reuses only what
\* it has verified: unless an object was lost since, the receipt's generation is
\* complete and sound, also after errors, dead syncs, overlapping syncs and an
\* earlier power loss.
ReceiptIsWhole ==
  receipt.is = "stored" /\ ~tainted =>
    /\ {receipt.base, receipt.delta} \subseteq store
    /\ \A p \in DOMAIN Entries(receipt) :
         LET e == Entries(receipt)[p]
         IN  e.status = "indexed" => e.fragment \in store
=============================================================================
