-------------------------- MODULE SourceIndexProofs --------------------------
(***************************************************************************)
(* Proofs about SourceIndex, for every set of processes, paths, contents   *)
(* and commits and every bound: the receipt's generation is whole unless   *)
(* an object was lost since, and an answer holds the facts of exactly the  *)
(* bytes that its own scan read.                                           *)
(*                                                                         *)
(* The argument.  Whoever builds an entry, by reuse, failure or            *)
(* extraction, the entry is the one that the path and the content of the   *)
(* file determine (Right).  So every manifest that exists is right for     *)
(* some files, and the manifests of a sync are right for the two trees of  *)
(* its own scan, as far as it has come (BuildsFollowScan).  Base and delta *)
(* merge to the files that were scanned (GenerationIsRight): the delta and *)
(* the tombstones were computed from the same two trees.  Objects leave    *)
(* the store with a power loss only, which ends every process; so what a   *)
(* sync has stored (BuildsAreStored) is there when it writes the receipt,  *)
(* and what a query has verified is there when it reads it.                *)
(***************************************************************************)
EXTENDS SourceIndex, WellFoundedInduction, TLAPS

Place == {"idle", "walk", "tree", "known", "base", "delta",
          "publish", "receipt", "verify", "query", "answered"}
Head == Commit \cup {"none"}
Status == {"exact", "partial", "failed"}

\* The one entry that path and content determine, and those of a tree.
Right(p, c) == IF c \in Bad THEN Failed(c) ELSE Indexed(c, Fragment(p, c))
Facts(f) == [p \in DOMAIN f |-> Right(p, f[p])]

Facet == {Facts(f) : f \in Files}
Known == {<<sourceV2InputCacheKey(p, c), Fragment(p, c)>> : p \in Path, c \in Content}

Fragments == {Fragment(p, c) : p \in Path, c \in Content}
Base == [kind : {"base"}, head : Head, entries : Facet]
Delta == [kind : {"delta"}, head : Head, base : Base, entries : Facet,
          tombstones : SUBSET Path]
Object == Fragments \cup Base \cup Delta
Scan == [head : Head, current : Files, tree : Files, todo : SUBSET Path]
Build == [known : SUBSET Known, base : Facet, delta : Facet]
Receipt == [is : {"stored"}, head : Head, current : Files,
            base : Base, delta : Delta, status : Status]

-----------------------------------------------------------------------------
(* The inductive invariant.                                                *)

\* What the variables hold: every entry anywhere is a right one.
Shapes ==
  /\ head \in Commit /\ work \in Files
  /\ store \subseteq Object /\ damaged \subseteq Object
  /\ receipt \in {NoReceipt, BrokenReceipt} \cup Receipt
  /\ pc \in [Process -> Place]
  /\ scan \in [Process -> Scan]
  /\ build \in [Process -> Build]
  /\ got = [x \in Process |-> got[x]]

\* The entries built so far, of the files they are built from.
Follows(e, f) ==
  /\ DOMAIN e \subseteq DOMAIN f
  /\ \A p \in DOMAIN e : e[p] = Right(p, f[p])

\* A sync's entries are right for its own scan, and complete when it says so.
FollowsScan(s) ==
  /\ pc[s] \in {"idle", "walk", "tree", "known"} =>
       DOMAIN build[s].base = {} /\ DOMAIN build[s].delta = {}
  /\ pc[s] = "base" => DOMAIN build[s].delta = {}
  /\ Follows(build[s].base, scan[s].tree)
  /\ Follows(build[s].delta, DeltaInputs(s))
  /\ pc[s] \in {"delta", "publish"} => DOMAIN build[s].base = DOMAIN scan[s].tree
  /\ pc[s] = "publish" => DOMAIN build[s].delta = DOMAIN DeltaInputs(s)

BuildsFollowScan == \A s \in Process : FollowsScan(s)

\* Every fragment that entries name is sound in the store.
Stored(e) == \A p \in DOMAIN e : e[p].status = "indexed" => e[p].fragment \in store

KeepsStored(s) ==
  /\ Stored(build[s].base) /\ Stored(build[s].delta)
  /\ pc[s] \in {"delta", "publish"} => BaseManifest(s) \in store
  /\ pc[s] = "publish" => DeltaManifest(s) \in store

BuildsAreStored == \A s \in Process : KeepsStored(s)

\* Base and delta of a receipt merge to the files it was written for.
GenerationIsRight(g) == Entries(g) = Facts(g.current)

ReceiptIsRight ==
  receipt.is = "stored" =>
    /\ GenerationIsRight(receipt)
    /\ receipt.status = sourceV2Readiness(receipt.current, Entries(receipt))

\* A query works on a receipt of the files it scanned, and has verified it.
QueriesRight(r) ==
  /\ pc[r] \in {"verify", "query"} =>
       /\ got[r] \in Receipt
       /\ got[r].current = scan[r].current
       /\ GenerationIsRight(got[r])
       /\ \/ got[r].status = sourceV2Readiness(got[r].current, Entries(got[r]))
          \/ pc[r] = "query" /\ got[r].status = "failed"
  /\ pc[r] = "query" /\ got[r].status # "failed" => Stored(Entries(got[r]))

QueryIsRight == \A r \in Process : QueriesRight(r)

\* The rest of the types, and the bounds.
Bounds ==
  /\ store \cap damaged = {} /\ tainted \in BOOLEAN
  /\ changes \in 0..MaxChanges /\ losses \in 0..MaxLosses
  /\ syncs \in 0..MaxSyncs

Inv ==
  /\ Shapes
  /\ Bounds
  /\ BuildsFollowScan
  /\ BuildsAreStored
  /\ ReceiptIsRight
  /\ QueryIsRight
  /\ ReceiptIsWhole
  /\ AnswerIsExact

-----------------------------------------------------------------------------
(* Operators.                                                              *)

\* Some path of a nonempty set is visited first: the CHOOSE is not empty.
LEMMA FirstIsMember ==
  ASSUME NEW S \in SUBSET Path, S # {} PROVE First(S) \in S
<1>1. ASSUME NEW T \in SUBSET Path, T # {}
      PROVE  \E p \in T : \A q \in T \ {p} : Rank[p] < Rank[q]
  <2> DEFINE R == {Rank[p] : p \in T}
  <2>1. R \subseteq Nat /\ R # {}
    BY <1>1, SourceAssumption
  <2>2. PICK n \in R : \A m \in R : ~(<<m, n>> \in OpToRel(<, Nat))
    BY <2>1, NatLessThanWellFounded, WFMin
  <2>3. ASSUME NEW m \in R PROVE n <= m
    <3>1. m \in Nat /\ n \in Nat
      BY <2>1
    <3>2. ~(<<m, n>> \in {ss \in Nat \X Nat : ss[1] < ss[2]})
      BY <2>2 DEF OpToRel
    <3>3. <<m, n>> \in Nat \X Nat => ~(m < n)
      BY <3>2, Zenon
    <3> QED  BY <3>1, <3>3
  <2>4. PICK p \in T : Rank[p] = n
    OBVIOUS
  <2>5. ASSUME NEW q \in T \ {p} PROVE Rank[p] < Rank[q]
    BY <2>1, <2>3, <2>4, SourceAssumption
  <2> QED  BY <2>4, <2>5
<1>2. \E p \in S : \A q \in S \ {p} : Earlier(p, q)
  <2>1. CASE S \ External # {}
    <3>1. PICK p \in S \ External : \A q \in (S \ External) \ {p} : Rank[p] < Rank[q]
      BY <1>1, <2>1
    <3> QED  BY <3>1 DEF Earlier
  <2>2. CASE S \subseteq External
    BY <1>1, <2>2 DEF Earlier
  <2> QED  BY <2>1, <2>2
<1> QED  BY <1>2 DEF First

\* Adding and restricting keep partial functions partial functions.
LEMMA FilesUpdates ==
  /\ \A f \in Files : DOMAIN f \subseteq Path
       /\ f \in [DOMAIN f -> Content] /\ \A p \in DOMAIN f : f[p] \in Content
  /\ \A f \in Files, p \in Path, c \in Content : With(f, p, c) \in Files
  /\ \A f \in Files : \A S : Only(f, S) \in Files
  /\ NoFiles \in Files
<1>1. \A f \in Files : DOMAIN f \subseteq Path
        /\ f \in [DOMAIN f -> Content] /\ \A p \in DOMAIN f : f[p] \in Content
  BY DEF Files
<1>2. ASSUME NEW f \in Files, NEW p \in Path, NEW c \in Content
      PROVE  With(f, p, c) \in Files
  <2>1. DOMAIN f \cup {p} \in SUBSET Path
    BY <1>1
  <2>2. With(f, p, c) \in [DOMAIN f \cup {p} -> Content]
    BY <1>1 DEF With
  <2> QED  BY <2>1, <2>2 DEF Files
<1>3. ASSUME NEW f \in Files, NEW S PROVE Only(f, S) \in Files
  <2>1. DOMAIN f \cap S \in SUBSET Path
    BY <1>1
  <2>2. Only(f, S) \in [DOMAIN f \cap S -> Content]
    BY <1>1 DEF Only
  <2> QED  BY <2>1, <2>2 DEF Files
<1>4. NoFiles \in [{} -> Content] /\ {} \in SUBSET Path
  BY DEF NoFiles
<1> QED  BY <1>1, <1>2, <1>3, <1>4 DEF Files

LEMMA FacetUpdates ==
  /\ \A f \in Files : Facts(f) \in Facet /\ DOMAIN Facts(f) = DOMAIN f
  /\ \A e \in Facet : DOMAIN e \subseteq Path
  /\ \A e \in Facet : \E f \in Files : e = Facts(f)
  /\ NoFiles \in Facet
<1>1. Facts(NoFiles) = NoFiles
  BY DEF Facts, NoFiles
<1> QED  BY <1>1, FilesUpdates DEF Facet, Facts

LEMMA FacetWith ==
  ASSUME NEW e \in Facet, NEW p \in Path, NEW c \in Content
  PROVE  With(e, p, Right(p, c)) \in Facet
<1>1. PICK f \in Files : e = Facts(f)
  BY FacetUpdates
<1>2. With(e, p, Right(p, c)) = Facts(With(f, p, c))
  BY <1>1 DEF Facts, With
<1> QED  BY <1>2, FilesUpdates, FacetUpdates

\* Base and delta of a complete build merge to the scanned files.
LEMMA MergeIsExact ==
  ASSUME NEW t \in Files, NEW c \in Files, NEW base \in Facet, NEW delta \in Facet,
         NEW changed,
         changed = Only(c, {p \in DOMAIN c : p \notin DOMAIN t \/ t[p] # c[p]}),
         Follows(base, t), Follows(delta, changed),
         DOMAIN base = DOMAIN t, DOMAIN delta = DOMAIN changed
  PROVE  mergeSourceV2Entries(base, delta, DOMAIN t \ DOMAIN c) = Facts(c)
<1>1. DOMAIN changed = {p \in DOMAIN c : p \notin DOMAIN t \/ t[p] # c[p]}
  BY DEF Only
<1>2. (DOMAIN base \ (DOMAIN t \ DOMAIN c)) \cup DOMAIN delta = DOMAIN c
  BY <1>1
<1>3. ASSUME NEW p \in DOMAIN c
      PROVE  (IF p \in DOMAIN delta THEN delta[p] ELSE base[p]) = Right(p, c[p])
  BY <1>1 DEF Follows, Only
<1> QED  BY <1>2, <1>3 DEF mergeSourceV2Entries, Facts

LEMMA ReadinessIsStatus == \A c, e : sourceV2Readiness(c, e) \in Status
BY DEF sourceV2Readiness, Status

-----------------------------------------------------------------------------
(* The step that builds one entry.                                         *)

\* What the processes know of a fragment is right, so whichever way an entry is
\* built it is the right one, and the fragment it names is in the store.
LEMMA KnownIsRight ==
  ASSUME NEW K \in SUBSET Known, NEW p \in Path, NEW c \in Content,
         NEW k \in K, k[1] = sourceV2InputCacheKey(p, c), k[2].content = c
  PROVE  k[2] = Fragment(p, c)
<1>1. PICK q \in Path, d \in Content :
        k = <<sourceV2InputCacheKey(q, d), Fragment(q, d)>>
  BY DEF Known
<1>2. k[1] = <<Subject(q), d>> /\ k[2] = Fragment(q, d)
  BY <1>1 DEF sourceV2InputCacheKey
<1>3. Subject(q) = Subject(p) /\ d = c
  BY <1>2 DEF sourceV2InputCacheKey
<1> QED  BY <1>2, <1>3 DEF Fragment

EntryStep(s, stage, inputs, p, k) ==
  LET e == Right(p, inputs[p])
  IN  /\ build' = [build EXCEPT ![s] = Added(s, stage, p, e, k)]
      /\ e.status = "indexed" => e.fragment \in store'
      /\ store' \in {store, store \cup ({Fragment(p, inputs[p])} \ damaged)}

LEMMA BuildEntryAdds ==
  ASSUME Shapes, NEW s \in Syncer, NEW stage, NEW inputs \in Files, NEW built,
         built = IF stage = "base" THEN build[s].base ELSE build[s].delta,
         DOMAIN built \subseteq DOMAIN inputs,
         BuildEntry(s, stage, inputs)
  PROVE  \E p \in DOMAIN inputs \ DOMAIN built, k \in SUBSET Known :
           EntryStep(s, stage, inputs, p, k)
<1> DEFINE p == First(DOMAIN inputs \ DOMAIN built)
           c == inputs[p]
           f == Fragment(p, c)
           key == sourceV2InputCacheKey(p, c)
           reusable == {k \in build[s].known :
                          k[1] = key /\ sourceV2FragmentReady(k[2], c)}
<1>1. p \in DOMAIN inputs \ DOMAIN built
  <2>1. DOMAIN inputs \ DOMAIN built # {}
    BY DEF BuildEntry
  <2>2. DOMAIN inputs \ DOMAIN built \in SUBSET Path
    BY FilesUpdates
  <2> HIDE DEF p
  <2> QED  BY <2>1, <2>2, FirstIsMember DEF p
<1>2. p \in Path /\ c \in Content
  BY <1>1, FilesUpdates
<1>3. build[s].known \in SUBSET Known
  BY DEF Shapes, Build, Process
<1>4. \E k \in SUBSET Known :
        /\ build' = [build EXCEPT ![s] = Added(s, stage, p, Right(p, c), k)]
        /\ Right(p, c).status = "indexed" => Right(p, c).fragment \in store'
        /\ store' \in {store, store \cup ({f} \ damaged)}
  <2> HIDE DEF p
  <2>1. \/ /\ c \notin Bad
           /\ \E k \in reusable :
                build' = [build EXCEPT ![s] = Added(s, stage, p, Indexed(c, k[2]), {})]
           /\ UNCHANGED store
        \/ /\ c \in Bad
           /\ build' = [build EXCEPT ![s] = Added(s, stage, p, Failed(c), {})]
           /\ UNCHANGED store
        \/ /\ c \notin Bad /\ f \notin damaged
           /\ store' = store \cup {f}
           /\ build' = [build EXCEPT ![s] =
                         Added(s, stage, p, Indexed(c, f), {<<key, f>>})]
    BY DEF BuildEntry, p
  <2>2. ASSUME c \notin Bad, NEW k \in reusable, UNCHANGED store,
               build' = [build EXCEPT ![s] = Added(s, stage, p, Indexed(c, k[2]), {})]
        PROVE  /\ build' = [build EXCEPT ![s] = Added(s, stage, p, Right(p, c), {})]
               /\ Right(p, c).status = "indexed" => Right(p, c).fragment \in store'
    <3>1. k[2] = f /\ f \in store
      BY <1>2, <1>3, <2>2, KnownIsRight DEF sourceV2FragmentReady
    <3> QED  BY <2>2, <3>1 DEF Right, Indexed
  <2>3. CASE /\ c \in Bad
             /\ build' = [build EXCEPT ![s] = Added(s, stage, p, Failed(c), {})]
             /\ UNCHANGED store
    <3>1. Right(p, c) = Failed(c) /\ Failed(c).status = "failed"
      BY <2>3 DEF Right, Failed
    <3>2. {} \in SUBSET Known /\ store' = store
      BY <2>3
    <3>3. build' = [build EXCEPT ![s] = Added(s, stage, p, Right(p, c), {})]
      BY <2>3, <3>1
    <3> HIDE DEF c
    <3> QED  BY <3>1, <3>2, <3>3
  <2>4. CASE /\ c \notin Bad /\ f \notin damaged
             /\ store' = store \cup {f}
             /\ build' = [build EXCEPT ![s] =
                           Added(s, stage, p, Indexed(c, f), {<<key, f>>})]
    <3>1. {<<key, f>>} \in SUBSET Known
      BY <1>2 DEF Known
    <3> QED  BY <2>4, <3>1 DEF Right, Indexed
  <2> QED  BY <2>1, <2>2, <2>3, <2>4
<1> QED  BY <1>1, <1>4 DEF EntryStep

\* What entries of a right manifest add to a sync's knowledge is right.
LEMMA KnownEntries ==
  ASSUME NEW e \in Facet PROVE addKnownSourceV2Entries(e) \in SUBSET Known
<1>1. PICK f \in Files : e = Facts(f)
  BY FacetUpdates
<1>2. ASSUME NEW p \in DOMAIN e, e[p].status = "indexed"
      PROVE  <<sourceV2InputCacheKey(p, e[p].content), e[p].fragment>> \in Known
  <2>1. p \in Path /\ f[p] \in Content /\ e[p] = Right(p, f[p])
    BY <1>1, FilesUpdates DEF Facts
  <2>2. e[p] = Indexed(f[p], Fragment(p, f[p]))
    BY <1>2, <2>1 DEF Right, Failed
  <2>3. e[p].content = f[p] /\ e[p].fragment = Fragment(p, f[p])
    BY <2>2 DEF Indexed
  <2> QED  BY <2>1, <2>3 DEF Known
<1> QED  BY <1>2 DEF addKnownSourceV2Entries

LEMMA ManifestTypes ==
  ASSUME Shapes, NEW s \in Process
  PROVE  /\ scan[s] \in Scan /\ build[s] \in Build
         /\ DeltaInputs(s) \in Files
         /\ BaseManifest(s) \in Base /\ DeltaManifest(s) \in Delta
<1>1. scan[s] \in Scan /\ build[s] \in Build
  BY DEF Shapes
<1>2. DeltaInputs(s) \in Files
  BY <1>1, FilesUpdates DEF DeltaInputs, Scan
<1>3. BaseManifest(s) \in Base
  BY <1>1 DEF BaseManifest, Base, Scan, Build
<1>4. Tombstones(s) \subseteq Path
  BY <1>1, FilesUpdates DEF Tombstones, Scan
<1>5. DeltaManifest(s) \in Delta
  BY <1>1, <1>3, <1>4 DEF DeltaManifest, Delta, Scan, Build
<1> QED  BY <1>1, <1>2, <1>3, <1>5

\* An entry is added to one manifest; both stay manifests of right entries.
LEMMA AddedTypes ==
  ASSUME Shapes, NEW s \in Process, NEW stage, NEW p \in Path, NEW c \in Content,
         NEW k \in SUBSET Known
  PROVE  Added(s, stage, p, Right(p, c), k) \in Build
<1>1. build[s] \in Build
  BY DEF Shapes
<1>2. /\ With(build[s].base, p, Right(p, c)) \in Facet
      /\ With(build[s].delta, p, Right(p, c)) \in Facet
  BY <1>1, FacetWith DEF Build
<1> QED  BY <1>1, <1>2 DEF Added, Build

LEMMA EmptyShapes == NoScan \in Scan /\ NoBuild \in Build
<1>1. NoScan \in Scan
  BY FilesUpdates DEF NoScan, Scan, Head
<1>2. NoBuild \in Build
  BY FacetUpdates DEF NoBuild, Build
<1> QED  BY <1>1, <1>2

-----------------------------------------------------------------------------
(* Every action keeps every part of the invariant.                         *)

\* Objects are only ever put where no damaged file is, and what is counted
\* stays within its bounds.
LEMMA StepBounds == Inv /\ [Next]_vars => Bounds'
<1> SUFFICES ASSUME Bounds, [Next]_vars PROVE Bounds'
  BY DEF Inv
<1> USE SourceAssumption DEF Bounds, Process, author, disk
<1>1. ASSUME NEW p \in Path, Remove(p) PROVE Bounds'
  BY <1>1 DEF Remove, Change
<1>2. ASSUME NEW p \in Path, NEW c \in Content, Edit(p, c) PROVE Bounds'
  BY <1>2 DEF Edit, Change
<1>3. ASSUME NEW c \in Commit, MoveHead(c, work) \/ MoveHead(c, Tree[c]) PROVE
           Bounds'
  BY <1>3 DEF MoveHead, Change
<1>4. CASE PowerLoss
  <2>1. store' \subseteq store /\ tainted' \in BOOLEAN
    BY <1>4 DEF PowerLoss
  <2>2. store' \cap damaged' = {}
    BY <1>4 DEF PowerLoss
  <2> QED  BY <1>4, <2>1, <2>2 DEF PowerLoss
<1>5. ASSUME NEW x \in Process, ScanHead(x) PROVE Bounds'
  BY <1>5 DEF ScanHead, goto
<1>6. ASSUME NEW x \in Process, visitFile(x) PROVE Bounds'
  BY <1>6 DEF visitFile
<1>7. ASSUME NEW x \in Process, WalkDone(x) PROVE Bounds'
  BY <1>7 DEF WalkDone, goto
<1>8. ASSUME NEW x \in Process, Stop(x) PROVE Bounds'
  BY <1>8 DEF Stop, Leave, goto
<1>9. ASSUME NEW s \in Syncer, headSourceV2Inputs(s) PROVE Bounds'
  BY <1>9 DEF headSourceV2Inputs, goto
<1>10. ASSUME NEW s \in Syncer, knownSourceV2Fragments(s) PROVE Bounds'
  BY <1>10 DEF knownSourceV2Fragments, goto
<1>11. ASSUME NEW s \in Syncer, BuildEntry(s, "base", scan[s].tree) PROVE Bounds'
  BY <1>11 DEF BuildEntry
<1>12. ASSUME NEW s \in Syncer, WriteBase(s) PROVE Bounds'
  BY <1>12 DEF WriteBase, goto, writeImmutable
<1>13. ASSUME NEW s \in Syncer, BuildEntry(s, "delta", DeltaInputs(s)) PROVE Bounds'
  BY <1>13 DEF BuildEntry
<1>14. ASSUME NEW s \in Syncer, WriteDelta(s) PROVE Bounds'
  BY <1>14 DEF WriteDelta, goto, writeImmutable
<1>15. ASSUME NEW s \in Syncer, publishSourceV2Generation(s) PROVE Bounds'
  BY <1>15 DEF publishSourceV2Generation, Leave, goto
<1>16. ASSUME NEW r \in Reader, LoadReceipt(r) PROVE Bounds'
  BY <1>16 DEF LoadReceipt, Leave, goto
<1>17. ASSUME NEW r \in Reader, Verify(r) PROVE Bounds'
  BY <1>17 DEF Verify, goto
<1>18. ASSUME NEW r \in Reader, QuerySourceIndex(r) PROVE Bounds'
  BY <1>18 DEF QuerySourceIndex, goto
<1>19. CASE UNCHANGED vars
  BY <1>19 DEF vars
<1> QED  BY <1>1, <1>2, <1>3, <1>4, <1>5, <1>6, <1>7, <1>8, <1>9, <1>10, <1>11,
       <1>12, <1>13, <1>14, <1>15, <1>16, <1>17, <1>18, <1>19 DEF Next

\* The two kinds of entry steps, as the invariant's parts need them.
LEMMA EntryOfBase ==
  ASSUME Shapes, BuildsFollowScan, NEW s \in Syncer,
         BuildEntry(s, "base", scan[s].tree)
  PROVE  \E p \in DOMAIN scan[s].tree \ DOMAIN build[s].base, k \in SUBSET Known :
           EntryStep(s, "base", scan[s].tree, p, k)
<1>1. scan[s].tree \in Files
  BY DEF Shapes, Scan, Process
<1>2. DOMAIN build[s].base \subseteq DOMAIN scan[s].tree
  BY DEF BuildsFollowScan, FollowsScan, Follows, Process
<1> QED  BY <1>1, <1>2, BuildEntryAdds

LEMMA EntryOfDelta ==
  ASSUME Shapes, BuildsFollowScan, NEW s \in Syncer,
         BuildEntry(s, "delta", DeltaInputs(s))
  PROVE  \E p \in DOMAIN DeltaInputs(s) \ DOMAIN build[s].delta, k \in SUBSET Known :
           EntryStep(s, "delta", DeltaInputs(s), p, k)
<1>1. DeltaInputs(s) \in Files
  BY ManifestTypes DEF Process
<1>2. DOMAIN build[s].delta \subseteq DOMAIN DeltaInputs(s)
  BY DEF BuildsFollowScan, FollowsScan, Follows, Process
<1> QED  BY <1>1, <1>2, BuildEntryAdds

\* Every object that is written, every receipt and everything a process keeps
\* is made of right entries.
LEMMA StepShapes == Inv /\ [Next]_vars => Shapes'
<1> SUFFICES ASSUME Shapes, BuildsFollowScan, [Next]_vars PROVE Shapes'
  BY DEF Inv
<1> USE DEF Shapes, author, disk
<1>1. ASSUME NEW p \in Path, Remove(p) PROVE Shapes'
  BY <1>1, FilesUpdates DEF Remove, Change
<1>2. ASSUME NEW p \in Path, NEW c \in Content, Edit(p, c) PROVE Shapes'
  BY <1>2, FilesUpdates DEF Edit, Change
<1>3. ASSUME NEW c \in Commit, MoveHead(c, work) \/ MoveHead(c, Tree[c]) PROVE
           Shapes'
  BY <1>3, SourceAssumption DEF MoveHead, Change
<1>4. CASE PowerLoss
  <2>1. /\ store' \subseteq Object /\ damaged' \subseteq Object
        /\ receipt' \in {NoReceipt, BrokenReceipt} \cup Receipt
        /\ head' \in Commit /\ work' \in Files
    BY <1>4 DEF PowerLoss
  <2>2. /\ pc' \in [Process -> Place] /\ scan' \in [Process -> Scan]
        /\ build' \in [Process -> Build] /\ got' = [x \in Process |-> got'[x]]
    BY <1>4, EmptyShapes DEF PowerLoss, Place
  <2> QED  BY <2>1, <2>2
<1>5. ASSUME NEW x \in Process, ScanHead(x) PROVE Shapes'
  <2>1. scan' \in [Process -> Scan]
    BY <1>5 DEF ScanHead, Scan, Head
  <2> QED  BY <1>5, <2>1 DEF ScanHead, goto, Place
<1>6. ASSUME NEW x \in Process, visitFile(x) PROVE Shapes'
  <2> DEFINE q == CHOOSE q \in scan[x].todo : \A r \in scan[x].todo : Rank[q] <= Rank[r]
  <2>1. scan' = [scan EXCEPT
           ![x].todo = @ \ {q},
           ![x].current = IF q \in DOMAIN work THEN With(@, q, work[q]) ELSE @]
    BY <1>6 DEF visitFile
  <2> HIDE DEF q
  <2>2. q \in DOMAIN work => With(scan[x].current, q, work[q]) \in Files
    BY FilesUpdates DEF Scan
  <2>3. scan' \in [Process -> Scan]
    BY <2>1, <2>2 DEF Scan
  <2> QED  BY <1>6, <2>3 DEF visitFile
<1>7. ASSUME NEW x \in Process, WalkDone(x) PROVE Shapes'
  BY <1>7 DEF WalkDone, goto, Place
<1>8. ASSUME NEW x \in Process, Stop(x) PROVE Shapes'
  BY <1>8, EmptyShapes DEF Stop, Leave, goto, Place
<1>9. ASSUME NEW s \in Syncer, headSourceV2Inputs(s) PROVE Shapes'
  <2>1. Tree[head] \in Files
    BY SourceAssumption
  <2>2. scan' \in [Process -> Scan]
    BY <1>9, <2>1 DEF headSourceV2Inputs, Scan
  <2> QED  BY <1>9, <2>2 DEF headSourceV2Inputs, goto, Place
<1>10. ASSUME NEW s \in Syncer, knownSourceV2Fragments(s) PROVE Shapes'
  <2>1. PICK M : /\ \A o \in M : o.entries \in Facet
                 /\ build' = [build EXCEPT ![s].known =
                      UNION {addKnownSourceV2Entries(o.entries) : o \in M}]
    <3> DEFINE shared == {o \in store : o.kind = "base" /\ o.head = scan[s].head}
               mine == IF /\ receipt.is = "stored"
                          /\ {receipt.base, receipt.delta} \subseteq store
                       THEN {receipt.base, receipt.delta} ELSE {}
    <3>1. ASSUME NEW o \in shared PROVE o.entries \in Facet
      BY DEF Object, Fragments, Fragment, Base, Delta
    <3>2. ASSUME NEW o \in mine PROVE o.entries \in Facet
      <4>1. receipt \in Receipt
        BY <3>2 DEF NoReceipt, BrokenReceipt
      <4> QED  BY <3>2, <4>1 DEF Receipt, Base, Delta
    <3>3. build' = [build EXCEPT ![s].known =
             UNION {addKnownSourceV2Entries(o.entries) : o \in shared \cup mine}]
      BY <1>10 DEF knownSourceV2Fragments
    <3> HIDE DEF shared, mine
    <3> QED  BY <3>1, <3>2, <3>3
  <2>2. UNION {addKnownSourceV2Entries(o.entries) : o \in M} \in SUBSET Known
    BY <2>1, KnownEntries
  <2>3. build' \in [Process -> Build]
    BY <2>1, <2>2 DEF Build
  <2> QED  BY <1>10, <2>3 DEF knownSourceV2Fragments, goto, Place
<1>11. ASSUME NEW s \in Syncer, BuildEntry(s, "base", scan[s].tree) PROVE Shapes'
  <2>1. scan[s].tree \in Files /\ s \in Process
    BY ManifestTypes DEF Scan, Process
  <2>2. PICK p \in DOMAIN scan[s].tree \ DOMAIN build[s].base, k \in SUBSET Known :
          EntryStep(s, "base", scan[s].tree, p, k)
    BY <1>11, <2>1, EntryOfBase
  <2>3. p \in Path /\ scan[s].tree[p] \in Content
    BY <2>1, FilesUpdates
  <2>4. Added(s, "base", p, Right(p, scan[s].tree[p]), k) \in Build
    BY <2>1, <2>3, AddedTypes
  <2>5. build' \in [Process -> Build]
    BY <2>2, <2>4 DEF EntryStep
  <2>6. store' \subseteq Object
    BY <2>2, <2>3 DEF EntryStep, Object, Fragments
  <2> QED  BY <1>11, <2>5, <2>6 DEF BuildEntry
<1>12. ASSUME NEW s \in Syncer, WriteBase(s) PROVE Shapes'
  <2>1. BaseManifest(s) \in Object
    BY ManifestTypes DEF Object, Process
  <2> QED  BY <1>12, <2>1 DEF WriteBase, writeImmutable, goto, Place
<1>13. ASSUME NEW s \in Syncer, BuildEntry(s, "delta", DeltaInputs(s)) PROVE Shapes'
  <2>1. DeltaInputs(s) \in Files /\ s \in Process
    BY ManifestTypes DEF Scan, Process
  <2>2. PICK p \in DOMAIN DeltaInputs(s) \ DOMAIN build[s].delta, k \in SUBSET Known :
          EntryStep(s, "delta", DeltaInputs(s), p, k)
    BY <1>13, <2>1, EntryOfDelta
  <2>3. p \in Path /\ DeltaInputs(s)[p] \in Content
    BY <2>1, FilesUpdates
  <2>4. Added(s, "delta", p, Right(p, DeltaInputs(s)[p]), k) \in Build
    BY <2>1, <2>3, AddedTypes
  <2>5. build' \in [Process -> Build]
    BY <2>2, <2>4 DEF EntryStep
  <2>6. store' \subseteq Object
    BY <2>2, <2>3 DEF EntryStep, Object, Fragments
  <2> QED  BY <1>13, <2>5, <2>6 DEF BuildEntry
<1>14. ASSUME NEW s \in Syncer, WriteDelta(s) PROVE Shapes'
  <2>1. DeltaManifest(s) \in Object
    BY ManifestTypes DEF Object, Process
  <2> QED  BY <1>14, <2>1 DEF WriteDelta, writeImmutable, goto, Place
<1>15. ASSUME NEW s \in Syncer, publishSourceV2Generation(s) PROVE Shapes'
  <2>1. s \in Process
    BY DEF Process
  <2>2. receipt' \in Receipt
    BY <1>15, <2>1, ManifestTypes, ReadinessIsStatus
    DEF publishSourceV2Generation, Receipt, Scan
  <2> QED  BY <1>15, <2>1, <2>2, EmptyShapes
           DEF publishSourceV2Generation, Leave, goto, Place
<1>16. ASSUME NEW r \in Reader, LoadReceipt(r) PROVE Shapes'
  BY <1>16, EmptyShapes DEF LoadReceipt, Leave, goto, Place, Process
<1>17. ASSUME NEW r \in Reader, Verify(r) PROVE Shapes'
  BY <1>17 DEF Verify, goto, Place, Process
<1>18. ASSUME NEW r \in Reader, QuerySourceIndex(r) PROVE Shapes'
  <2>1. got' = [x \in Process |-> got'[x]]
    BY <1>18 DEF QuerySourceIndex
  <2> QED  BY <1>18, <2>1 DEF QuerySourceIndex, goto, Place, Process
<1>19. CASE UNCHANGED vars
  BY <1>19 DEF vars
<1> QED  BY <1>1, <1>2, <1>3, <1>4, <1>5, <1>6, <1>7, <1>8, <1>9, <1>10, <1>11,
       <1>12, <1>13, <1>14, <1>15, <1>16, <1>17, <1>18, <1>19 DEF Next

\* One process moves, the others keep what they have.
Alone(x) ==
  \A y \in Process \ {x} :
    pc'[y] = pc[y] /\ scan'[y] = scan[y] /\ build'[y] = build[y] /\ got'[y] = got[y]

\* A process that has built nothing, or has no more to build, follows its scan.
LEMMA EmptyFollows ==
  ASSUME NEW x \in Process, DOMAIN build'[x].base = {}, DOMAIN build'[x].delta = {},
         pc'[x] \notin {"delta", "publish"}
  PROVE  FollowsScan(x)'
BY DEF FollowsScan, Follows

LEMMA SameFollows ==
  ASSUME NEW x \in Process, FollowsScan(x), scan'[x] = scan[x], build'[x] = build[x],
         pc'[x] = pc[x] \/ pc'[x] \in {"receipt", "verify", "query", "answered"}
  PROVE  FollowsScan(x)'
<1>1. DeltaInputs(x)' = DeltaInputs(x)
  BY DEF DeltaInputs
<1> QED  BY <1>1 DEF FollowsScan, Follows

LEMMA OthersFollow ==
  ASSUME BuildsFollowScan, NEW x \in Process, Alone(x), FollowsScan(x)'
  PROVE  BuildsFollowScan'
BY SameFollows DEF BuildsFollowScan, Alone

\* An entry is added for the next file of the very tree it belongs to, and a
\* manifest is written when none is missing.
LEMMA StepBuildsFollowScan == Inv /\ [Next]_vars => BuildsFollowScan'
<1> SUFFICES ASSUME Shapes, BuildsFollowScan, [Next]_vars PROVE BuildsFollowScan'
  BY DEF Inv
<1> USE DEF Shapes, BuildsFollowScan, author, disk
<1>1. ASSUME NEW p \in Path, Remove(p) PROVE BuildsFollowScan'
  BY <1>1, SameFollows DEF Remove
<1>2. ASSUME NEW p \in Path, NEW c \in Content, Edit(p, c) PROVE BuildsFollowScan'
  BY <1>2, SameFollows DEF Edit
<1>3. ASSUME NEW c \in Commit, MoveHead(c, work) \/ MoveHead(c, Tree[c]) PROVE
           BuildsFollowScan'
  BY <1>3, SameFollows DEF MoveHead
<1>4. CASE PowerLoss
  BY <1>4, EmptyFollows DEF PowerLoss, NoBuild, NoFiles
<1>5. ASSUME NEW x \in Process, ScanHead(x) PROVE BuildsFollowScan'
  <2>1. /\ x \in Process /\ Alone(x) /\ pc'[x] \notin {"delta", "publish"}
        /\ DOMAIN build'[x].base = {} /\ DOMAIN build'[x].delta = {}
    BY <1>5 DEF ScanHead, goto, Alone, Process, FollowsScan
  <2> QED  BY <2>1, EmptyFollows, OthersFollow
<1>6. ASSUME NEW x \in Process, visitFile(x) PROVE BuildsFollowScan'
  <2>1. /\ x \in Process /\ Alone(x) /\ pc'[x] \notin {"delta", "publish"}
        /\ DOMAIN build'[x].base = {} /\ DOMAIN build'[x].delta = {}
    BY <1>6 DEF visitFile, Alone, Process, FollowsScan
  <2> QED  BY <2>1, EmptyFollows, OthersFollow
<1>7. ASSUME NEW x \in Process, WalkDone(x) PROVE BuildsFollowScan'
  <2>1. /\ x \in Process /\ Alone(x) /\ pc'[x] \notin {"delta", "publish"}
        /\ DOMAIN build'[x].base = {} /\ DOMAIN build'[x].delta = {}
    BY <1>7 DEF WalkDone, goto, Alone, Process, FollowsScan
  <2> QED  BY <2>1, EmptyFollows, OthersFollow
<1>8. ASSUME NEW x \in Process, Stop(x) PROVE BuildsFollowScan'
  <2>1. /\ x \in Process /\ Alone(x) /\ pc'[x] \notin {"delta", "publish"}
        /\ DOMAIN build'[x].base = {} /\ DOMAIN build'[x].delta = {}
    BY <1>8 DEF Stop, Leave, goto, NoBuild, NoFiles, Alone, Process, FollowsScan
  <2> QED  BY <2>1, EmptyFollows, OthersFollow
<1>9. ASSUME NEW s \in Syncer, headSourceV2Inputs(s) PROVE BuildsFollowScan'
  <2>1. /\ s \in Process /\ Alone(s) /\ pc'[s] \notin {"delta", "publish"}
        /\ DOMAIN build'[s].base = {} /\ DOMAIN build'[s].delta = {}
    BY <1>9 DEF headSourceV2Inputs, goto, Alone, Process, FollowsScan
  <2> QED  BY <2>1, EmptyFollows, OthersFollow
<1>10. ASSUME NEW s \in Syncer, knownSourceV2Fragments(s) PROVE BuildsFollowScan'
  <2>1. PICK K : build' = [build EXCEPT ![s].known = K]
    BY <1>10 DEF knownSourceV2Fragments
  <2>2. /\ s \in Process /\ Alone(s) /\ pc'[s] \notin {"delta", "publish"}
        /\ DOMAIN build'[s].base = {} /\ DOMAIN build'[s].delta = {}
    BY <1>10, <2>1 DEF knownSourceV2Fragments, goto, Alone, Process, FollowsScan, Build
  <2> QED  BY <2>2, EmptyFollows, OthersFollow
<1>11. ASSUME NEW s \in Syncer, BuildEntry(s, "base", scan[s].tree) PROVE
           BuildsFollowScan'
  <2>1. s \in Process /\ pc[s] = "base"
    BY <1>11 DEF BuildEntry, Process
  <2>2. PICK p \in DOMAIN scan[s].tree \ DOMAIN build[s].base, k \in SUBSET Known :
          EntryStep(s, "base", scan[s].tree, p, k)
    BY <1>11, EntryOfBase
  <2>3. /\ build'[s].base = With(build[s].base, p, Right(p, scan[s].tree[p]))
        /\ build'[s].delta = build[s].delta
    BY <2>1, <2>2 DEF EntryStep, Added
  <2>4. Alone(s) /\ pc'[s] = pc[s] /\ scan'[s] = scan[s]
    BY <1>11, <2>1, <2>2 DEF EntryStep, Alone, BuildEntry
  <2>5. DeltaInputs(s)' = DeltaInputs(s)
    BY <2>4 DEF DeltaInputs
  <2>6. Follows(build'[s].base, scan[s].tree)
    BY <2>1, <2>3 DEF Follows, With, FollowsScan
  <2>7. FollowsScan(s)'
    BY <2>1, <2>3, <2>4, <2>5, <2>6 DEF FollowsScan, Follows
  <2> QED  BY <2>1, <2>4, <2>7, OthersFollow
<1>12. ASSUME NEW s \in Syncer, WriteBase(s) PROVE BuildsFollowScan'
  <2>1. s \in Process /\ Alone(s) /\ scan'[s] = scan[s] /\ build'[s] = build[s]
    BY <1>12 DEF WriteBase, goto, Alone, Process
  <2>2. DeltaInputs(s)' = DeltaInputs(s)
    BY <2>1 DEF DeltaInputs
  <2>3. FollowsScan(s)'
    BY <1>12, <2>1, <2>2 DEF WriteBase, goto, FollowsScan, Follows
  <2> QED  BY <2>1, <2>3, OthersFollow
<1>13. ASSUME NEW s \in Syncer, BuildEntry(s, "delta", DeltaInputs(s)) PROVE
           BuildsFollowScan'
  <2>1. s \in Process /\ pc[s] = "delta"
    BY <1>13 DEF BuildEntry, Process
  <2>2. PICK p \in DOMAIN DeltaInputs(s) \ DOMAIN build[s].delta, k \in SUBSET Known :
          EntryStep(s, "delta", DeltaInputs(s), p, k)
    BY <1>13, EntryOfDelta
  <2>3. /\ build'[s].delta = With(build[s].delta, p, Right(p, DeltaInputs(s)[p]))
        /\ build'[s].base = build[s].base
    BY <2>1, <2>2 DEF EntryStep, Added
  <2>4. Alone(s) /\ pc'[s] = pc[s] /\ scan'[s] = scan[s]
    BY <1>13, <2>1, <2>2 DEF EntryStep, Alone, BuildEntry
  <2>5. DeltaInputs(s)' = DeltaInputs(s)
    BY <2>4 DEF DeltaInputs
  <2>6. Follows(build'[s].delta, DeltaInputs(s))
    BY <2>1, <2>3 DEF Follows, With, FollowsScan
  <2>7. FollowsScan(s)'
    BY <2>1, <2>3, <2>4, <2>5, <2>6 DEF FollowsScan, Follows
  <2> QED  BY <2>1, <2>4, <2>7, OthersFollow
<1>14. ASSUME NEW s \in Syncer, WriteDelta(s) PROVE BuildsFollowScan'
  <2>1. s \in Process /\ Alone(s) /\ scan'[s] = scan[s] /\ build'[s] = build[s]
    BY <1>14 DEF WriteDelta, goto, Alone, Process
  <2>2. DeltaInputs(s)' = DeltaInputs(s)
    BY <2>1 DEF DeltaInputs
  <2>3. FollowsScan(s)'
    BY <1>14, <2>1, <2>2 DEF WriteDelta, goto, FollowsScan, Follows
  <2> QED  BY <2>1, <2>3, OthersFollow
<1>15. ASSUME NEW s \in Syncer, publishSourceV2Generation(s) PROVE BuildsFollowScan'
  <2>1. /\ s \in Process /\ Alone(s) /\ pc'[s] \notin {"delta", "publish"}
        /\ DOMAIN build'[s].base = {} /\ DOMAIN build'[s].delta = {}
    BY <1>15 DEF publishSourceV2Generation, Leave, goto, NoBuild, NoFiles, Alone, Process, FollowsScan
  <2> QED  BY <2>1, EmptyFollows, OthersFollow
<1>16. ASSUME NEW r \in Reader, LoadReceipt(r) PROVE BuildsFollowScan'
  <2>1. r \in Process /\ Alone(r)
    BY <1>16 DEF LoadReceipt, Leave, goto, Alone, Process
  <2>2. CASE scan'[r] = scan[r] /\ build'[r] = build[r] /\ pc'[r] = "verify"
    BY <2>1, <2>2, SameFollows, OthersFollow
  <2>3. CASE Leave(r)
    <3>1. /\ pc'[r] = "idle"
          /\ DOMAIN build'[r].base = {} /\ DOMAIN build'[r].delta = {}
      BY <2>1, <2>3 DEF Leave, goto, NoBuild, NoFiles
    <3> QED  BY <2>1, <3>1, EmptyFollows, OthersFollow
  <2> QED  BY <1>16, <2>1, <2>2, <2>3 DEF LoadReceipt, goto
<1>17. ASSUME NEW r \in Reader, Verify(r) PROVE BuildsFollowScan'
  <2>1. r \in Process /\ Alone(r) /\ scan'[r] = scan[r] /\ build'[r] = build[r]
        /\ pc'[r] \in {"verify", "query", "answered"}
    BY <1>17 DEF Verify, goto, Alone, Process
  <2> QED  BY <2>1, SameFollows, OthersFollow
<1>18. ASSUME NEW r \in Reader, QuerySourceIndex(r) PROVE BuildsFollowScan'
  <2>1. r \in Process /\ Alone(r) /\ scan'[r] = scan[r] /\ build'[r] = build[r]
        /\ pc'[r] \in {"verify", "query", "answered"}
    BY <1>18 DEF QuerySourceIndex, goto, Alone, Process
  <2> QED  BY <2>1, SameFollows, OthersFollow
<1>19. CASE UNCHANGED vars
  BY <1>19, SameFollows DEF vars
<1> QED  BY <1>1, <1>2, <1>3, <1>4, <1>5, <1>6, <1>7, <1>8, <1>9, <1>10, <1>11,
       <1>12, <1>13, <1>14, <1>15, <1>16, <1>17, <1>18, <1>19 DEF Next

\* What is in the store stays there while processes move: only a power loss
\* takes objects away.
LEMMA EmptyKeeps ==
  ASSUME NEW x \in Process, DOMAIN build'[x].base = {}, DOMAIN build'[x].delta = {},
         pc'[x] \notin {"delta", "publish"}
  PROVE  KeepsStored(x)'
BY DEF KeepsStored, Stored

LEMMA SameKeeps ==
  ASSUME NEW x \in Process, KeepsStored(x), store \subseteq store',
         scan'[x] = scan[x], build'[x] = build[x],
         pc'[x] = pc[x] \/ pc'[x] \in {"receipt", "verify", "query", "answered"}
  PROVE  KeepsStored(x)'
<1>1. BaseManifest(x)' = BaseManifest(x) /\ DeltaManifest(x)' = DeltaManifest(x)
  BY DEF BaseManifest, DeltaManifest, Tombstones
<1> QED  BY <1>1 DEF KeepsStored, Stored

LEMMA OthersKeep ==
  ASSUME BuildsAreStored, NEW x \in Process, Alone(x), KeepsStored(x)',
         store \subseteq store'
  PROVE  BuildsAreStored'
BY SameKeeps DEF BuildsAreStored, Alone

\* A fragment is stored before the entry that names it is kept, and a manifest
\* before the sync goes on.
LEMMA StepBuildsAreStored == Inv /\ [Next]_vars => BuildsAreStored'
<1> SUFFICES ASSUME Shapes, BuildsFollowScan, BuildsAreStored, [Next]_vars PROVE BuildsAreStored'
  BY DEF Inv
<1> USE DEF Shapes, BuildsFollowScan, BuildsAreStored, author, disk
<1>1. ASSUME NEW p \in Path, Remove(p) PROVE BuildsAreStored'
  BY <1>1, SameKeeps DEF Remove
<1>2. ASSUME NEW p \in Path, NEW c \in Content, Edit(p, c) PROVE BuildsAreStored'
  BY <1>2, SameKeeps DEF Edit
<1>3. ASSUME NEW c \in Commit, MoveHead(c, work) \/ MoveHead(c, Tree[c]) PROVE
           BuildsAreStored'
  BY <1>3, SameKeeps DEF MoveHead
<1>4. CASE PowerLoss
  BY <1>4, EmptyKeeps DEF PowerLoss, NoBuild, NoFiles
<1>5. ASSUME NEW x \in Process, ScanHead(x) PROVE BuildsAreStored'
  <2>1. /\ x \in Process /\ Alone(x) /\ pc'[x] \notin {"delta", "publish"}
        /\ DOMAIN build'[x].base = {} /\ DOMAIN build'[x].delta = {}
        /\ store' = store
    BY <1>5 DEF ScanHead, goto, Alone, Process, FollowsScan
  <2> QED  BY <2>1, EmptyKeeps, OthersKeep
<1>6. ASSUME NEW x \in Process, visitFile(x) PROVE BuildsAreStored'
  <2>1. /\ x \in Process /\ Alone(x) /\ pc'[x] \notin {"delta", "publish"}
        /\ DOMAIN build'[x].base = {} /\ DOMAIN build'[x].delta = {}
        /\ store' = store
    BY <1>6 DEF visitFile, Alone, Process, FollowsScan
  <2> QED  BY <2>1, EmptyKeeps, OthersKeep
<1>7. ASSUME NEW x \in Process, WalkDone(x) PROVE BuildsAreStored'
  <2>1. /\ x \in Process /\ Alone(x) /\ pc'[x] \notin {"delta", "publish"}
        /\ DOMAIN build'[x].base = {} /\ DOMAIN build'[x].delta = {}
        /\ store' = store
    BY <1>7 DEF WalkDone, goto, Alone, Process, FollowsScan
  <2> QED  BY <2>1, EmptyKeeps, OthersKeep
<1>8. ASSUME NEW x \in Process, Stop(x) PROVE BuildsAreStored'
  <2>1. /\ x \in Process /\ Alone(x) /\ pc'[x] \notin {"delta", "publish"}
        /\ DOMAIN build'[x].base = {} /\ DOMAIN build'[x].delta = {}
        /\ store' = store
    BY <1>8 DEF Stop, Leave, goto, NoBuild, NoFiles, Alone, Process, FollowsScan
  <2> QED  BY <2>1, EmptyKeeps, OthersKeep
<1>9. ASSUME NEW s \in Syncer, headSourceV2Inputs(s) PROVE BuildsAreStored'
  <2>1. /\ s \in Process /\ Alone(s) /\ pc'[s] \notin {"delta", "publish"}
        /\ DOMAIN build'[s].base = {} /\ DOMAIN build'[s].delta = {}
        /\ store' = store
    BY <1>9 DEF headSourceV2Inputs, goto, Alone, Process, FollowsScan
  <2> QED  BY <2>1, EmptyKeeps, OthersKeep
<1>10. ASSUME NEW s \in Syncer, knownSourceV2Fragments(s) PROVE BuildsAreStored'
  <2>1. PICK K : build' = [build EXCEPT ![s].known = K]
    BY <1>10 DEF knownSourceV2Fragments
  <2>2. /\ s \in Process /\ Alone(s) /\ pc'[s] \notin {"delta", "publish"}
        /\ DOMAIN build'[s].base = {} /\ DOMAIN build'[s].delta = {}
        /\ store' = store
    BY <1>10, <2>1 DEF knownSourceV2Fragments, goto, Alone, Process, FollowsScan, Build
  <2> QED  BY <2>2, EmptyKeeps, OthersKeep
<1>11. ASSUME NEW s \in Syncer, BuildEntry(s, "base", scan[s].tree) PROVE
           BuildsAreStored'
  <2>1. s \in Process /\ pc[s] = "base"
    BY <1>11 DEF BuildEntry, Process
  <2>2. PICK p \in DOMAIN scan[s].tree \ DOMAIN build[s].base, k \in SUBSET Known :
          EntryStep(s, "base", scan[s].tree, p, k)
    BY <1>11, EntryOfBase
  <2>3. /\ build'[s].base = With(build[s].base, p, Right(p, scan[s].tree[p]))
        /\ build'[s].delta = build[s].delta
    BY <2>1, <2>2 DEF EntryStep, Added
  <2>4. /\ Alone(s) /\ pc'[s] = pc[s] /\ scan'[s] = scan[s]
        /\ store \subseteq store'
    BY <1>11, <2>1, <2>2 DEF EntryStep, Alone, BuildEntry
  <2>5. Stored(build[s].base)' /\ Stored(build[s].delta)'
    BY <2>1, <2>2, <2>3, <2>4 DEF EntryStep, Stored, With, KeepsStored
  <2>7. KeepsStored(s)'
    BY <2>1, <2>4, <2>5 DEF KeepsStored
  <2> QED  BY <2>1, <2>4, <2>7, OthersKeep
<1>12. ASSUME NEW s \in Syncer, WriteBase(s) PROVE BuildsAreStored'
  <2>1. /\ s \in Process /\ Alone(s) /\ scan'[s] = scan[s] /\ build'[s] = build[s]
        /\ store \subseteq store'
    BY <1>12 DEF WriteBase, writeImmutable, goto, Alone, Process
  <2>2. BaseManifest(s)' = BaseManifest(s) /\ DeltaManifest(s)' = DeltaManifest(s)
    BY <2>1 DEF BaseManifest, DeltaManifest, Tombstones
  <2>3. KeepsStored(s)'
    BY <1>12, <2>1, <2>2 DEF WriteBase, writeImmutable, goto, KeepsStored, Stored
  <2> QED  BY <2>1, <2>3, OthersKeep
<1>13. ASSUME NEW s \in Syncer, BuildEntry(s, "delta", DeltaInputs(s)) PROVE
           BuildsAreStored'
  <2>1. s \in Process /\ pc[s] = "delta"
    BY <1>13 DEF BuildEntry, Process
  <2>2. PICK p \in DOMAIN DeltaInputs(s) \ DOMAIN build[s].delta, k \in SUBSET Known :
          EntryStep(s, "delta", DeltaInputs(s), p, k)
    BY <1>13, EntryOfDelta
  <2>3. /\ build'[s].delta = With(build[s].delta, p, Right(p, DeltaInputs(s)[p]))
        /\ build'[s].base = build[s].base
    BY <2>1, <2>2 DEF EntryStep, Added
  <2>4. /\ Alone(s) /\ pc'[s] = pc[s] /\ scan'[s] = scan[s]
        /\ store \subseteq store'
    BY <1>13, <2>1, <2>2 DEF EntryStep, Alone, BuildEntry
  <2>5. Stored(build[s].delta)' /\ Stored(build[s].base)'
    BY <2>1, <2>2, <2>3, <2>4 DEF EntryStep, Stored, With, KeepsStored
  <2>6. BaseManifest(s)' = BaseManifest(s)
    BY <2>3, <2>4 DEF BaseManifest
  <2>7. KeepsStored(s)'
    BY <2>1, <2>4, <2>5, <2>6 DEF KeepsStored
  <2> QED  BY <2>1, <2>4, <2>7, OthersKeep
<1>14. ASSUME NEW s \in Syncer, WriteDelta(s) PROVE BuildsAreStored'
  <2>1. /\ s \in Process /\ Alone(s) /\ scan'[s] = scan[s] /\ build'[s] = build[s]
        /\ store \subseteq store'
    BY <1>14 DEF WriteDelta, writeImmutable, goto, Alone, Process
  <2>2. BaseManifest(s)' = BaseManifest(s) /\ DeltaManifest(s)' = DeltaManifest(s)
    BY <2>1 DEF BaseManifest, DeltaManifest, Tombstones
  <2>3. KeepsStored(s)'
    BY <1>14, <2>1, <2>2 DEF WriteDelta, writeImmutable, goto, KeepsStored, Stored
  <2> QED  BY <2>1, <2>3, OthersKeep
<1>15. ASSUME NEW s \in Syncer, publishSourceV2Generation(s) PROVE BuildsAreStored'
  <2>1. /\ s \in Process /\ Alone(s) /\ pc'[s] \notin {"delta", "publish"}
        /\ DOMAIN build'[s].base = {} /\ DOMAIN build'[s].delta = {}
        /\ store' = store
    BY <1>15 DEF publishSourceV2Generation, Leave, goto, NoBuild, NoFiles, Alone, Process, FollowsScan
  <2> QED  BY <2>1, EmptyKeeps, OthersKeep
<1>16. ASSUME NEW r \in Reader, LoadReceipt(r) PROVE BuildsAreStored'
  <2>1. r \in Process /\ Alone(r) /\ store' = store
    BY <1>16 DEF LoadReceipt, Leave, goto, Alone, Process
  <2>2. CASE scan'[r] = scan[r] /\ build'[r] = build[r] /\ pc'[r] = "verify"
    BY <2>1, <2>2, SameKeeps, OthersKeep
  <2>3. CASE Leave(r)
    <3>1. /\ pc'[r] = "idle"
          /\ DOMAIN build'[r].base = {} /\ DOMAIN build'[r].delta = {}
      BY <2>1, <2>3 DEF Leave, goto, NoBuild, NoFiles
    <3> QED  BY <2>1, <3>1, EmptyKeeps, OthersKeep
  <2> QED  BY <1>16, <2>1, <2>2, <2>3 DEF LoadReceipt, goto
<1>17. ASSUME NEW r \in Reader, Verify(r) PROVE BuildsAreStored'
  <2>1. r \in Process /\ Alone(r) /\ scan'[r] = scan[r] /\ build'[r] = build[r]
        /\ pc'[r] \in {"verify", "query", "answered"} /\ store' = store
    BY <1>17 DEF Verify, goto, Alone, Process
  <2> QED  BY <2>1, SameKeeps, OthersKeep
<1>18. ASSUME NEW r \in Reader, QuerySourceIndex(r) PROVE BuildsAreStored'
  <2>1. r \in Process /\ Alone(r) /\ scan'[r] = scan[r] /\ build'[r] = build[r]
        /\ pc'[r] \in {"verify", "query", "answered"} /\ store' = store
    BY <1>18 DEF QuerySourceIndex, goto, Alone, Process
  <2> QED  BY <2>1, SameKeeps, OthersKeep
<1>19. CASE UNCHANGED vars
  BY <1>19, SameKeeps DEF vars
<1> QED  BY <1>1, <1>2, <1>3, <1>4, <1>5, <1>6, <1>7, <1>8, <1>9, <1>10, <1>11,
       <1>12, <1>13, <1>14, <1>15, <1>16, <1>17, <1>18, <1>19 DEF Next

\* The receipt that a complete sync writes: base and delta merge to the scan.
LEMMA PublishedIsRight ==
  ASSUME Shapes, BuildsFollowScan, BuildsAreStored, NEW s \in Syncer,
         publishSourceV2Generation(s)
  PROVE  /\ GenerationIsRight(receipt')
         /\ receipt'.status = sourceV2Readiness(receipt'.current, Entries(receipt'))
         /\ {receipt'.base, receipt'.delta} \subseteq store
         /\ Stored(Entries(receipt'))
<1> DEFINE t == scan[s].tree
           c == scan[s].current
           base == build[s].base
           delta == build[s].delta
           merged == mergeSourceV2Entries(base, delta, DOMAIN t \ DOMAIN c)
<1>1. s \in Process /\ pc[s] = "publish"
  BY DEF publishSourceV2Generation, Process
<1>2. t \in Files /\ c \in Files /\ base \in Facet /\ delta \in Facet
  BY <1>1, ManifestTypes DEF Scan, Build
<1>3. /\ Follows(base, t) /\ Follows(delta, DeltaInputs(s))
      /\ DOMAIN base = DOMAIN t /\ DOMAIN delta = DOMAIN DeltaInputs(s)
  BY <1>1 DEF BuildsFollowScan, FollowsScan
<1>4. merged = Facts(c)
  <2>1. DeltaInputs(s) = Only(c, {p \in DOMAIN c : p \notin DOMAIN t \/ t[p] # c[p]})
    BY DEF DeltaInputs
  <2> HIDE DEF t, c, base, delta
  <2> QED  BY <1>2, <1>3, <2>1, MergeIsExact
<1>5. /\ receipt'.current = c
      /\ receipt'.base = BaseManifest(s) /\ receipt'.delta = DeltaManifest(s)
      /\ receipt'.status = sourceV2Readiness(c, merged)
  BY DEF publishSourceV2Generation, Tombstones
<1>6. Entries(receipt') = merged
  BY <1>5 DEF Entries, BaseManifest, DeltaManifest, Tombstones
<1>7. Stored(base) /\ Stored(delta)
      /\ BaseManifest(s) \in store /\ DeltaManifest(s) \in store
  BY <1>1 DEF BuildsAreStored, KeepsStored
<1>8. Stored(merged)
  <2> HIDE DEF t, c, base, delta
  <2> QED  BY <1>7 DEF Stored, mergeSourceV2Entries
<1> HIDE DEF t, c, base, delta, merged
<1> QED  BY <1>4, <1>5, <1>6, <1>7, <1>8 DEF GenerationIsRight

\* A receipt is replaced as a whole, by a sync that has built everything.
LEMMA StepReceiptIsRight == Inv /\ [Next]_vars => ReceiptIsRight'
<1> SUFFICES ASSUME Shapes, BuildsFollowScan, BuildsAreStored, ReceiptIsRight, [Next]_vars PROVE ReceiptIsRight'
  BY DEF Inv
<1> USE DEF Shapes, BuildsFollowScan, BuildsAreStored, ReceiptIsRight, author, disk
<1>1. ASSUME NEW p \in Path, Remove(p) PROVE ReceiptIsRight'
  BY <1>1 DEF Remove, Change, GenerationIsRight
<1>2. ASSUME NEW p \in Path, NEW c \in Content, Edit(p, c) PROVE ReceiptIsRight'
  BY <1>2 DEF Edit, Change, GenerationIsRight
<1>3. ASSUME NEW c \in Commit, MoveHead(c, work) \/ MoveHead(c, Tree[c]) PROVE
           ReceiptIsRight'
  BY <1>3 DEF MoveHead, Change, GenerationIsRight
<1>4. CASE PowerLoss
  BY <1>4 DEF PowerLoss, BrokenReceipt
<1>5. ASSUME NEW x \in Process, ScanHead(x) PROVE ReceiptIsRight'
  BY <1>5 DEF ScanHead, goto, GenerationIsRight
<1>6. ASSUME NEW x \in Process, visitFile(x) PROVE ReceiptIsRight'
  BY <1>6 DEF visitFile, GenerationIsRight
<1>7. ASSUME NEW x \in Process, WalkDone(x) PROVE ReceiptIsRight'
  BY <1>7 DEF WalkDone, goto, GenerationIsRight
<1>8. ASSUME NEW x \in Process, Stop(x) PROVE ReceiptIsRight'
  BY <1>8 DEF Stop, Leave, goto, GenerationIsRight
<1>9. ASSUME NEW s \in Syncer, headSourceV2Inputs(s) PROVE ReceiptIsRight'
  BY <1>9 DEF headSourceV2Inputs, goto, GenerationIsRight
<1>10. ASSUME NEW s \in Syncer, knownSourceV2Fragments(s) PROVE ReceiptIsRight'
  BY <1>10 DEF knownSourceV2Fragments, goto, GenerationIsRight
<1>11. ASSUME NEW s \in Syncer, BuildEntry(s, "base", scan[s].tree) PROVE
           ReceiptIsRight'
  BY <1>11 DEF BuildEntry, GenerationIsRight
<1>12. ASSUME NEW s \in Syncer, WriteBase(s) PROVE ReceiptIsRight'
  BY <1>12 DEF WriteBase, goto, writeImmutable, GenerationIsRight
<1>13. ASSUME NEW s \in Syncer, BuildEntry(s, "delta", DeltaInputs(s)) PROVE
           ReceiptIsRight'
  BY <1>13 DEF BuildEntry, GenerationIsRight
<1>14. ASSUME NEW s \in Syncer, WriteDelta(s) PROVE ReceiptIsRight'
  BY <1>14 DEF WriteDelta, goto, writeImmutable, GenerationIsRight
<1>15. ASSUME NEW s \in Syncer, publishSourceV2Generation(s) PROVE ReceiptIsRight'
  BY <1>15, PublishedIsRight DEF ReceiptIsRight
<1>16. ASSUME NEW r \in Reader, LoadReceipt(r) PROVE ReceiptIsRight'
  BY <1>16 DEF LoadReceipt, Leave, goto, GenerationIsRight
<1>17. ASSUME NEW r \in Reader, Verify(r) PROVE ReceiptIsRight'
  BY <1>17 DEF Verify, goto, GenerationIsRight
<1>18. ASSUME NEW r \in Reader, QuerySourceIndex(r) PROVE ReceiptIsRight'
  BY <1>18 DEF QuerySourceIndex, goto, GenerationIsRight
<1>19. CASE UNCHANGED vars
  BY <1>19 DEF vars
<1> QED  BY <1>1, <1>2, <1>3, <1>4, <1>5, <1>6, <1>7, <1>8, <1>9, <1>10, <1>11,
       <1>12, <1>13, <1>14, <1>15, <1>16, <1>17, <1>18, <1>19 DEF Next

\* A receipt is written when all it names is stored, and what it names leaves
\* the store with a power loss only.
LEMMA StepReceiptIsWhole == Inv /\ [Next]_vars => ReceiptIsWhole'
<1> SUFFICES ASSUME Shapes, BuildsFollowScan, BuildsAreStored, ReceiptIsWhole, [Next]_vars PROVE ReceiptIsWhole'
  BY DEF Inv
<1> USE DEF Shapes, BuildsFollowScan, BuildsAreStored, ReceiptIsWhole, author, disk
<1>1. ASSUME NEW p \in Path, Remove(p) PROVE ReceiptIsWhole'
  BY <1>1 DEF Remove, Change
<1>2. ASSUME NEW p \in Path, NEW c \in Content, Edit(p, c) PROVE ReceiptIsWhole'
  BY <1>2 DEF Edit, Change
<1>3. ASSUME NEW c \in Commit, MoveHead(c, work) \/ MoveHead(c, Tree[c]) PROVE
           ReceiptIsWhole'
  BY <1>3 DEF MoveHead, Change
<1>4. CASE PowerLoss
  BY <1>4 DEF PowerLoss, BrokenReceipt
<1>5. ASSUME NEW x \in Process, ScanHead(x) PROVE ReceiptIsWhole'
  BY <1>5 DEF ScanHead, goto
<1>6. ASSUME NEW x \in Process, visitFile(x) PROVE ReceiptIsWhole'
  BY <1>6 DEF visitFile
<1>7. ASSUME NEW x \in Process, WalkDone(x) PROVE ReceiptIsWhole'
  BY <1>7 DEF WalkDone, goto
<1>8. ASSUME NEW x \in Process, Stop(x) PROVE ReceiptIsWhole'
  BY <1>8 DEF Stop, Leave, goto
<1>9. ASSUME NEW s \in Syncer, headSourceV2Inputs(s) PROVE ReceiptIsWhole'
  BY <1>9 DEF headSourceV2Inputs, goto
<1>10. ASSUME NEW s \in Syncer, knownSourceV2Fragments(s) PROVE ReceiptIsWhole'
  BY <1>10 DEF knownSourceV2Fragments, goto
<1>11. ASSUME NEW s \in Syncer, BuildEntry(s, "base", scan[s].tree) PROVE
           ReceiptIsWhole'
  <2>1. receipt' = receipt /\ tainted' = tainted /\ store \subseteq store'
    BY <1>11 DEF BuildEntry
  <2> QED  BY <2>1
<1>12. ASSUME NEW s \in Syncer, WriteBase(s) PROVE ReceiptIsWhole'
  <2>1. receipt' = receipt /\ tainted' = tainted /\ store \subseteq store'
    BY <1>12 DEF WriteBase, goto, writeImmutable
  <2> QED  BY <2>1
<1>13. ASSUME NEW s \in Syncer, BuildEntry(s, "delta", DeltaInputs(s)) PROVE
           ReceiptIsWhole'
  <2>1. receipt' = receipt /\ tainted' = tainted /\ store \subseteq store'
    BY <1>13 DEF BuildEntry
  <2> QED  BY <2>1
<1>14. ASSUME NEW s \in Syncer, WriteDelta(s) PROVE ReceiptIsWhole'
  <2>1. receipt' = receipt /\ tainted' = tainted /\ store \subseteq store'
    BY <1>14 DEF WriteDelta, goto, writeImmutable
  <2> QED  BY <2>1
<1>15. ASSUME NEW s \in Syncer, publishSourceV2Generation(s) PROVE ReceiptIsWhole'
  <2>1. store' = store
    BY <1>15 DEF publishSourceV2Generation
  <2> QED  BY <1>15, <2>1, PublishedIsRight DEF ReceiptIsWhole, Stored
<1>16. ASSUME NEW r \in Reader, LoadReceipt(r) PROVE ReceiptIsWhole'
  BY <1>16 DEF LoadReceipt, Leave, goto
<1>17. ASSUME NEW r \in Reader, Verify(r) PROVE ReceiptIsWhole'
  BY <1>17 DEF Verify, goto
<1>18. ASSUME NEW r \in Reader, QuerySourceIndex(r) PROVE ReceiptIsWhole'
  BY <1>18 DEF QuerySourceIndex, goto
<1>19. CASE UNCHANGED vars
  BY <1>19 DEF vars
<1> QED  BY <1>1, <1>2, <1>3, <1>4, <1>5, <1>6, <1>7, <1>8, <1>9, <1>10, <1>11,
       <1>12, <1>13, <1>14, <1>15, <1>16, <1>17, <1>18, <1>19 DEF Next

LEMMA IdleQuery ==
  ASSUME NEW x \in Process, pc'[x] \notin {"verify", "query"}
  PROVE  QueriesRight(x)'
BY DEF QueriesRight

LEMMA SameQuery ==
  ASSUME NEW x \in Process, QueriesRight(x), store \subseteq store',
         scan'[x] = scan[x], got'[x] = got[x], pc'[x] = pc[x]
  PROVE  QueriesRight(x)'
BY DEF QueriesRight, GenerationIsRight, Stored

LEMMA OtherQueries ==
  ASSUME QueryIsRight, NEW x \in Process, Alone(x), QueriesRight(x)',
         store \subseteq store'
  PROVE  QueryIsRight'
BY SameQuery DEF QueryIsRight, Alone

\* A query takes the receipt only when it is of the files it scanned, and goes
\* on with the generation that it verified.
LEMMA StepQueryIsRight == Inv /\ [Next]_vars => QueryIsRight'
<1> SUFFICES ASSUME Shapes, BuildsFollowScan, ReceiptIsRight, QueryIsRight, [Next]_vars PROVE QueryIsRight'
  BY DEF Inv
<1> USE DEF Shapes, BuildsFollowScan, ReceiptIsRight, QueryIsRight, author, disk
<1>1. ASSUME NEW p \in Path, Remove(p) PROVE QueryIsRight'
  BY <1>1, SameQuery DEF Remove
<1>2. ASSUME NEW p \in Path, NEW c \in Content, Edit(p, c) PROVE QueryIsRight'
  BY <1>2, SameQuery DEF Edit
<1>3. ASSUME NEW c \in Commit, MoveHead(c, work) \/ MoveHead(c, Tree[c]) PROVE
           QueryIsRight'
  BY <1>3, SameQuery DEF MoveHead
<1>4. CASE PowerLoss
  BY <1>4, IdleQuery DEF PowerLoss
<1>5. ASSUME NEW x \in Process, ScanHead(x) PROVE QueryIsRight'
  <2>1. /\ x \in Process /\ Alone(x) /\ store \subseteq store'
        /\ pc'[x] \notin {"verify", "query"}
    BY <1>5 DEF ScanHead, goto, Alone, Process
  <2> QED  BY <2>1, IdleQuery, OtherQueries
<1>6. ASSUME NEW x \in Process, visitFile(x) PROVE QueryIsRight'
  <2>1. /\ x \in Process /\ Alone(x) /\ store \subseteq store'
        /\ pc'[x] \notin {"verify", "query"}
    BY <1>6 DEF visitFile, Alone, Process
  <2> QED  BY <2>1, IdleQuery, OtherQueries
<1>7. ASSUME NEW x \in Process, WalkDone(x) PROVE QueryIsRight'
  <2>1. /\ x \in Process /\ Alone(x) /\ store \subseteq store'
        /\ pc'[x] \notin {"verify", "query"}
    BY <1>7 DEF WalkDone, goto, Alone, Process
  <2> QED  BY <2>1, IdleQuery, OtherQueries
<1>8. ASSUME NEW x \in Process, Stop(x) PROVE QueryIsRight'
  <2>1. /\ x \in Process /\ Alone(x) /\ store \subseteq store'
        /\ pc'[x] \notin {"verify", "query"}
    BY <1>8 DEF Stop, Leave, goto, Alone, Process
  <2> QED  BY <2>1, IdleQuery, OtherQueries
<1>9. ASSUME NEW s \in Syncer, headSourceV2Inputs(s) PROVE QueryIsRight'
  <2>1. /\ s \in Process /\ Alone(s) /\ store \subseteq store'
        /\ pc'[s] \notin {"verify", "query"}
    BY <1>9 DEF headSourceV2Inputs, goto, Alone, Process
  <2> QED  BY <2>1, IdleQuery, OtherQueries
<1>10. ASSUME NEW s \in Syncer, knownSourceV2Fragments(s) PROVE QueryIsRight'
  <2>1. /\ s \in Process /\ Alone(s) /\ store \subseteq store'
        /\ pc'[s] \notin {"verify", "query"}
    BY <1>10 DEF knownSourceV2Fragments, goto, Alone, Process
  <2> QED  BY <2>1, IdleQuery, OtherQueries
<1>11. ASSUME NEW s \in Syncer, BuildEntry(s, "base", scan[s].tree) PROVE
           QueryIsRight'
  <2>1. PICK p, k : EntryStep(s, "base", scan[s].tree, p, k)
    BY <1>11, EntryOfBase
  <2>2. /\ s \in Process /\ Alone(s) /\ store \subseteq store'
        /\ pc'[s] \notin {"verify", "query"}
    BY <1>11, <2>1 DEF BuildEntry, EntryStep, Alone, Process
  <2> QED  BY <2>2, IdleQuery, OtherQueries
<1>12. ASSUME NEW s \in Syncer, WriteBase(s) PROVE QueryIsRight'
  <2>1. /\ s \in Process /\ Alone(s) /\ store \subseteq store'
        /\ pc'[s] \notin {"verify", "query"}
    BY <1>12 DEF WriteBase, writeImmutable, goto, Alone, Process
  <2> QED  BY <2>1, IdleQuery, OtherQueries
<1>13. ASSUME NEW s \in Syncer, BuildEntry(s, "delta", DeltaInputs(s)) PROVE
           QueryIsRight'
  <2>1. PICK p, k : EntryStep(s, "delta", DeltaInputs(s), p, k)
    BY <1>13, EntryOfDelta
  <2>2. /\ s \in Process /\ Alone(s) /\ store \subseteq store'
        /\ pc'[s] \notin {"verify", "query"}
    BY <1>13, <2>1 DEF BuildEntry, EntryStep, Alone, Process
  <2> QED  BY <2>2, IdleQuery, OtherQueries
<1>14. ASSUME NEW s \in Syncer, WriteDelta(s) PROVE QueryIsRight'
  <2>1. /\ s \in Process /\ Alone(s) /\ store \subseteq store'
        /\ pc'[s] \notin {"verify", "query"}
    BY <1>14 DEF WriteDelta, writeImmutable, goto, Alone, Process
  <2> QED  BY <2>1, IdleQuery, OtherQueries
<1>15. ASSUME NEW s \in Syncer, publishSourceV2Generation(s) PROVE QueryIsRight'
  <2>1. /\ s \in Process /\ Alone(s) /\ store \subseteq store'
        /\ pc'[s] \notin {"verify", "query"}
    BY <1>15 DEF publishSourceV2Generation, Leave, goto, Alone, Process
  <2> QED  BY <2>1, IdleQuery, OtherQueries
<1>16. ASSUME NEW r \in Reader, LoadReceipt(r) PROVE QueryIsRight'
  <2>1. r \in Process /\ Alone(r) /\ store' = store
    BY <1>16 DEF LoadReceipt, Leave, goto, Alone, Process
  <2>2. CASE Leave(r)
    BY <2>1, <2>2, IdleQuery, OtherQueries DEF Leave, goto
  <2>3. CASE /\ receipt.is = "stored" /\ receipt.current = scan[r].current
             /\ got' = [got EXCEPT ![r] = receipt] /\ goto(r, "verify")
             /\ UNCHANGED scan
    <3>1. receipt \in Receipt
      BY <2>3 DEF NoReceipt, BrokenReceipt
    <3>2. got'[r] = receipt /\ pc'[r] = "verify" /\ scan'[r] = scan[r]
      BY <2>1, <2>3 DEF goto
    <3>3. QueriesRight(r)'
      BY <2>3, <3>1, <3>2 DEF QueriesRight, ReceiptIsRight, GenerationIsRight
    <3> QED  BY <2>1, <3>3, OtherQueries
  <2> QED  BY <1>16, <2>2, <2>3 DEF LoadReceipt
<1>17. ASSUME NEW r \in Reader, Verify(r) PROVE QueryIsRight'
  <2>1. r \in Process /\ Alone(r) /\ store' = store /\ scan'[r] = scan[r]
        /\ pc[r] = "verify" /\ pc'[r] = "query"
    BY <1>17 DEF Verify, goto, Alone, Process
  <2> DEFINE v == verifySourceV2Generation(got[r])
             u == [got[r] EXCEPT !.status = IF v THEN @ ELSE "failed"]
  <2>2. got'[r] = u
    BY <1>17, <2>1 DEF Verify
  <2>3. QueriesRight(r) /\ got[r] \in Receipt
    BY <2>1 DEF QueryIsRight, QueriesRight
  <2>4. /\ u \in Receipt /\ u.current = got[r].current
        /\ u.base = got[r].base /\ u.delta = got[r].delta
        /\ u.status = IF v THEN got[r].status ELSE "failed"
    BY <2>3 DEF Receipt, Status
  <2> HIDE DEF u
  <2>5. Entries(u) = Entries(got[r])
    BY <2>4 DEF Entries
  <2>6. v => Stored(Entries(u))
    BY <2>5 DEF verifySourceV2Generation, sourceV2FragmentReady, Stored
  <2> HIDE DEF v
  <2>7. QueriesRight(r)'
    BY <2>1, <2>2, <2>3, <2>4, <2>5, <2>6 DEF QueriesRight, GenerationIsRight, Stored
  <2> QED  BY <2>1, <2>7, OtherQueries
<1>18. ASSUME NEW r \in Reader, QuerySourceIndex(r) PROVE QueryIsRight'
  <2>1. /\ r \in Process /\ Alone(r) /\ store \subseteq store'
        /\ pc'[r] \notin {"verify", "query"}
    BY <1>18 DEF QuerySourceIndex, goto, Alone, Process
  <2> QED  BY <2>1, IdleQuery, OtherQueries
<1>19. CASE UNCHANGED vars
  BY <1>19, SameQuery DEF vars
<1> QED  BY <1>1, <1>2, <1>3, <1>4, <1>5, <1>6, <1>7, <1>8, <1>9, <1>10, <1>11,
       <1>12, <1>13, <1>14, <1>15, <1>16, <1>17, <1>18, <1>19 DEF Next

\* What the entries of some files say, read from the store.
LEMMA FactsAnswer ==
  ASSUME NEW c \in Files, NEW e, e = Facts(c)
  PROVE  /\ {p \in DOMAIN e : e[p].status = "indexed"} = {p \in DOMAIN c : c[p] \notin Bad}
         /\ Stored(e) => \A p \in DOMAIN c :
              c[p] \notin Bad => Loaded(e[p].fragment) = Fragment(p, c[p])
         /\ sourceV2Readiness(c, e) = "exact" <=> (\A p \in DOMAIN c : c[p] \notin Bad)
<1>1. DOMAIN e = DOMAIN c /\ \A p \in DOMAIN c : e[p] = Right(p, c[p])
  BY DEF Facts
<1>2. ASSUME NEW p \in DOMAIN c
      PROVE  /\ (e[p].status = "indexed") <=> (c[p] \notin Bad)
             /\ c[p] \notin Bad => e[p].fragment = Fragment(p, c[p])
  BY <1>1 DEF Right, Failed, Indexed
<1>3. {p \in DOMAIN e : e[p].status = "indexed"} = {p \in DOMAIN c : c[p] \notin Bad}
  BY <1>1, <1>2
<1>4. Stored(e) => \A p \in DOMAIN c :
        c[p] \notin Bad => Loaded(e[p].fragment) = Fragment(p, c[p])
  BY <1>1, <1>2 DEF Stored, Loaded
<1>5. sourceV2Readiness(c, e) = "exact" <=> (\A p \in DOMAIN c : c[p] \notin Bad)
  <2>1. {p \in DOMAIN c : p \in DOMAIN e /\ e[p].status = "indexed"}
          = {p \in DOMAIN c : c[p] \notin Bad}
    BY <1>1, <1>2
  <2>2. (sourceV2Readiness(c, e) = "exact")
          <=> {p \in DOMAIN c : c[p] \notin Bad} = DOMAIN c
    BY <2>1 DEF sourceV2Readiness
  <2> QED  BY <2>2
<1> QED  BY <1>3, <1>4, <1>5

\* The facts of the files c that can be indexed, and the status that says so.
AnswerOf(c, g) ==
  /\ g.records = [p \in {q \in DOMAIN c : c[q] \notin Bad} |-> Fragment(p, c[p])]
  /\ (g.status = "exact") = (\A p \in DOMAIN c : c[p] \notin Bad)

Exact(r) ==
  pc[r] = "answered" /\ got[r].status # "failed" => AnswerOf(scan[r].current, got[r])

LEMMA ExactMeans == /\ AnswerIsExact <=> \A r \in Reader : Exact(r)
                    /\ AnswerIsExact' <=> \A r \in Reader : Exact(r)'
BY DEF AnswerIsExact, Exact, AnswerOf

LEMMA SameAnswers ==
  ASSUME AnswerIsExact, UNCHANGED <<pc, scan, got>> PROVE AnswerIsExact'
BY ExactMeans DEF Exact

LEMMA OtherAnswers ==
  ASSUME AnswerIsExact, NEW x \in Process, Alone(x), x \in Reader => Exact(x)'
  PROVE  AnswerIsExact'
<1>1. ASSUME NEW y \in Reader, y # x PROVE Exact(y)'
  <2>1. Exact(y) /\ y \in Process
    BY ExactMeans DEF Process
  <2> QED  BY <1>1, <2>1 DEF Exact, Alone
<1> QED  BY <1>1, ExactMeans

\* An answer is made of the fragments that the entries of the query's own scan
\* name.
LEMMA StepAnswerIsExact == Inv /\ [Next]_vars => AnswerIsExact'
<1> SUFFICES ASSUME Shapes, BuildsFollowScan, QueryIsRight, AnswerIsExact, [Next]_vars PROVE AnswerIsExact'
  BY DEF Inv
<1> USE DEF Shapes, BuildsFollowScan, QueryIsRight, AnswerIsExact, author, disk
<1>1. ASSUME NEW p \in Path, Remove(p) PROVE AnswerIsExact'
  BY <1>1, SameAnswers DEF Remove
<1>2. ASSUME NEW p \in Path, NEW c \in Content, Edit(p, c) PROVE AnswerIsExact'
  BY <1>2, SameAnswers DEF Edit
<1>3. ASSUME NEW c \in Commit, MoveHead(c, work) \/ MoveHead(c, Tree[c]) PROVE
           AnswerIsExact'
  BY <1>3, SameAnswers DEF MoveHead
<1>4. CASE PowerLoss
  <2>1. \A r \in Reader : pc'[r] # "answered"
    BY <1>4 DEF PowerLoss, Process
  <2> QED  BY <2>1, ExactMeans DEF Exact
<1>5. ASSUME NEW x \in Process, ScanHead(x) PROVE AnswerIsExact'
  <2>1. x \in Process /\ Alone(x) /\ pc'[x] # "answered"
    BY <1>5 DEF ScanHead, goto, Alone, Process
  <2>2. Exact(x)'
    BY <2>1 DEF Exact
  <2> QED  BY <2>1, <2>2, OtherAnswers
<1>6. ASSUME NEW x \in Process, visitFile(x) PROVE AnswerIsExact'
  <2>1. x \in Process /\ Alone(x) /\ pc'[x] # "answered"
    BY <1>6 DEF visitFile, Alone, Process
  <2>2. Exact(x)'
    BY <2>1 DEF Exact
  <2> QED  BY <2>1, <2>2, OtherAnswers
<1>7. ASSUME NEW x \in Process, WalkDone(x) PROVE AnswerIsExact'
  <2>1. x \in Process /\ Alone(x) /\ pc'[x] # "answered"
    BY <1>7 DEF WalkDone, goto, Alone, Process
  <2>2. Exact(x)'
    BY <2>1 DEF Exact
  <2> QED  BY <2>1, <2>2, OtherAnswers
<1>8. ASSUME NEW x \in Process, Stop(x) PROVE AnswerIsExact'
  <2>1. x \in Process /\ Alone(x) /\ pc'[x] # "answered"
    BY <1>8 DEF Stop, Leave, goto, Alone, Process
  <2>2. Exact(x)'
    BY <2>1 DEF Exact
  <2> QED  BY <2>1, <2>2, OtherAnswers
<1>9. ASSUME NEW s \in Syncer, headSourceV2Inputs(s) PROVE AnswerIsExact'
  <2>1. s \in Process /\ Alone(s) /\ pc'[s] # "answered"
    BY <1>9 DEF headSourceV2Inputs, goto, Alone, Process
  <2>2. Exact(s)'
    BY <2>1 DEF Exact
  <2> QED  BY <2>1, <2>2, OtherAnswers
<1>10. ASSUME NEW s \in Syncer, knownSourceV2Fragments(s) PROVE AnswerIsExact'
  <2>1. s \in Process /\ Alone(s) /\ pc'[s] # "answered"
    BY <1>10 DEF knownSourceV2Fragments, goto, Alone, Process
  <2>2. Exact(s)'
    BY <2>1 DEF Exact
  <2> QED  BY <2>1, <2>2, OtherAnswers
<1>11. ASSUME NEW s \in Syncer, BuildEntry(s, "base", scan[s].tree) PROVE
           AnswerIsExact'
  <2>1. PICK p, k : EntryStep(s, "base", scan[s].tree, p, k)
    BY <1>11, EntryOfBase
  <2>2. s \in Process /\ Alone(s) /\ pc'[s] # "answered"
    BY <1>11, <2>1 DEF BuildEntry, EntryStep, Alone, Process
  <2> QED  BY <2>2, OtherAnswers DEF Exact
<1>12. ASSUME NEW s \in Syncer, WriteBase(s) PROVE AnswerIsExact'
  <2>1. s \in Process /\ Alone(s) /\ pc'[s] # "answered"
    BY <1>12 DEF WriteBase, goto, Alone, Process
  <2>2. Exact(s)'
    BY <2>1 DEF Exact
  <2> QED  BY <2>1, <2>2, OtherAnswers
<1>13. ASSUME NEW s \in Syncer, BuildEntry(s, "delta", DeltaInputs(s)) PROVE
           AnswerIsExact'
  <2>1. PICK p, k : EntryStep(s, "delta", DeltaInputs(s), p, k)
    BY <1>13, EntryOfDelta
  <2>2. s \in Process /\ Alone(s) /\ pc'[s] # "answered"
    BY <1>13, <2>1 DEF BuildEntry, EntryStep, Alone, Process
  <2> QED  BY <2>2, OtherAnswers DEF Exact
<1>14. ASSUME NEW s \in Syncer, WriteDelta(s) PROVE AnswerIsExact'
  <2>1. s \in Process /\ Alone(s) /\ pc'[s] # "answered"
    BY <1>14 DEF WriteDelta, goto, Alone, Process
  <2>2. Exact(s)'
    BY <2>1 DEF Exact
  <2> QED  BY <2>1, <2>2, OtherAnswers
<1>15. ASSUME NEW s \in Syncer, publishSourceV2Generation(s) PROVE AnswerIsExact'
  <2>1. s \in Process /\ Alone(s) /\ pc'[s] # "answered"
    BY <1>15 DEF publishSourceV2Generation, Leave, goto, Alone, Process
  <2>2. Exact(s)'
    BY <2>1 DEF Exact
  <2> QED  BY <2>1, <2>2, OtherAnswers
<1>16. ASSUME NEW r \in Reader, LoadReceipt(r) PROVE AnswerIsExact'
  <2>1. r \in Process /\ Alone(r) /\ pc'[r] # "answered"
    BY <1>16 DEF LoadReceipt, Leave, goto, Alone, Process
  <2>2. Exact(r)'
    BY <2>1 DEF Exact
  <2> QED  BY <2>1, <2>2, OtherAnswers
<1>17. ASSUME NEW r \in Reader, Verify(r) PROVE AnswerIsExact'
  <2>1. r \in Process /\ Alone(r) /\ pc'[r] # "answered"
    BY <1>17 DEF Verify, goto, Alone, Process
  <2>2. Exact(r)'
    BY <2>1 DEF Exact
  <2> QED  BY <2>1, <2>2, OtherAnswers
<1>18. ASSUME NEW r \in Reader, QuerySourceIndex(r) PROVE AnswerIsExact'
  <2> DEFINE c == scan[r].current
             e == Entries(got[r])
             matching == {p \in DOMAIN e : e[p].status = "indexed"}
             answer == [p \in matching |-> Loaded(e[p].fragment)]
  <2>1. r \in Process /\ Alone(r) /\ scan'[r] = scan[r] /\ pc[r] = "query"
    BY <1>18 DEF QuerySourceIndex, goto, Alone, Process
  <2>2. got'[r] = [is |-> "answer", status |-> got[r].status, records |-> answer]
    BY <1>18, <2>1 DEF QuerySourceIndex
  <2>3. /\ c \in Files /\ got[r].current = c /\ e = Facts(c)
        /\ got[r].status # "failed" =>
             /\ got[r].status = sourceV2Readiness(c, e)
             /\ Stored(e)
    BY <2>1, ManifestTypes DEF Scan, QueryIsRight, QueriesRight, GenerationIsRight
  <2>4. got[r].status # "failed" =>
          /\ answer = [p \in {q \in DOMAIN c : c[q] \notin Bad} |-> Fragment(p, c[p])]
          /\ got[r].status = "exact" <=> (\A p \in DOMAIN c : c[p] \notin Bad)
    <3>1. ASSUME got[r].status # "failed"
          PROVE  /\ matching = {q \in DOMAIN c : c[q] \notin Bad}
                 /\ \A p \in matching : Loaded(e[p].fragment) = Fragment(p, c[p])
                 /\ got[r].status = "exact" <=> (\A p \in DOMAIN c : c[p] \notin Bad)
      <4> HIDE DEF c, e
      <4>1. c \in Files /\ e = Facts(c) /\ Stored(e)
              /\ got[r].status = sourceV2Readiness(c, e)
        BY <2>3, <3>1
      <4>2. /\ {p \in DOMAIN e : e[p].status = "indexed"} = {p \in DOMAIN c : c[p] \notin Bad}
            /\ \A p \in DOMAIN c :
                 c[p] \notin Bad => Loaded(e[p].fragment) = Fragment(p, c[p])
            /\ sourceV2Readiness(c, e) = "exact" <=> (\A p \in DOMAIN c : c[p] \notin Bad)
        BY ONLY <4>1, FactsAnswer
      <4> QED  BY <4>1, <4>2
    <3> HIDE DEF c, e, matching
    <3> QED  BY <3>1
  <2>5. Exact(r)'
    <3>1. c' = c
      BY <2>1
    <3> HIDE DEF answer, e, matching, c
    <3>2. got[r].status # "failed" => AnswerOf(c, got'[r])
      <4>1. got'[r].records = answer /\ got'[r].status = got[r].status
        BY <2>2
      <4> QED  BY <2>4, <4>1 DEF AnswerOf
    <3> QED  BY <2>1, <2>2, <3>2 DEF Exact, c
  <2> QED  BY <2>1, <2>5, OtherAnswers
<1>19. CASE UNCHANGED vars
  BY <1>19, SameAnswers DEF vars
<1> QED  BY <1>1, <1>2, <1>3, <1>4, <1>5, <1>6, <1>7, <1>8, <1>9, <1>10, <1>11,
       <1>12, <1>13, <1>14, <1>15, <1>16, <1>17, <1>18, <1>19 DEF Next

-----------------------------------------------------------------------------
(* The theorems.                                                           *)

LEMMA InitInv == Init => Inv
<1> SUFFICES ASSUME Init PROVE Inv
  OBVIOUS
<1> USE DEF Init
<1>1. Shapes
  BY SourceAssumption, EmptyShapes DEF Shapes, Place
<1>2. Bounds
  <2>1. store \cap damaged = {} /\ tainted \in BOOLEAN
    OBVIOUS
  <2> QED  BY <2>1, SourceAssumption DEF Bounds
<1>3. BuildsFollowScan
  BY DEF BuildsFollowScan, FollowsScan, Follows, NoBuild, NoFiles
<1>4. BuildsAreStored
  BY DEF BuildsAreStored, KeepsStored, Stored, NoBuild, NoFiles
<1>5. ReceiptIsRight /\ ReceiptIsWhole
  BY DEF ReceiptIsRight, ReceiptIsWhole, NoReceipt
<1>6. QueryIsRight
  BY DEF QueryIsRight, QueriesRight
<1>7. AnswerIsExact
  BY DEF AnswerIsExact, Process
<1> QED  BY <1>1, <1>2, <1>3, <1>4, <1>5, <1>6, <1>7 DEF Inv

THEOREM Invariance == Spec => []Inv
<1>1. Inv /\ [Next]_vars => Inv'
  BY StepShapes, StepBounds, StepBuildsFollowScan, StepBuildsAreStored,
     StepReceiptIsRight, StepReceiptIsWhole, StepQueryIsRight, StepAnswerIsExact
  DEF Inv
<1> QED  BY InitInv, <1>1, PTL DEF Spec

\* Every variable keeps its type: in particular no object is both sound and
\* damaged, and what a process has read and built are files of the worktree.
THEOREM TypeCorrect == Spec => []TypeOK
<1>1. Shapes /\ Bounds => TypeOK
  <2> SUFFICES ASSUME Shapes, Bounds PROVE TypeOK
    OBVIOUS
  <2>1. \A o \in store \cup damaged : o.kind \in {"fragment", "base", "delta"}
    BY DEF Shapes, Object, Fragments, Fragment, Base, Delta
  <2>2. receipt.is \in {"missing", "broken", "stored"}
    BY DEF Shapes, NoReceipt, BrokenReceipt, Receipt
  <2>3. \A x \in Process :
          /\ scan[x].head \in Commit \cup {"none"} /\ scan[x].todo \subseteq Path
          /\ scan[x].current \in Files /\ scan[x].tree \in Files
          /\ DOMAIN build[x].base \subseteq Path /\ DOMAIN build[x].delta \subseteq Path
    BY ManifestTypes, FacetUpdates DEF Scan, Build, Head
  <2> QED  BY <2>1, <2>2, <2>3 DEF TypeOK, Shapes, Bounds, Place
<1> QED  BY Invariance, <1>1, PTL DEF Inv

\* Unless an object was lost since the receipt was written, the generation it
\* names is complete and sound, whatever syncs overlapped, failed or died.
THEOREM ReceiptIsWholeHolds == Spec => []ReceiptIsWhole
BY Invariance, PTL DEF Inv

\* An answer that is not marked failed holds the facts of exactly the bytes its
\* own scan read, however syncs, edits, movements of HEAD and power losses
\* interleaved with it.
THEOREM AnswerIsExactHolds == Spec => []AnswerIsExact
BY Invariance, PTL DEF Inv

==============================================================================
