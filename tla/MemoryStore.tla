----------------------------- MODULE MemoryStore -----------------------------
(***************************************************************************)
(* The central memory store (go/internal/memories): MEMORY.md, its index   *)
(* and the import of provider memory files.                                *)
(*                                                                         *)
(* Importers (SessionStart hooks, hook installation) run under an O_EXCL   *)
(* lock file that nobody breaks.  The memory route of tool hooks calls     *)
(* Ensure, which creates the same two files without the lock, and agents   *)
(* edit MEMORY.md themselves.  Files are replaced by rename, except that   *)
(* the first MEMORY.md is written in place.                                *)
(*                                                                         *)
(* MEMORY.md is the set of imported blocks and the set of agent notes in   *)
(* it; the index is the set of sources it lists.                           *)
(***************************************************************************)
EXTENDS Integers, FiniteSets

CONSTANTS Importer, Ensurer, Source, Note,
          MaxAttempts,   \* lock attempts (25 in withMemoryLock)
          MaxFaults      \* bound: crashes and I/O errors in one behaviour

ASSUME SetAssumption ==
  /\ IsFiniteSet(Source) /\ IsFiniteSet(Note)
  /\ Importer \cap Ensurer = {}
ASSUME BoundAssumption == MaxAttempts \in Nat \ {0} /\ MaxFaults \in Nat

Proc == Importer \cup Ensurer

VARIABLES exists,     \* is there a MEMORY.md
          blocks,     \* imported blocks in it
          notes,      \* agent notes in it
          index,      \* records in index.yaml
          sources,    \* provider memory files that are there to import
          lockFile,
          pc, tries,
          seen,       \* blocks and notes an importer read from MEMORY.md
          fresh,      \* sources an importer is adding
          idx,        \* records read for a merge
          raced,      \* did an Ensure overlap an import so far
          faults

store == <<exists, blocks, notes, index>>
local == <<tries, seen, fresh, idx>>
vars == <<store, sources, lockFile, pc, local, raced, faults>>

Locked == {"stat", "header", "mergeRead", "mergeWrite", "scan", "replace",
           "indexRead", "indexWrite", "unlock", "unlockErr"}
Running == Locked \cup {"acquire"}
Ended == {"idle", "done", "failed"}
NothingSeen == [b |-> {}, n |-> {}]

TypeOK ==
  /\ exists \in BOOLEAN /\ lockFile \in BOOLEAN /\ raced \in BOOLEAN
  /\ blocks \subseteq Source /\ index \subseteq Source
  /\ sources \subseteq Source /\ notes \subseteq Note
  /\ pc \in [Proc -> Running \cup Ended]
  /\ tries \in [Importer -> 0..MaxAttempts]
  /\ seen \in [Importer -> [b : SUBSET Source, n : SUBSET Note]]
  /\ fresh \in [Importer -> SUBSET Source]
  /\ idx \in [Proc -> SUBSET Source]
  /\ faults \in Nat

Init ==
  /\ exists = FALSE /\ blocks = {} /\ notes = {} /\ index = {}
  /\ sources = {} /\ lockFile = FALSE
  /\ pc = [p \in Proc |-> "idle"]
  /\ tries = [p \in Importer |-> 0]
  /\ seen = [p \in Importer |-> NothingSeen]
  /\ fresh = [p \in Importer |-> {}]
  /\ idx = [p \in Proc |-> {}]
  /\ raced = FALSE /\ faults = 0

goto(p, place) == pc' = [pc EXCEPT ![p] = place]
Fault == faults < MaxFaults /\ faults' = faults + 1

-----------------------------------------------------------------------------
\* The surroundings: a provider memory file appears, an agent adds a note.
NewSource(s) ==
  /\ s \notin sources
  /\ sources' = sources \cup {s}
  /\ UNCHANGED <<store, lockFile, pc, local, raced, faults>>

AgentNote(n) ==
  /\ exists /\ n \notin notes
  /\ notes' = notes \cup {n}
  /\ UNCHANGED <<exists, blocks, index, sources, lockFile, pc, local, raced,
                 faults>>

Start(p, place, others) ==
  /\ pc[p] \in Ended
  /\ goto(p, place)
  /\ raced' = (raced \/ \E o \in others : pc[o] \in Running)
  /\ UNCHANGED <<store, sources, lockFile, local, faults>>

ImportExisting(p) == Start(p, "acquire", Ensurer)
Ensure(p) == Start(p, "stat", Proc \ {p})

\* withMemoryLock: the O_EXCL create wins ...
takeMemoryLock(p) ==
  /\ pc[p] = "acquire" /\ tries[p] < MaxAttempts
  /\ ~lockFile
  /\ lockFile' = TRUE
  /\ goto(p, "stat")
  /\ UNCHANGED <<store, sources, local, raced, faults>>

\* Mutant: sleeps without counting the attempt.
MutantAwaitForever(p) ==
  /\ pc[p] = "acquire" /\ tries[p] < MaxAttempts /\ lockFile
  /\ UNCHANGED vars

\* ... or the file exists and the attempt is used up.
awaitMemoryLock(p) ==
  /\ pc[p] = "acquire" /\ tries[p] < MaxAttempts
  /\ lockFile
  /\ tries' = [tries EXCEPT ![p] = @ + 1]
  /\ UNCHANGED <<store, sources, lockFile, pc, seen, fresh, idx, raced, faults>>

giveUp(p) ==
  /\ pc[p] = "acquire" /\ tries[p] = MaxAttempts
  /\ tries' = [tries EXCEPT ![p] = 0]
  /\ goto(p, "failed")
  /\ UNCHANGED <<store, sources, lockFile, seen, fresh, idx, raced, faults>>

-----------------------------------------------------------------------------
\* ensureWithSettings, for importers and Ensure alike: stat MEMORY.md ...
statPrimary(p) ==
  /\ pc[p] = "stat"
  /\ goto(p, IF exists THEN "mergeRead" ELSE "header")
  /\ UNCHANGED <<store, sources, lockFile, local, raced, faults>>

\* ... and write the empty one in place, over whatever is there by now.
writeHeader(p) ==
  /\ pc[p] = "header"
  /\ exists' = TRUE /\ blocks' = {} /\ notes' = {}
  /\ goto(p, "mergeRead")
  /\ UNCHANGED <<index, sources, lockFile, local, raced, faults>>

\* ensureIndex with no records: read, then replace by rename.
mergeRead(p) ==
  /\ pc[p] = "mergeRead"
  /\ idx' = [idx EXCEPT ![p] = index]
  /\ goto(p, "mergeWrite")
  /\ UNCHANGED <<store, sources, lockFile, tries, seen, fresh, raced, faults>>

mergeWrite(p) ==
  /\ pc[p] = "mergeWrite"
  /\ index' = idx[p]
  /\ idx' = [idx EXCEPT ![p] = {}]
  /\ goto(p, IF p \in Importer THEN "scan" ELSE "done")
  /\ UNCHANGED <<exists, blocks, notes, sources, lockFile, tries, seen, fresh,
                 raced, faults>>

-----------------------------------------------------------------------------
\* Every provider memory file that is there now.
importSourcePaths == sources

\* importExistingLocked: list the sources, read MEMORY.md, keep those sources
\* whose marker is not in it (importOne).
scanSources(p) ==
  /\ pc[p] = "scan"
  /\ seen' = [seen EXCEPT ![p] = [b |-> blocks, n |-> notes]]
  /\ fresh' = [fresh EXCEPT ![p] = importSourcePaths \ blocks]
  /\ goto(p, IF importSourcePaths \ blocks = {} THEN "indexRead" ELSE "replace")
  /\ UNCHANGED <<store, sources, lockFile, tries, idx, raced, faults>>

\* Mutant: writes the new blocks only.
MutantReplaceForgets(p) ==
  /\ pc[p] = "replace"
  /\ blocks' = fresh[p] /\ notes' = seen[p].n
  /\ goto(p, "indexRead")
  /\ UNCHANGED <<exists, index, sources, lockFile, local, raced, faults>>

\* Mutant: rebuilds the file from its blocks.
MutantReplaceDropsNotes(p) ==
  /\ pc[p] = "replace"
  /\ exists' = TRUE
  /\ blocks' = seen[p].b \cup fresh[p] /\ notes' = {}
  /\ goto(p, "indexRead")
  /\ UNCHANGED <<index, sources, lockFile, local, raced, faults>>

\* The file is replaced by what was read plus the new blocks.
replacePrimary(p) ==
  /\ pc[p] = "replace"
  /\ exists' = TRUE
  /\ blocks' = seen[p].b \cup fresh[p] /\ notes' = seen[p].n
  /\ goto(p, "indexRead")
  /\ UNCHANGED <<index, sources, lockFile, local, raced, faults>>

\* ensureIndex with the new records.
indexRead(p) ==
  /\ pc[p] = "indexRead"
  /\ idx' = [idx EXCEPT ![p] = index]
  /\ goto(p, "indexWrite")
  /\ UNCHANGED <<store, sources, lockFile, tries, seen, fresh, raced, faults>>

\* Mutant: the new records replace the old ones.
MutantIndexReplaces(p) ==
  /\ pc[p] = "indexWrite"
  /\ index' = fresh[p]
  /\ goto(p, "unlock")
  /\ UNCHANGED <<exists, blocks, notes, sources, lockFile, local, raced, faults>>

indexWrite(p) ==
  /\ pc[p] = "indexWrite"
  /\ index' = idx[p] \cup fresh[p]
  /\ goto(p, "unlock")
  /\ UNCHANGED <<exists, blocks, notes, sources, lockFile, local, raced, faults>>

Forget(p) ==
  /\ tries' = [i \in Importer |-> IF i = p THEN 0 ELSE tries[i]]
  /\ seen' = [i \in Importer |-> IF i = p THEN NothingSeen ELSE seen[i]]
  /\ fresh' = [i \in Importer |-> IF i = p THEN {} ELSE fresh[i]]
  /\ idx' = [idx EXCEPT ![p] = {}]

\* The deferred os.Remove of the lock file.
dropMemoryLock(p) ==
  /\ pc[p] \in {"unlock", "unlockErr"}
  /\ lockFile' = FALSE
  /\ goto(p, IF pc[p] = "unlock" THEN "done" ELSE "failed")
  /\ Forget(p)
  /\ UNCHANGED <<store, sources, raced, faults>>

\* A read, a write or a rename fails.  Only the header write, in place, may have
\* changed its file by then; an error of the lock's create leaves no lock to drop.
ioError(p) ==
  /\ pc[p] \in Running \ {"unlock", "unlockErr"}
  /\ Fault
  /\ goto(p, IF p \in Importer /\ pc[p] # "acquire" THEN "unlockErr" ELSE "failed")
  /\ Forget(p)
  /\ \/ UNCHANGED store
     \/ /\ pc[p] = "header"
        /\ exists' = TRUE /\ blocks' = {} /\ notes' = {}
        /\ UNCHANGED index
  /\ UNCHANGED <<sources, lockFile, raced>>

\* A process dies; the lock file stays.
Crash(p) ==
  /\ pc[p] \in Running
  /\ Fault
  /\ goto(p, "idle")
  /\ Forget(p)
  /\ UNCHANGED <<store, sources, lockFile, raced>>

ImportStep(p) ==
  \/ takeMemoryLock(p) \/ awaitMemoryLock(p) \/ giveUp(p)
  \/ scanSources(p) \/ replacePrimary(p) \/ indexRead(p) \/ indexWrite(p)
  \/ dropMemoryLock(p)
EnsureStep(p) ==
  statPrimary(p) \/ writeHeader(p) \/ mergeRead(p) \/ mergeWrite(p)

Next ==
  \/ \E s \in Source : NewSource(s)
  \/ \E n \in Note : AgentNote(n)
  \/ \E p \in Importer : ImportExisting(p) \/ ImportStep(p)
  \/ \E p \in Ensurer : Ensure(p)
  \/ \E p \in Proc : EnsureStep(p) \/ ioError(p) \/ Crash(p)

\* A started process keeps running; nothing waits without a bound.
Fairness == /\ \A p \in Importer : WF_vars(ImportStep(p))
            /\ \A p \in Proc : WF_vars(EnsureStep(p))

Spec == Init /\ [][Next]_vars /\ Fairness

-----------------------------------------------------------------------------

\* One of P found no MEMORY.md and now writes the header over what is there.
HeaderWritten(P) == \E p \in P : pc[p] = "header" /\ pc'[p] # "header"

\* No import takes a block out of MEMORY.md, even when an earlier import died
\* half way; only the header write of an overlapping Ensure can.
ImportKeepsBlocks == [][blocks \subseteq blocks' \/ HeaderWritten(Ensurer)]_vars

\* Without crashes, errors and overlapping Ensures, MEMORY.md and the index
\* list the same sources whenever nobody is importing.
IndexMatchesPrimary ==
  ~raced /\ faults = 0 /\ (\A p \in Proc : pc[p] \in Ended) => index = blocks

\* Every import and every Ensure ends, a lock file left by a crash included.
EveryCallEnds ==
  \A p \in Proc : pc[p] \in Running ~> pc[p] \in Ended

\* An agent's note is lost only to an import that read MEMORY.md before the note
\* was in it, or to a header write: imports keep the notes they could see.
SeenNotesSurvive ==
  [][\A n \in notes \ notes' :
       \/ HeaderWritten(Proc)
       \/ \E p \in Importer : pc[p] = "replace" /\ n \notin seen[p].n]_vars
=============================================================================
