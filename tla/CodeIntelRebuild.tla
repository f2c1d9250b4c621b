-------------------------- MODULE CodeIntelRebuild --------------------------
(***************************************************************************)
(* RebuildDuckDBIndex (go/internal/codeintel/duckdb_store.go) whole: the   *)
(* rebuild of CodeIntelEvents between acquiring and releasing the lock     *)
(* file of RebuildLock, next to hooks and captures that write events and   *)
(* to cleanups of the lock.  A process that dies leaves both behind; a     *)
(* lock file that is taken for stale lets two rebuilds in at once.         *)
(***************************************************************************)
EXTENDS CodeIntelEvents

VARIABLES lock,       \* the file at the lock path
          step,       \* where a rebuild or cleanup is with respect to it
          contended

locking == <<lock, step, contended>>
allVars == <<vars, locking>>

Lock == INSTANCE RebuildLock WITH Proc <- Rebuilder, pc <- step

InitAll == Init /\ Lock!Init

\* RebuildDuckDBIndex begins with the lock, the cleanup command has nothing else.
StartLocking(r) ==
  /\ pc[r] \in Ended
  /\ Lock!StartRebuild(r) \/ Lock!StartCleanup(r)
  /\ UNCHANGED <<files, db>>
  /\ goto(r, "idle")

\* A step with the lock file; the release is deferred to the end of the rebuild.
LockStep(r) ==
  /\ step[r] = "rebuild" => pc[r] \in {"ok", "failed"}
  /\ Lock!Step(r) \/ Lock!writePidError(r)
  /\ UNCHANGED <<files, db, pc>>

\* The rebuild proper, once, under the lock.
Rebuild(r) ==
  /\ step[r] = "rebuild"
  /\ (pc[r] = "idle" /\ StartRebuild(r)) \/ RebuildStep(r) \/ ImportError(r)
  /\ UNCHANGED locking

\* A rebuild or cleanup dies with everything it holds.
CrashRebuilder(r) ==
  /\ Lock!Crash(r)
  /\ IF pc[r] \in Running THEN Crash(r) ELSE UNCHANGED <<files, db, pc>>

NextAll ==
  \/ (NextWriter \/ \E w \in Writer : Crash(w)) /\ UNCHANGED locking
  \/ \E r \in Rebuilder :
       StartLocking(r) \/ LockStep(r) \/ Rebuild(r) \/ CrashRebuilder(r)

SpecAll == InitAll /\ [][NextAll]_allVars

-----------------------------------------------------------------------------
\* Whatever a crash or a write error left at the lock path (no file, an empty
\* one, one with a dead pid), a rebuild that runs alone is never refused.
SelfHealing == Lock!SelfHealing
=============================================================================
