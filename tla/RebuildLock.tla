----------------------------- MODULE RebuildLock -----------------------------
(***************************************************************************)
(* The lock file of code-intel rebuilds (duckdb_store.go).  A rebuild      *)
(* creates it with O_EXCL, writes its pid into it and removes it at the    *)
(* end; a rebuild that finds it, and the cleanup command, judge it stale   *)
(* when it holds no pid or the pid of a process that is gone, and remove   *)
(* it.  Looking and removing are separate steps, and so are creating and   *)
(* writing.                                                                *)
(*                                                                         *)
(* The file is identified by the process that created it: a process writes *)
(* its pid through its own descriptor, which may no longer be the file at  *)
(* the path.  Pids are not reused.                                         *)
(***************************************************************************)
EXTENDS Integers

CONSTANTS Proc,       \* processes that rebuild or clean up
          MaxFaults   \* bound: crashes and write errors in one behaviour

VARIABLES lock,       \* the file at the lock path
          pc,         \* where each process is
          contended,  \* was another process active during this attempt
          faults

vars == <<lock, pc, contended, faults>>

\* live: is the process that created the file still the same running process.
NoLock == [owner |-> "none", written |-> FALSE, live |-> FALSE]

LockFile(p) == [owner |-> p, written |-> FALSE, live |-> TRUE]

Active == {"create", "inspect", "remove", "recreate", "writePid", "rebuild",
           "cleanupInspect", "cleanupRemove"}
Ended == {"idle", "refused", "failed"}

TypeOK ==
  /\ lock \in [owner : Proc \cup {"none"}, written : BOOLEAN, live : BOOLEAN]
  /\ pc \in [Proc -> Active \cup Ended]
  /\ contended \in [Proc -> BOOLEAN]
  /\ faults \in Nat

Init ==
  /\ lock = NoLock
  /\ pc = [p \in Proc |-> "idle"]
  /\ contended = [p \in Proc |-> FALSE]
  /\ faults = 0

goto(p, place) == pc' = [pc EXCEPT ![p] = place]
Fault == faults < MaxFaults /\ faults' = faults + 1

\* The creator of a file at the path stops running.
OwnerGone(p) ==
  lock' = IF lock.owner = p THEN [lock EXCEPT !.live = FALSE] ELSE lock

-----------------------------------------------------------------------------
Start(p, place) ==
  /\ pc[p] \in Ended
  /\ goto(p, place)
  /\ contended' =
       [q \in Proc |-> IF q = p THEN \E o \in Proc \ {p} : pc[o] \in Active
                       ELSE contended[q] \/ pc[q] \in Active]
  /\ UNCHANGED <<lock, faults>>

StartRebuild(p) == Start(p, "create")
StartCleanup(p) == Start(p, "cleanupInspect")

\* The first O_EXCL create.
openRebuildLock(p) ==
  /\ pc[p] = "create"
  /\ \/ lock = NoLock /\ lock' = LockFile(p) /\ goto(p, "writePid")
     \/ lock # NoLock /\ goto(p, "inspect") /\ UNCHANGED lock
  /\ UNCHANGED <<contended, faults>>

\* Mutant: an empty lock file counts as held.
MutantStaleOnlyIfDead == lock # NoLock /\ lock.written /\ ~lock.live

\* inspectDuckDBRebuildLock: "invalid pid" or "owner process missing".
Stale == lock # NoLock /\ (~lock.written \/ ~lock.live)

\* Not stale, or gone by now: the rebuild is refused.
inspectRebuildLock(p) ==
  /\ pc[p] = "inspect"
  /\ goto(p, IF Stale THEN "remove" ELSE "refused")
  /\ UNCHANGED <<lock, contended, faults>>

\* os.Remove of whatever is at the path now.
removeStale(p) ==
  /\ pc[p] = "remove"
  /\ lock' = NoLock
  /\ goto(p, "recreate")
  /\ UNCHANGED <<contended, faults>>

\* The second O_EXCL create; losing it is an error.
recreateLock(p) ==
  /\ pc[p] = "recreate"
  /\ \/ lock = NoLock /\ lock' = LockFile(p) /\ goto(p, "writePid")
     \/ lock # NoLock /\ goto(p, "refused") /\ UNCHANGED lock
  /\ UNCHANGED <<contended, faults>>

\* WriteString(pid) and Close through the descriptor.
writePid(p) ==
  /\ pc[p] = "writePid"
  /\ lock' = IF lock.owner = p THEN [lock EXCEPT !.written = TRUE] ELSE lock
  /\ goto(p, "rebuild")
  /\ UNCHANGED <<contended, faults>>

\* The write or the close fails: the lock file is not removed.
writePidError(p) ==
  /\ pc[p] = "writePid"
  /\ Fault
  /\ OwnerGone(p)
  /\ goto(p, "failed")
  /\ UNCHANGED contended

\* The deferred release removes whatever is at the path.
releaseRebuildLock(p) ==
  /\ pc[p] = "rebuild"
  /\ lock' = NoLock
  /\ goto(p, "idle")
  /\ UNCHANGED <<contended, faults>>

-----------------------------------------------------------------------------
\* CleanupStaleDuckDBRebuildLock looks ...
cleanupInspect(p) ==
  /\ pc[p] = "cleanupInspect"
  /\ goto(p, IF Stale THEN "cleanupRemove" ELSE "idle")
  /\ UNCHANGED <<lock, contended, faults>>

\* ... and removes.
cleanupRemove(p) ==
  /\ pc[p] = "cleanupRemove"
  /\ lock' = NoLock
  /\ goto(p, "idle")
  /\ UNCHANGED <<contended, faults>>

\* A process dies and leaves its lock file.
Crash(p) ==
  /\ pc[p] \in Active
  /\ Fault
  /\ OwnerGone(p)
  /\ goto(p, "idle")
  /\ UNCHANGED contended

Step(p) ==
  \/ openRebuildLock(p) \/ inspectRebuildLock(p) \/ removeStale(p)
  \/ recreateLock(p) \/ writePid(p) \/ releaseRebuildLock(p)
  \/ cleanupInspect(p) \/ cleanupRemove(p)

Next ==
  \E p \in Proc :
    StartRebuild(p) \/ StartCleanup(p) \/ Step(p) \/ writePidError(p) \/ Crash(p)

Spec == Init /\ [][Next]_vars

-----------------------------------------------------------------------------
\* Whatever a crash or a write error left at the lock path (no file, an empty
\* one, one with a dead pid), a rebuild that runs alone is never refused.
SelfHealing == \A p \in Proc : pc[p] = "refused" => contended[p]

\* CleanupStaleDuckDBRebuildLock's comment: it removes the lock "after
\* validating that its owner process is gone".  The file about to be removed
\* belongs to a process that is gone.
RemovedLockHasNoOwner ==
  \A p \in Proc :
    pc[p] \in {"remove", "cleanupRemove"} /\ lock # NoLock => ~lock.live
=============================================================================
