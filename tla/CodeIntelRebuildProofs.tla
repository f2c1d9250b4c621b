----------------------- MODULE CodeIntelRebuildProofs -----------------------
(***************************************************************************)
(* The derived index never loses an event and holds only logged ones, for  *)
(* any number of hooks, captures, rebuilds, cleanups and faults, and       *)
(* whatever the rebuild lock does: that proof does not use the lock.  What *)
(* a failed Append withdrew is excepted: no step returns it (Withdrawn     *)
(* only grows) and it never reached the store (StoredIsDone).              *)
(* Without faults the event files hold all that the store holds.  And what *)
(* a lock's owner left behind does not stop a rebuild that runs alone.     *)
(***************************************************************************)
EXTENDS CodeIntelRebuild, TLAPS

Shapes ==
  /\ pc \in [Process -> Running \cup Ended]
  /\ runFile \in [Capture -> {"none", "empty", "partial", "full"}]
  /\ readSet \in [Rebuilder -> SUBSET Writer]
  /\ stream \subseteq Hook

\* Who works on the store has it open, alone.
StoreIsHeld ==
  \A p \in Process :
    pc[p] \in {"record", "stats", "import", "commit"} => dbOwner = p

\* What a capture's file holds follows from where its Append is.
FillingTells ==
  \A c \in Capture : /\ pc[c] = "idle" => runFile[c] = "none"
                     /\ pc[c] = "fill" => runFile[c] \in {"empty", "partial"}
                     /\ pc[c] = "close" => runFile[c] = "full"

\* A trace in the store is that of a capture that has finished.
StoredIsDone == \A c \in Capture : c \in proxyRows => pc[c] = "ok"

\* An open import holds all of the index it is about to replace, and only events
\* that are in the files, but for what has been withdrawn.
ImportIsComplete ==
  \A r \in Rebuilder : pc[r] = "commit" =>
    /\ index \ Withdrawn \subseteq readSet[r]
    /\ readSet[r] \subseteq EventsRead \cup Withdrawn

Inv == /\ Shapes /\ StoreIsHeld /\ FillingTells /\ StoredIsDone
       /\ ImportIsComplete /\ IndexedIsLogged

\* The index is right before the first event.
LEMMA InitInv == InitAll => Inv
<1> SUFFICES ASSUME Init PROVE Inv
  BY DEF InitAll
<1> USE DEF Init
<1>1. Shapes
  BY DEF Shapes, Running, Ended
<1>2. StoreIsHeld /\ FillingTells /\ StoredIsDone /\ ImportIsComplete
  BY DEF StoreIsHeld, FillingTells, StoredIsDone, ImportIsComplete, Process, Writer
<1>3. IndexedIsLogged
  BY DEF IndexedIsLogged
<1> QED  BY <1>1, <1>2, <1>3 DEF Inv

\* A step keeps the invariant and takes nothing out of the index.
Safe == Inv' /\ index \ Withdrawn \subseteq index'

\* A hook's steps up to the acknowledgement only add to the stream.
LEMMA HookSafe ==
  ASSUME Inv, NEW h \in Hook,
         StartHook(h) \/ LockStream(h) \/ BeginWrite(h) \/ EndWrite(h)
         \/ AppendError(h) \/ Acknowledge(h) \/ SyncError(h)
  PROVE  Safe
<1> USE ProcessAssumption DEF Inv, Shapes, StoreIsHeld, FillingTells,
         StoredIsDone, ImportIsComplete, IndexedIsLogged, EventsRead, Withdrawn, Safe, Process, Writer,
         Running, Ended, goto, files, db
<1>1. CASE StartHook(h)
  BY <1>1 DEF StartHook, files
<1>2. CASE LockStream(h)
  BY <1>2 DEF LockStream
<1>3. CASE BeginWrite(h)
  BY <1>3 DEF BeginWrite
<1>4. CASE EndWrite(h)
  BY <1>4 DEF EndWrite
<1>5. CASE AppendError(h)
  BY <1>5 DEF AppendError
<1>6. CASE Acknowledge(h)
  BY <1>6 DEF Acknowledge
<1>7. CASE SyncError(h)
  BY <1>7 DEF SyncError
<1> QED  BY <1>1, <1>2, <1>3, <1>4, <1>5, <1>6, <1>7

\* A capture's file is complete for good, or withdrawn before it counts.
LEMMA CaptureSafe ==
  ASSUME Inv, NEW c \in Capture,
         CreateRunFile(c) \/ BeginFill(c) \/ FillRunFile(c) \/ CloseRunFile(c)
         \/ FillError(c)
  PROVE  Safe
<1>0. pc[c] \in {"idle", "fill", "close"}
  BY DEF CreateRunFile, BeginFill, FillRunFile, CloseRunFile, FillError
<1>1. /\ stream' = stream /\ proxyRows' = proxyRows
      /\ UNCHANGED <<index, readSet>>
      /\ \A d \in Capture : d # c => runFile'[d] = runFile[d]
      /\ \A p \in Process : p # c => pc'[p] = pc[p]
  BY ProcessAssumption DEF Inv, Shapes, Process, Writer, goto, db, files,
     CreateRunFile, BeginFill, FillRunFile, CloseRunFile, FillError
<1>2. Shapes' /\ FillingTells'
  <2> USE ProcessAssumption DEF Inv, Shapes, FillingTells, Process, Writer, Running,
        Ended, goto, db
  <2>1. CASE CreateRunFile(c)
    BY <2>1 DEF CreateRunFile
  <2>2. CASE BeginFill(c)
    BY <2>2 DEF BeginFill
  <2>3. CASE FillRunFile(c)
    BY <2>3 DEF FillRunFile
  <2>4. CASE CloseRunFile(c)
    BY <2>4 DEF CloseRunFile, files
  <2>5. CASE FillError(c)
    BY <2>5 DEF FillError
  <2> QED  BY <2>1, <2>2, <2>3, <2>4, <2>5
<1>3. runFile[c] = "full" =>
        runFile'[c] = "full" \/ (pc'[c] = "failed" /\ runFile'[c] = "none")
  BY DEF Inv, Shapes, FillingTells, Process, Writer, goto, files, CreateRunFile,
     BeginFill, FillRunFile, CloseRunFile, FillError
<1>4. pc'[c] \in {"fill", "close", "open", "failed"} /\ c \notin proxyRows
  BY <1>0 DEF Inv, Shapes, StoredIsDone, Process, Writer, goto, CreateRunFile,
     BeginFill, FillRunFile, CloseRunFile, FillError
<1>5. /\ Withdrawn \subseteq Withdrawn'
      /\ EventsRead \subseteq EventsRead' \cup Withdrawn'
  BY <1>0, <1>1, <1>3 DEF Withdrawn, EventsRead, Process, Writer
<1>6. proxyRows \cap Withdrawn' = {}
  BY <1>1, <1>4 DEF Inv, IndexedIsLogged, Withdrawn, Process, Writer
<1>7. StoreIsHeld'
  BY <1>0, <1>1, <1>4 DEF Inv, StoreIsHeld, Process, Writer, db, CreateRunFile,
     BeginFill, FillRunFile, CloseRunFile, FillError
<1>8. StoredIsDone'
  BY <1>1, <1>4 DEF Inv, StoredIsDone, Process, Writer
<1>9. ImportIsComplete' /\ IndexedIsLogged'
  BY <1>1, <1>5, <1>6, ProcessAssumption
     DEF Inv, ImportIsComplete, IndexedIsLogged, Process, Writer
<1> QED  BY <1>1, <1>2, <1>7, <1>8, <1>9 DEF Inv, Safe

\* A writer opens and closes the store without a rebuild in it.
LEMMA StoreSafe ==
  ASSUME Inv, NEW w \in Writer,
         OpenStore(w) \/ StoreLocked(w) \/ OpenError(w) \/ RecordEvent(w)
         \/ RecordError(w)
  PROVE  Safe
<1> USE ProcessAssumption DEF Inv, Shapes, StoreIsHeld, FillingTells,
         StoredIsDone, ImportIsComplete, IndexedIsLogged, EventsRead, Withdrawn, Safe, Process, Writer,
         Running, Ended, goto, files, db
<1>1. CASE OpenStore(w)
  BY <1>1 DEF OpenStore
<1>2. CASE StoreLocked(w)
  BY <1>2 DEF StoreLocked
<1>3. CASE OpenError(w)
  BY <1>3 DEF OpenError
<1>4. CASE RecordEvent(w)
  BY <1>4 DEF RecordEvent
<1>5. CASE RecordError(w)
  BY <1>5 DEF RecordError
<1> QED  BY <1>1, <1>2, <1>3, <1>4, <1>5

\* A rebuild replaces the index by all there was and more.
LEMMA RebuildSafe ==
  ASSUME Inv, NEW r \in Rebuilder,
         StartRebuild(r) \/ OpenDuckDB(r) \/ EventLogStats(r) \/ ImportEventLog(r)
         \/ CommitImport(r) \/ ImportError(r)
  PROVE  Safe
<1> USE ProcessAssumption DEF Inv, Shapes, StoreIsHeld, FillingTells,
         StoredIsDone, ImportIsComplete, IndexedIsLogged, EventsRead, Withdrawn, Safe, Process, Writer,
         Running, Ended, goto, files, db
<1>1. CASE StartRebuild(r)
  BY <1>1 DEF StartRebuild
<1>2. CASE OpenDuckDB(r)
  BY <1>2 DEF OpenDuckDB
<1>3. CASE EventLogStats(r)
  BY <1>3 DEF EventLogStats
<1>4. CASE ImportEventLog(r)
  BY <1>4 DEF ImportEventLog
<1>5. CASE CommitImport(r)
  BY <1>5 DEF CommitImport
<1>6. CASE ImportError(r)
  BY <1>6 DEF ImportError
<1> QED  BY <1>1, <1>2, <1>3, <1>4, <1>5, <1>6

\* A process that dies drops what only it could commit.
LEMMA CrashSafe ==
  ASSUME Inv, NEW p \in Process,
         Crash(p)
  PROVE  Safe
<1> USE ProcessAssumption DEF Inv, Shapes, StoreIsHeld, FillingTells,
         StoredIsDone, ImportIsComplete, IndexedIsLogged, EventsRead, Withdrawn, Safe, Process, Writer,
         Running, Ended, goto, files, db
<1> QED  BY DEF Crash

\* Every step of the composition, lock steps included.
LEMMA NextSafe == Inv /\ [NextAll]_allVars => Safe
<1> SUFFICES ASSUME Inv, [NextAll]_allVars PROVE Safe
  OBVIOUS
<1>1. CASE UNCHANGED allVars
  BY <1>1 DEF Inv, Shapes, StoreIsHeld, FillingTells, StoredIsDone,
     ImportIsComplete, IndexedIsLogged, EventsRead, Withdrawn, Safe, allVars, vars, files, db
<1>2. CASE NextWriter
  BY <1>2, HookSafe, CaptureSafe, StoreSafe
     DEF NextWriter, HookStep, StoreStep
<1>3. CASE \E w \in Writer : Crash(w)
  BY <1>3, CrashSafe DEF Process
<1>4. ASSUME NEW r \in Rebuilder, StartLocking(r) PROVE Safe
  BY <1>4, ProcessAssumption DEF StartLocking, Inv, Shapes, StoreIsHeld,
     FillingTells, StoredIsDone, ImportIsComplete, IndexedIsLogged, EventsRead, Withdrawn, Safe, Process,
     Writer, Running, Ended, goto, files, db
<1>5. ASSUME NEW r \in Rebuilder, LockStep(r) PROVE Safe
  BY <1>5 DEF LockStep, Inv, Shapes, StoreIsHeld, FillingTells, StoredIsDone,
     ImportIsComplete, IndexedIsLogged, EventsRead, Withdrawn, Safe, files, db
<1>6. ASSUME NEW r \in Rebuilder, Rebuild(r) PROVE Safe
  BY <1>6, RebuildSafe DEF Rebuild, RebuildStep
<1>7. ASSUME NEW r \in Rebuilder, CrashRebuilder(r) PROVE Safe
  <2>1. CASE pc[r] \in Running
    BY <1>7, <2>1, CrashSafe DEF CrashRebuilder, Process
  <2>2. CASE pc[r] \notin Running
    <3>1. UNCHANGED <<files, db, pc>>
      BY <1>7, <2>2 DEF CrashRebuilder
    <3> QED
      BY <3>1 DEF Inv, Shapes, StoreIsHeld, FillingTells, StoredIsDone,
         ImportIsComplete, IndexedIsLogged, EventsRead, Withdrawn, Safe, files, db
  <2> QED  BY <2>1, <2>2
<1> QED  BY <1>1, <1>2, <1>3, <1>4, <1>5, <1>6, <1>7 DEF NextAll

\* Every reachable state of the composition is as Inv says.
LEMMA Invariance == SpecAll => []Inv
<1>1. Inv /\ [NextAll]_allVars => Inv'
  BY NextSafe DEF Safe
<1> QED  BY InitInv, <1>1, PTL DEF SpecAll

\* Every event of the derived index is complete in the event files, or was until
\* a failed Append withdrew it, with any number of processes and faults.
THEOREM IndexedIsLoggedHolds == SpecAll => []IndexedIsLogged
<1>1. Inv => IndexedIsLogged
  BY DEF Inv
<1> QED  BY Invariance, <1>1, PTL

\* No step, not even one of two overlapping rebuilds, takes an event out of the
\* index that no failed Append withdrew.
THEOREM IndexNeverShrinksHolds == SpecAll => IndexNeverShrinks
<1>1. Inv /\ [NextAll]_allVars => [index \ Withdrawn \subseteq index']_vars
  BY NextSafe DEF Safe
<1> QED  BY Invariance, <1>1, PTL DEF SpecAll, IndexNeverShrinks
-----------------------------------------------------------------------------
(* Events are logged before they are stored, as long as nothing fails.      *)

StreamShapes ==
  /\ tail \in BOOLEAN /\ garbage \in BOOLEAN /\ merged \in [Hook -> BOOLEAN]
  /\ proxyRows \subseteq Writer /\ faults \in Nat

\* The stream is written by the holder of its flock alone, ...
StreamIsHeld == \A h \in Hook : pc[h] \in {"write", "writing", "fsync"} => flock = h

\* ... and ends in a torn line only while the holder writes it.
TailIsBeingWritten ==
  faults = 0 => /\ tail => flock \in Hook /\ pc[flock] = "writing"
                /\ \A h \in Hook : pc[h] = "writing" => ~merged[h]

\* Who is about to write the store has its event in the files.
LoggedFirst ==
  faults = 0 => \A w \in Writer : pc[w] \in {"fsync", "open", "record"} => w \in EventsRead

LogInv == /\ StreamShapes /\ StreamIsHeld /\ TailIsBeingWritten
          /\ LoggedFirst /\ StoreIsRebuildableWithoutFaults

LEMMA LogInitInv == InitAll => LogInv
<1> SUFFICES ASSUME Init PROVE LogInv
  BY DEF InitAll
<1> QED  BY DEF Init, LogInv, StreamShapes, StreamIsHeld, TailIsBeingWritten, LoggedFirst,
            StoreIsRebuildableWithoutFaults, Process, Writer

\* A hook's steps up to the acknowledgement: a record begun behind a complete
\* line ends complete.
LEMMA HookLogs ==
  ASSUME Inv, LogInv, NEW h \in Hook,
         StartHook(h) \/ LockStream(h) \/ BeginWrite(h) \/ EndWrite(h)
         \/ AppendError(h) \/ Acknowledge(h) \/ SyncError(h)
  PROVE  LogInv'
<1> USE ProcessAssumption DEF Inv, Shapes, LogInv, StreamShapes, StreamIsHeld,
      TailIsBeingWritten, LoggedFirst, StoreIsRebuildableWithoutFaults, EventsRead,
      Process, Writer, goto, db, Fault
<1>1. CASE StartHook(h)
  BY <1>1 DEF StartHook, files
<1>2. CASE LockStream(h)
  BY <1>2 DEF LockStream
<1>3. CASE BeginWrite(h)
  BY <1>3 DEF BeginWrite
<1>4. CASE EndWrite(h)
  BY <1>4 DEF EndWrite
<1>5. CASE AppendError(h)
  BY <1>5 DEF AppendError
<1>6. CASE Acknowledge(h)
  BY <1>6 DEF Acknowledge
<1>7. CASE SyncError(h)
  BY <1>7 DEF SyncError
<1> QED  BY <1>1, <1>2, <1>3, <1>4, <1>5, <1>6, <1>7

\* A capture's event file is complete before its trace is stored.
LEMMA CaptureLogs ==
  ASSUME Inv, LogInv, NEW c \in Capture,
         CreateRunFile(c) \/ BeginFill(c) \/ FillRunFile(c) \/ CloseRunFile(c)
         \/ FillError(c)
  PROVE  LogInv'
<1> USE ProcessAssumption DEF Inv, Shapes, FillingTells, LogInv, StreamShapes,
      StreamIsHeld, TailIsBeingWritten, LoggedFirst, StoreIsRebuildableWithoutFaults,
      EventsRead, Process, Writer, goto, db, Fault
<1>1. CASE CreateRunFile(c)
  BY <1>1 DEF CreateRunFile
<1>2. CASE FillRunFile(c)
  BY <1>2 DEF FillRunFile
<1>3. CASE FillError(c)
  BY <1>3 DEF FillError
<1>4. CASE BeginFill(c)
  BY <1>4 DEF BeginFill
<1>5. CASE CloseRunFile(c)
  BY <1>5 DEF CloseRunFile, files
<1> QED  BY <1>1, <1>2, <1>3, <1>4, <1>5

\* Only a writer whose event is logged adds a row.
LEMMA StoreLogs ==
  ASSUME Inv, LogInv, NEW w \in Writer,
         OpenStore(w) \/ StoreLocked(w) \/ OpenError(w) \/ RecordEvent(w)
         \/ RecordError(w)
  PROVE  LogInv'
<1> USE ProcessAssumption DEF Inv, Shapes, LogInv, StreamShapes,
      StreamIsHeld, TailIsBeingWritten, LoggedFirst, StoreIsRebuildableWithoutFaults,
      EventsRead, Process, Writer, goto, files, Fault
<1>1. CASE OpenStore(w)
  BY <1>1 DEF OpenStore
<1>2. CASE StoreLocked(w)
  BY <1>2 DEF StoreLocked, db
<1>3. CASE OpenError(w)
  BY <1>3 DEF OpenError, db
<1>4. CASE RecordEvent(w)
  BY <1>4 DEF RecordEvent
<1>5. CASE RecordError(w)
  BY <1>5 DEF RecordError
<1> QED  BY <1>1, <1>2, <1>3, <1>4, <1>5

\* A rebuild, a cleanup or a step with the lock file touches neither the files
\* nor the rows.
LEMMA OthersLeaveLog ==
  ASSUME LogInv, NEW r \in Rebuilder, UNCHANGED <<files, proxyRows>>,
         faults' = faults \/ Fault, \A w \in Writer : pc'[w] = pc[w]
  PROVE  LogInv'
BY DEF LogInv, StreamShapes, StreamIsHeld, TailIsBeingWritten, LoggedFirst,
   StoreIsRebuildableWithoutFaults, EventsRead, Process, Writer, files, Fault

\* A process that dies is a fault, and only drops its locks.
LEMMA CrashLogs ==
  ASSUME Inv, LogInv, NEW p \in Process, Crash(p)
  PROVE  LogInv'
<1>1. faults' \in Nat /\ faults' # 0
  BY DEF Crash, Fault, LogInv, StreamShapes
<1>2. /\ UNCHANGED <<stream, garbage, tail, merged, runFile, proxyRows>>
      /\ \A h \in Hook : pc'[h] \in {"write", "writing", "fsync"} =>
           h # p /\ pc'[h] = pc[h]
      /\ flock' = IF flock = p THEN Nobody ELSE flock
  BY DEF Crash, goto, Inv, Shapes, Process, Writer
<1> QED  BY <1>1, <1>2 DEF LogInv, StreamShapes, StreamIsHeld, TailIsBeingWritten,
            LoggedFirst, StoreIsRebuildableWithoutFaults

\* Faults are counted, by every part of the system.
LEMMA FaultsStep == [NextAll]_allVars => faults' = faults \/ Fault
<1> SUFFICES ASSUME [NextAll]_allVars PROVE faults' = faults \/ Fault
  OBVIOUS
<1>1. CASE UNCHANGED allVars
  BY <1>1 DEF allVars, vars
<1>2. CASE NextWriter
  <2>1. ASSUME NEW h \in Hook,
               StartHook(h) \/ HookStep(h) \/ AppendError(h) \/ SyncError(h)
        PROVE  faults' = faults \/ Fault
    BY <2>1 DEF StartHook, HookStep, LockStream, BeginWrite, EndWrite, Acknowledge,
       AppendError, SyncError
  <2>2. ASSUME NEW c \in Capture,
               CreateRunFile(c) \/ BeginFill(c) \/ FillRunFile(c)
               \/ CloseRunFile(c) \/ FillError(c)
        PROVE  faults' = faults \/ Fault
    BY <2>2 DEF CreateRunFile, BeginFill, FillRunFile, CloseRunFile, FillError
  <2>3. ASSUME NEW w \in Writer, StoreStep(w) \/ OpenError(w) \/ RecordError(w)
        PROVE  faults' = faults \/ Fault
    BY <2>3 DEF StoreStep, OpenStore, StoreLocked, RecordEvent, OpenError, RecordError
  <2> QED  BY <1>2, <2>1, <2>2, <2>3 DEF NextWriter
<1>3. ASSUME NEW p \in Process, Crash(p) PROVE faults' = faults \/ Fault
  BY <1>3 DEF Crash
<1>4. ASSUME NEW r \in Rebuilder,
             StartLocking(r) \/ LockStep(r) \/ Rebuild(r) \/ CrashRebuilder(r)
      PROVE  faults' = faults \/ Fault
  <2>1. CASE StartLocking(r)
    BY <2>1 DEF StartLocking, Lock!StartRebuild, Lock!StartCleanup, Lock!Start
  <2>2. CASE LockStep(r)
    BY <2>2 DEF LockStep, Lock!Step, Lock!openRebuildLock, Lock!inspectRebuildLock,
       Lock!removeStale, Lock!recreateLock, Lock!writePid, Lock!writePidError,
       Lock!releaseRebuildLock, Lock!cleanupInspect, Lock!cleanupRemove, Lock!Fault, Fault
  <2>3. CASE Rebuild(r)
    BY <2>3 DEF Rebuild, StartRebuild, RebuildStep, OpenDuckDB, EventLogStats,
       ImportEventLog, CommitImport, ImportError
  <2>4. CASE CrashRebuilder(r)
    BY <2>4 DEF CrashRebuilder, Lock!Crash, Lock!Fault, Fault
  <2> QED  BY <1>4, <2>1, <2>2, <2>3, <2>4
<1> QED  BY <1>1, <1>2, <1>3, <1>4 DEF NextAll, Process, Writer

LEMMA LogInvariance == SpecAll => []LogInv
<1>1. Inv /\ LogInv /\ [NextAll]_allVars => LogInv'
  <2> SUFFICES ASSUME Inv, LogInv, [NextAll]_allVars PROVE LogInv'
    OBVIOUS
  <2>0. faults' = faults \/ Fault
    BY FaultsStep
  <2>1. CASE UNCHANGED allVars
    BY <2>1 DEF LogInv, StreamShapes, StreamIsHeld, TailIsBeingWritten, LoggedFirst,
       StoreIsRebuildableWithoutFaults, EventsRead, allVars, vars, files, db
  <2>2. CASE NextWriter
    BY <2>2, HookLogs, CaptureLogs, StoreLogs DEF NextWriter, HookStep, StoreStep
  <2>3. ASSUME NEW p \in Process, Crash(p) PROVE LogInv'
    BY <2>3, CrashLogs
  <2>4. ASSUME NEW r \in Rebuilder,
               StartLocking(r) \/ LockStep(r) \/ Rebuild(r)
               \/ (CrashRebuilder(r) /\ pc[r] \notin Running)
        PROVE  LogInv'
    <3>1. UNCHANGED <<files, proxyRows>>
      BY <2>4 DEF StartLocking, LockStep, Rebuild, CrashRebuilder, StartRebuild,
         RebuildStep, OpenDuckDB, EventLogStats, ImportEventLog, CommitImport,
         ImportError, db
    <3>2. pc' = pc \/ \E place : goto(r, place)
      BY <2>4 DEF StartLocking, LockStep, Rebuild, CrashRebuilder, StartRebuild,
         RebuildStep, OpenDuckDB, EventLogStats, ImportEventLog, CommitImport,
         ImportError
    <3>3. \A w \in Writer : pc'[w] = pc[w]
      BY <3>2, ProcessAssumption DEF goto, Inv, Shapes, Process, Writer
    <3> QED  BY <2>0, <3>1, <3>3, OthersLeaveLog
  <2> QED  BY <2>1, <2>2, <2>3, <2>4 DEF NextAll, Process, CrashRebuilder
<1> QED  BY LogInitInv, Invariance, <1>1, PTL DEF SpecAll

\* As long as nothing has failed, every event in the store's own tables can be
\* read back from the event files, for any number of writers and rebuilds.
THEOREM StoreIsRebuildableHolds == SpecAll => []StoreIsRebuildableWithoutFaults
<1>1. LogInv => StoreIsRebuildableWithoutFaults
  BY DEF LogInv
<1> QED  BY LogInvariance, <1>1, PTL

-----------------------------------------------------------------------------
(* The lock that the rebuilds take, for any number of them and of cleanups. *)

\* A lock file whose creator still runs is one that it is about to use or uses.
LiveOwnerWorks ==
  lock.live => /\ lock.owner \in Rebuilder
               /\ step[lock.owner] \in {"writePid", "rebuild"}

\* As long as a process was not contended, it is the only one at work on the
\* lock, so what it has seen there is still true; and only the contended are
\* refused.
AloneSeesTruth ==
  \A r \in Rebuilder : ~contended[r] =>
    /\ step[r] # "refused"
    /\ step[r] \in Lock!Active =>
         \A q \in Rebuilder \ {r} : step[q] \notin Lock!Active
    /\ step[r] = "inspect" => lock # Lock!NoLock
    /\ step[r] = "recreate" => lock = Lock!NoLock

LockInv ==
  /\ Lock!TypeOK
  /\ LiveOwnerWorks
  /\ AloneSeesTruth

LEMMA LockInitInv == InitAll => LockInv
<1> SUFFICES ASSUME Lock!Init PROVE LockInv
  BY DEF InitAll
<1> QED  BY DEF Lock!Init, LockInv, Lock!TypeOK, Lock!NoLock, Lock!Active,
            Lock!Ended, LiveOwnerWorks, AloneSeesTruth

\* A process that starts while another is at work contends with all that are.
LEMMA StartKeepsLock ==
  ASSUME LockInv, NEW r \in Rebuilder, Lock!StartRebuild(r) \/ Lock!StartCleanup(r)
  PROVE  LockInv'
<1>1. PICK place \in {"create", "cleanupInspect"} : Lock!Start(r, place)
  BY DEF Lock!StartRebuild, Lock!StartCleanup
<1> USE <1>1 DEF LockInv, Lock!TypeOK, Lock!Start, Lock!goto, Lock!Active, Lock!Ended
<1>2. /\ step[r] \notin Lock!Active /\ step'[r] = place /\ lock' = lock
      /\ \A q \in Rebuilder : q # r => step'[q] = step[q]
  OBVIOUS
<1>3. Lock!TypeOK'
  OBVIOUS
<1>4. LiveOwnerWorks'
  BY <1>2 DEF LiveOwnerWorks
<1>5. ASSUME NEW q \in Rebuilder, ~contended'[q]
      PROVE  /\ step'[q] # "refused"
             /\ step'[q] \in Lock!Active =>
                  \A o \in Rebuilder \ {q} : step'[o] \notin Lock!Active
             /\ step'[q] = "inspect" => lock' # Lock!NoLock
             /\ step'[q] = "recreate" => lock' = Lock!NoLock
  <2>1. CASE q = r
    BY <1>2, <1>5, <2>1
  <2>2. CASE q # r
    BY <1>2, <1>5, <2>2 DEF AloneSeesTruth
  <2> QED  BY <2>1, <2>2
<1> QED  BY <1>3, <1>4, <1>5 DEF AloneSeesTruth

\* A step with the lock file is seen only by processes that are contended.
LEMMA StepKeepsLock ==
  ASSUME LockInv, NEW r \in Rebuilder,
         Lock!Step(r) \/ Lock!writePidError(r) \/ Lock!Crash(r)
  PROVE  LockInv'
<1> DEFINE Seen(q) ==
             /\ step'[q] # "refused"
             /\ step'[q] \in Lock!Active =>
                  \A o \in Rebuilder \ {q} : step'[o] \notin Lock!Active
             /\ step'[q] = "inspect" => lock' # Lock!NoLock
             /\ step'[q] = "recreate" => lock' = Lock!NoLock
<1>1. /\ contended' = contended /\ step[r] \in Lock!Active
      /\ step' \in [Rebuilder -> Lock!Active \cup Lock!Ended]
      /\ \A q \in Rebuilder : q # r => step'[q] = step[q]
  BY DEF LockInv, Lock!TypeOK, Lock!Step, Lock!openRebuildLock, Lock!inspectRebuildLock,
     Lock!removeStale, Lock!recreateLock, Lock!writePid, Lock!writePidError,
     Lock!releaseRebuildLock, Lock!cleanupInspect, Lock!cleanupRemove, Lock!Crash,
     Lock!goto, Lock!Active, Lock!Ended
<1>2. ASSUME NEW q \in Rebuilder, q # r, ~contended'[q] PROVE Seen(q)
  BY <1>1, <1>2 DEF LockInv, AloneSeesTruth, Lock!Active
<1>3. ASSUME ~contended'[r] PROVE \A o \in Rebuilder \ {r} : step'[o] \notin Lock!Active
  BY <1>1, <1>3 DEF LockInv, AloneSeesTruth
<1>4. (/\ ~contended[r] /\ step[r] \in {"inspect", "recreate"}) => ~lock.live
  BY DEF LockInv, AloneSeesTruth, LiveOwnerWorks, Lock!Active
<1> HIDE DEF Seen
<1>5. SUFFICES Lock!TypeOK' /\ LiveOwnerWorks' /\ (~contended'[r] => Seen(r))
  BY <1>2 DEF LockInv, AloneSeesTruth, Seen
<1> USE <1>1, <1>3, <1>4 DEF LockInv, Lock!TypeOK, LiveOwnerWorks, AloneSeesTruth,
      Seen, Lock!goto, Lock!Active, Lock!Ended, Lock!NoLock, Lock!LockFile, Lock!Stale,
      Lock!OwnerGone, Lock!Fault
<1>6. CASE Lock!openRebuildLock(r)
  <2>0. faults' \in Nat
    BY <1>6 DEF Lock!openRebuildLock
  <2>1. CASE lock = Lock!NoLock /\ lock' = Lock!LockFile(r) /\ Lock!goto(r, "writePid")
    BY <2>0, <2>1
  <2>2. CASE lock # Lock!NoLock /\ Lock!goto(r, "inspect") /\ lock' = lock
    <3>1. ~lock.live \/ lock.owner # r
      BY <1>6 DEF Lock!openRebuildLock
    <3> QED  BY <2>0, <2>2, <3>1
  <2> QED  BY <1>6, <2>1, <2>2 DEF Lock!openRebuildLock
<1>7. CASE Lock!inspectRebuildLock(r)
  BY <1>7 DEF Lock!inspectRebuildLock
<1>8. CASE Lock!removeStale(r)
  BY <1>8 DEF Lock!removeStale
<1>9. CASE Lock!recreateLock(r)
  <2>0. faults' \in Nat
    BY <1>9 DEF Lock!recreateLock
  <2>1. CASE lock = Lock!NoLock /\ lock' = Lock!LockFile(r) /\ Lock!goto(r, "writePid")
    BY <2>0, <2>1
  <2>2. CASE lock # Lock!NoLock /\ Lock!goto(r, "refused") /\ lock' = lock
    <3>1. /\ contended[r]
          /\ ~lock.live \/ lock.owner # r
      BY <1>9, <2>2 DEF Lock!recreateLock
    <3> QED  BY <2>0, <2>2, <3>1
  <2> QED  BY <1>9, <2>1, <2>2 DEF Lock!recreateLock
<1>10. CASE Lock!writePid(r)
  BY <1>10 DEF Lock!writePid
<1>11. CASE Lock!releaseRebuildLock(r)
  BY <1>11 DEF Lock!releaseRebuildLock
<1>12. CASE Lock!cleanupInspect(r)
  BY <1>12 DEF Lock!cleanupInspect
<1>13. CASE Lock!cleanupRemove(r)
  BY <1>13 DEF Lock!cleanupRemove
<1>14. CASE Lock!writePidError(r)
  <2>1. step'[r] = "failed" /\ faults' \in Nat
    BY <1>14 DEF Lock!writePidError
  <2>2. lock' = IF lock.owner = r THEN [lock EXCEPT !.live = FALSE] ELSE lock
    BY <1>14 DEF Lock!writePidError
  <2>3. /\ lock' \in [owner : Rebuilder \cup {"none"}, written : BOOLEAN, live : BOOLEAN]
        /\ lock'.live => lock.live /\ lock'.owner = lock.owner /\ lock.owner # r
    BY <2>2
  <2> QED  BY <2>1, <2>3
<1>15. CASE Lock!Crash(r)
  <2>1. step'[r] = "idle" /\ faults' \in Nat
    BY <1>15 DEF Lock!Crash
  <2>2. lock' = IF lock.owner = r THEN [lock EXCEPT !.live = FALSE] ELSE lock
    BY <1>15 DEF Lock!Crash
  <2>3. /\ lock' \in [owner : Rebuilder \cup {"none"}, written : BOOLEAN, live : BOOLEAN]
        /\ lock'.live => lock.live /\ lock'.owner = lock.owner /\ lock.owner # r
    BY <2>2
  <2> QED  BY <2>1, <2>3
<1> QED  BY <1>6, <1>7, <1>8, <1>9, <1>10, <1>11, <1>12, <1>13, <1>14, <1>15
         DEF Lock!Step

LEMMA WriterLeavesLock ==
  ASSUME LockInv, UNCHANGED locking, faults' \in Nat
  PROVE  LockInv'
BY DEF LockInv, Lock!TypeOK, LiveOwnerWorks, AloneSeesTruth, locking

\* Faults stay counted.
LEMMA FaultsCount == LockInv /\ [NextAll]_allVars => faults' \in Nat
BY FaultsStep DEF LockInv, Lock!TypeOK, Fault

LEMMA LockInvariance == SpecAll => []LockInv
<1>1. LockInv /\ [NextAll]_allVars => LockInv'
  <2> SUFFICES ASSUME LockInv, [NextAll]_allVars PROVE LockInv'
    OBVIOUS
  <2>1. faults' \in Nat
    BY FaultsCount
  <2>2. CASE UNCHANGED locking
    BY <2>1, <2>2, WriterLeavesLock
  <2>3. ASSUME NEW r \in Rebuilder, StartLocking(r) PROVE LockInv'
    BY <2>3, StartKeepsLock DEF StartLocking
  <2>4. ASSUME NEW r \in Rebuilder, LockStep(r) PROVE LockInv'
    BY <2>4, StepKeepsLock DEF LockStep
  <2>5. ASSUME NEW r \in Rebuilder, CrashRebuilder(r) PROVE LockInv'
    BY <2>5, StepKeepsLock DEF CrashRebuilder
  <2>6. UNCHANGED allVars => UNCHANGED locking
    BY DEF allVars
  <2> QED  BY <2>2, <2>3, <2>4, <2>5, <2>6 DEF NextAll, Rebuild
<1> QED  BY LockInitInv, <1>1, PTL DEF SpecAll

\* Whatever a crash or a write error left at the lock path, a rebuild that ran
\* alone was not refused.
THEOREM SelfHealingHolds == SpecAll => []SelfHealing
<1>1. LockInv => SelfHealing
  BY DEF LockInv, AloneSeesTruth, SelfHealing, Lock!SelfHealing
<1> QED  BY LockInvariance, <1>1, PTL
=============================================================================
