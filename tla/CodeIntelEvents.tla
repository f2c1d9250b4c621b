--------------------------- MODULE CodeIntelEvents ---------------------------
(***************************************************************************)
(* The code-intel evidence path: hook processes append an event to a       *)
(* session's JSONL stream and then write it to the DuckDB store; capture   *)
(* processes write one event file per run and then the store; rebuilds     *)
(* read every event file and replace the index in one transaction.         *)
(*                                                                         *)
(* Writers of the stream exclude each other with flock; readers take no    *)
(* lock.  A write(2) is visible in part before it is complete, and a short *)
(* write leaves its part behind without a newline, so the next record ends *)
(* up on the same line.  DuckDB (external) lets one process open the file  *)
(* for writing and rolls an open transaction back when its process dies.   *)
(*                                                                         *)
(* CodeIntelRebuild puts a rebuild behind the lock file of RebuildLock;    *)
(* that lock can be lost, so nothing here relies on it.                    *)
(***************************************************************************)
EXTENDS Integers, FiniteSets

CONSTANTS Hook,        \* hook processes; each persists one proxy event
          Capture,     \* lint/hook-log processes; each persists one trace
          Rebuilder,   \* processes that rebuild the derived index
          MaxFaults    \* bound: crashes and I/O errors in one behaviour

Nobody == "nobody"
Writer == Hook \cup Capture
Process == Writer \cup Rebuilder

ASSUME ProcessAssumption ==
  /\ IsFiniteSet(Hook) /\ IsFiniteSet(Capture) /\ IsFiniteSet(Rebuilder)
  /\ Hook \cap Capture = {} /\ Hook \cap Rebuilder = {}
  /\ Capture \cap Rebuilder = {} /\ Nobody \notin Process
  /\ MaxFaults \in Nat

VARIABLES stream,    \* events on complete, decodable lines of the stream
          garbage,   \* does some line of the stream fail to decode
          tail,      \* does the stream end in an unterminated line
          merged,    \* did this hook start writing behind such a tail
          flock,     \* holder of the stream's exclusive flock
          runFile,   \* what each capture's own file holds of its record
          dbOwner,   \* the process that has the DuckDB file open
          proxyRows, \* events in the store's own tables
          index,     \* events in code_intel_events, rebuilt from the files
          readSet,   \* what a rebuild read for its open transaction
          pc, faults

files == <<stream, garbage, tail, merged, flock, runFile>>
db == <<dbOwner, proxyRows, index, readSet>>
vars == <<files, db, pc, faults>>

Running == {"flock", "write", "writing", "fsync", "open", "record",
            "fill", "close", "openDB", "stats", "import", "commit"}
Ended == {"idle", "ok", "failed"}

TypeOK ==
  /\ stream \subseteq Hook /\ garbage \in BOOLEAN /\ tail \in BOOLEAN
  /\ merged \in [Hook -> BOOLEAN]
  /\ flock \in Hook \cup {Nobody}
  /\ runFile \in [Capture -> {"none", "empty", "partial", "full"}]
  /\ dbOwner \in Process \cup {Nobody}
  /\ proxyRows \subseteq Writer /\ index \subseteq Writer
  /\ readSet \in [Rebuilder -> SUBSET Writer]
  /\ pc \in [Process -> Running \cup Ended]
  /\ faults \in Nat

Init ==
  /\ stream = {} /\ garbage = FALSE /\ tail = FALSE
  /\ merged = [h \in Hook |-> FALSE]
  /\ flock = Nobody
  /\ runFile = [c \in Capture |-> "none"]
  /\ dbOwner = Nobody /\ proxyRows = {} /\ index = {}
  /\ readSet = [r \in Rebuilder |-> {}]
  /\ pc = [p \in Process |-> "idle"]
  /\ faults = 0

goto(p, place) == pc' = [pc EXCEPT ![p] = place]
Fault == faults < MaxFaults /\ faults' = faults + 1

-----------------------------------------------------------------------------
(* Hook processes: writeProxyEventsForRoot.                                *)

\* Mutant: the store is written before the event log.
MutantStoreFirst(h) ==
  /\ pc[h] = "idle"
  /\ goto(h, "open")
  /\ UNCHANGED <<files, db, faults>>

\* appendProxyEventLog: the records are encoded and the stream is opened.
StartHook(h) ==
  /\ pc[h] = "idle"
  /\ goto(h, "flock")
  /\ UNCHANGED <<files, db, faults>>

LockStream(h) ==
  /\ pc[h] = "flock" /\ flock = Nobody
  /\ flock' = h
  /\ goto(h, "write")
  /\ UNCHANGED <<stream, garbage, tail, merged, runFile, db, faults>>

\* write(2) at the end of the file: its first bytes are visible.
BeginWrite(h) ==
  /\ pc[h] = "write"
  /\ merged' = [merged EXCEPT ![h] = tail]
  /\ tail' = TRUE
  /\ goto(h, "writing")
  /\ UNCHANGED <<stream, garbage, flock, runFile, db, faults>>

\* ... and the record's newline.  Behind an old tail the line is two records
\* run together and does not decode.
EndWrite(h) ==
  /\ pc[h] = "writing"
  /\ tail' = FALSE
  /\ stream' = IF merged[h] THEN stream ELSE stream \cup {h}
  /\ garbage' = (garbage \/ merged[h])
  /\ goto(h, "fsync")
  /\ UNCHANGED <<merged, flock, runFile, db, faults>>

\* errEventLogShortWrite, a write error, or a lock error: the descriptor is
\* closed, which releases the lock, and the hook run fails.
AppendError(h) ==
  /\ pc[h] \in {"flock", "write", "writing"}
  /\ Fault
  /\ flock' = IF flock = h THEN Nobody ELSE flock
  /\ goto(h, "failed")
  /\ UNCHANGED <<stream, garbage, tail, merged, runFile, db>>

\* fsync succeeded; close releases the lock and the event is acknowledged.
Acknowledge(h) ==
  /\ pc[h] = "fsync"
  /\ flock' = Nobody
  /\ goto(h, "open")
  /\ UNCHANGED <<stream, garbage, tail, merged, runFile, db, faults>>

\* fsync fails: the record is in the file but the run fails.
SyncError(h) ==
  /\ pc[h] = "fsync"
  /\ Fault
  /\ flock' = Nobody
  /\ goto(h, "failed")
  /\ UNCHANGED <<stream, garbage, tail, merged, runFile, db>>

-----------------------------------------------------------------------------
(* Capture processes: IngestLintTraceFile and IngestHookTraceFile.         *)

\* EventLog.Append creates a file of its own with O_EXCL: nothing is in it yet.
CreateRunFile(c) ==
  /\ pc[c] = "idle"
  /\ runFile' = [runFile EXCEPT ![c] = "empty"]
  /\ goto(c, "fill")
  /\ UNCHANGED <<stream, garbage, tail, merged, flock, db, faults>>

\* The encoder's write: its first bytes are visible ...
BeginFill(c) ==
  /\ pc[c] = "fill" /\ runFile[c] = "empty"
  /\ runFile' = [runFile EXCEPT ![c] = "partial"]
  /\ UNCHANGED <<stream, garbage, tail, merged, flock, db, pc, faults>>

\* ... and the whole record, before the file is closed.
FillRunFile(c) ==
  /\ pc[c] = "fill" /\ runFile[c] = "partial"
  /\ runFile' = [runFile EXCEPT ![c] = "full"]
  /\ goto(c, "close")
  /\ UNCHANGED <<stream, garbage, tail, merged, flock, db, faults>>

\* The close succeeds and Append returns.
CloseRunFile(c) ==
  /\ pc[c] = "close"
  /\ goto(c, "open")
  /\ UNCHANGED <<files, db, faults>>

\* Validation, encoding or the close fails: the deferred cleanup removes the
\* file, a complete record that readers could already see included, unless that
\* fails too, and the capture fails.
FillError(c) ==
  /\ pc[c] \in {"fill", "close"}
  /\ Fault
  /\ \E left \in {"none", runFile[c]} :
       runFile' = [runFile EXCEPT ![c] = left]
  /\ goto(c, "failed")
  /\ UNCHANGED <<stream, garbage, tail, merged, flock, db>>

-----------------------------------------------------------------------------
(* The store, for both kinds of writers.                                   *)

\* codeintel.Open succeeds.
OpenStore(w) ==
  /\ pc[w] = "open" /\ dbOwner = Nobody
  /\ dbOwner' = w
  /\ goto(w, "record")
  /\ UNCHANGED <<files, proxyRows, index, readSet, faults>>

\* The store stayed locked until storeLockWait ran out: IsStoreLockError, and
\* the event log alone is enough.
StoreLocked(w) ==
  /\ pc[w] = "open" /\ dbOwner \notin {Nobody, w}
  /\ goto(w, "ok")
  /\ UNCHANGED <<files, db, faults>>

\* Any other open error fails the run.
OpenError(w) ==
  /\ pc[w] = "open"
  /\ Fault
  /\ goto(w, "failed")
  /\ UNCHANGED <<files, db>>

\* RecordProxyEvent / the trace ingester commits and the store is closed.
RecordEvent(w) ==
  /\ pc[w] = "record"
  /\ proxyRows' = proxyRows \cup {w}
  /\ dbOwner' = Nobody
  /\ goto(w, "ok")
  /\ UNCHANGED <<files, index, readSet, faults>>

RecordError(w) ==
  /\ pc[w] = "record"
  /\ Fault
  /\ dbOwner' = Nobody
  /\ goto(w, "failed")
  /\ UNCHANGED <<files, proxyRows, index, readSet>>

-----------------------------------------------------------------------------
(* Rebuilds: RebuildDuckDBIndex.                                           *)

\* EventLog.Records over all files: any line that does not decode ends it.  A
\* file without lines is no error.
Decodes == ~garbage /\ ~tail /\ \A c \in Capture : runFile[c] # "partial"
EventsRead == stream \cup {c \in Capture : runFile[c] = "full"}

StartRebuild(r) ==
  /\ pc[r] \in Ended
  /\ goto(r, "openDB")
  /\ UNCHANGED <<files, db, faults>>

\* OpenDuckDB does not wait: a locked store fails the rebuild.
OpenDuckDB(r) ==
  /\ pc[r] = "openDB"
  /\ \/ dbOwner = Nobody /\ dbOwner' = r /\ goto(r, "stats")
     \/ dbOwner # Nobody /\ goto(r, "failed") /\ UNCHANGED dbOwner
  /\ UNCHANGED <<files, proxyRows, index, readSet, faults>>

\* EventLogStats reads everything once to count.
EventLogStats(r) ==
  /\ pc[r] = "stats"
  /\ \/ Decodes /\ goto(r, "import") /\ UNCHANGED dbOwner
     \/ ~Decodes /\ goto(r, "failed") /\ dbOwner' = Nobody
  /\ UNCHANGED <<files, proxyRows, index, readSet, faults>>

\* Mutant: the DELETE is committed before the events are read.
MutantImportDeletesFirst(r) ==
  /\ pc[r] = "import"
  /\ index' = {}
  /\ \/ Decodes /\ readSet' = [readSet EXCEPT ![r] = EventsRead]
        /\ goto(r, "commit") /\ UNCHANGED dbOwner
     \/ ~Decodes /\ goto(r, "failed") /\ dbOwner' = Nobody
        /\ UNCHANGED readSet
  /\ UNCHANGED <<files, proxyRows, faults>>

\* Mutant: keeps going after a line that does not decode.
MutantImportSkipsBadLines(r) ==
  /\ pc[r] = "import"
  /\ readSet' = [readSet EXCEPT ![r] =
                   {c \in Capture : runFile[c] \in {"partial", "full"}}
                   \cup stream]
  /\ goto(r, "commit")
  /\ UNCHANGED <<files, dbOwner, proxyRows, index, faults>>

\* ImportEventLog: DELETE and INSERTs in one open transaction; it reads the
\* files a second time.
ImportEventLog(r) ==
  /\ pc[r] = "import"
  /\ \/ /\ Decodes
        /\ readSet' = [readSet EXCEPT ![r] = EventsRead]
        /\ goto(r, "commit")
        /\ UNCHANGED dbOwner
     \/ /\ ~Decodes
        /\ dbOwner' = Nobody
        /\ goto(r, "failed")
        /\ UNCHANGED readSet
  /\ UNCHANGED <<files, proxyRows, index, faults>>

\* The commit makes the new table visible; the store is closed.
CommitImport(r) ==
  /\ pc[r] = "commit"
  /\ index' = readSet[r]
  /\ readSet' = [readSet EXCEPT ![r] = {}]
  /\ dbOwner' = Nobody
  /\ goto(r, "ok")
  /\ UNCHANGED <<files, proxyRows, faults>>

\* A SQL error: rollbackUnlessCommitted.
ImportError(r) ==
  /\ pc[r] \in {"import", "commit"}
  /\ Fault
  /\ readSet' = [readSet EXCEPT ![r] = {}]
  /\ dbOwner' = Nobody
  /\ goto(r, "failed")
  /\ UNCHANGED <<files, proxyRows, index>>

-----------------------------------------------------------------------------
\* A process dies: the kernel drops its flock and DuckDB its transaction.  To
\* its caller it failed.
Crash(p) ==
  /\ pc[p] \in Running
  /\ Fault
  /\ flock' = IF flock = p THEN Nobody ELSE flock
  /\ dbOwner' = IF dbOwner = p THEN Nobody ELSE dbOwner
  /\ readSet' = [r \in Rebuilder |-> IF r = p THEN {} ELSE readSet[r]]
  /\ goto(p, "failed")
  /\ UNCHANGED <<stream, garbage, tail, merged, runFile, proxyRows, index>>

HookStep(h) == LockStream(h) \/ BeginWrite(h) \/ EndWrite(h) \/ Acknowledge(h)
StoreStep(w) == OpenStore(w) \/ StoreLocked(w) \/ RecordEvent(w)
RebuildStep(r) ==
  OpenDuckDB(r) \/ EventLogStats(r) \/ ImportEventLog(r) \/ CommitImport(r)

NextWriter ==
  \/ \E h \in Hook : \/ StartHook(h) \/ HookStep(h) \/ AppendError(h)
                     \/ SyncError(h)
  \/ \E c \in Capture : \/ CreateRunFile(c) \/ BeginFill(c)
                        \/ FillRunFile(c) \/ CloseRunFile(c)
                        \/ FillError(c)
  \/ \E w \in Writer : StoreStep(w) \/ OpenError(w) \/ RecordError(w)

Next ==
  \/ NextWriter
  \/ \E r \in Rebuilder : StartRebuild(r) \/ RebuildStep(r) \/ ImportError(r)
  \/ \E p \in Process : Crash(p)

Spec == Init /\ [][Next]_vars

-----------------------------------------------------------------------------
\* Captures whose Append failed and took its file away: the failure is reported,
\* but an import may have read the record while the file was there.
Withdrawn == {c \in Capture : pc[c] = "failed" /\ runFile[c] = "none"}

\* ImportEventLog replaces the index in one transaction and reads all files or
\* fails: whatever crashes or torn lines, a commit never drops an event that
\* the index had, one of a withdrawn file excepted.
IndexNeverShrinks == [][index \ Withdrawn \subseteq index']_vars

\* The index holds only events whose records are complete in the event files,
\* or were when the import read them and have been withdrawn by a failed Append
\* since; the store's own rows hold nothing of a withdrawn trace.
IndexedIsLogged ==
  /\ index \subseteq EventsRead \cup Withdrawn
  /\ proxyRows \cap Withdrawn = {}

\* CODE_INTEL_STORAGE.md: "entrypoints write a structured event before they
\* update the DuckDB query index.  The DuckDB index is rebuildable from event
\* files".  Without faults, every event in the store is in the files.
StoreIsRebuildableWithoutFaults == faults = 0 => proxyRows \subseteq EventsRead
=============================================================================
