-------------------------- MODULE MemoryStoreProofs --------------------------
(***************************************************************************)
(* Proofs about MemoryStore, for every set of importers, Ensure callers,   *)
(* sources and notes, every number of lock attempts and every number of    *)
(* crashes and I/O errors.                                                 *)
(*                                                                         *)
(* The argument.  The lock file keeps importers apart, also the one that a *)
(* dead importer left behind (LockHeld), so what an importer read of       *)
(* MEMORY.md is what it replaces (ImportView); only an Ensure, which does  *)
(* not take the lock, can get in between.  As long as none has and nothing *)
(* has failed, at most one process works on the two files, and the index   *)
(* lags behind MEMORY.md by exactly the sources that it is adding (InStep).*)
(***************************************************************************)
EXTENDS MemoryStore, TLAPS

-----------------------------------------------------------------------------
(* The inductive invariant.                                                *)

\* Ensure only makes sure that the two files are there.
EnsurerPlaces ==
  \A e \in Ensurer :
    pc[e] \in Ended \cup {"stat", "header", "mergeRead", "mergeWrite"}

\* The lock file is there while an importer works, and only one does.
LockHeld ==
  \A p, q \in Importer :
    pc[p] \in Locked => lockFile /\ (pc[q] \in Locked => q = p)

\* Without a race, an Ensure runs alone.
RacesSeen ==
  ~raced => \A e \in Ensurer, o \in Proc :
              o # e /\ pc[e] \in Running => pc[o] \notin Running

NothingInNoFile == ~exists => blocks = {}

\* An importer writes the header over a file without blocks, and replaces the
\* file with no fewer blocks than it has by then.
ImportView ==
  \A p \in Importer :
    /\ pc[p] = "header" => blocks = {}
    /\ pc[p] = "replace" => blocks \subseteq seen[p].b

\* How the index and MEMORY.md differ at each step of the one who works on them.
Step(p) ==
  /\ pc[p] \in {"stat", "header", "mergeRead", "mergeWrite", "scan", "replace",
                "unlock"} => index = blocks
  /\ pc[p] = "header" => ~exists
  /\ pc[p] \in {"mergeWrite", "indexWrite"} => idx[p] = index
  /\ pc[p] = "replace" => seen[p].b = blocks
  /\ pc[p] \in {"indexRead", "indexWrite"} => blocks = index \cup fresh[p]
  /\ pc[p] # "unlockErr"

InStep ==
  ~raced /\ faults = 0 =>
    /\ \A p \in Proc : pc[p] \in Locked => Step(p)
    /\ (\A p \in Proc : pc[p] \notin Locked) => index = blocks

Inv ==
  /\ TypeOK
  /\ EnsurerPlaces
  /\ LockHeld
  /\ RacesSeen
  /\ NothingInNoFile
  /\ ImportView
  /\ InStep

-----------------------------------------------------------------------------
(* Every action keeps every part of the invariant.                         *)

\* No step gives a variable a value outside its type.
LEMMA StepTypeOK == Inv /\ [Next]_vars => TypeOK'
<1> SUFFICES ASSUME TypeOK, [Next]_vars PROVE TypeOK'
  BY DEF Inv
<1> USE SetAssumption, BoundAssumption DEF TypeOK, Proc, Locked, Running, Ended,
       store, local
<1>1. ASSUME NEW s \in Source, NewSource(s) PROVE TypeOK'
  BY <1>1 DEF NewSource
<1>2. ASSUME NEW n \in Note, AgentNote(n) PROVE TypeOK'
  BY <1>2 DEF AgentNote
<1>3. ASSUME NEW p \in Importer, ImportExisting(p) PROVE TypeOK'
  BY <1>3 DEF ImportExisting, Start, goto
<1>4. ASSUME NEW p \in Ensurer, Ensure(p) PROVE TypeOK'
  BY <1>4 DEF Ensure, Start, goto
<1>5. ASSUME NEW p \in Importer, takeMemoryLock(p) PROVE TypeOK'
  BY <1>5 DEF takeMemoryLock, goto
<1>6. ASSUME NEW p \in Importer, awaitMemoryLock(p) PROVE TypeOK'
  BY <1>6 DEF awaitMemoryLock
<1>7. ASSUME NEW p \in Importer, giveUp(p) PROVE TypeOK'
  BY <1>7 DEF giveUp, goto
<1>8. ASSUME NEW p \in Importer, scanSources(p) PROVE TypeOK'
  BY <1>8 DEF scanSources, goto, importSourcePaths
<1>9. ASSUME NEW p \in Importer, replacePrimary(p) PROVE TypeOK'
  BY <1>9 DEF replacePrimary, goto
<1>10. ASSUME NEW p \in Importer, indexRead(p) PROVE TypeOK'
  BY <1>10 DEF indexRead, goto
<1>11. ASSUME NEW p \in Importer, indexWrite(p) PROVE TypeOK'
  BY <1>11 DEF indexWrite, goto
<1>12. ASSUME NEW p \in Importer, dropMemoryLock(p) PROVE TypeOK'
  <2>1. p \in Proc /\ pc' \in [Proc -> Running \cup Ended]
    BY <1>12 DEF dropMemoryLock, goto
  <2>2. /\ tries' \in [Importer -> 0..MaxAttempts]
        /\ seen' \in [Importer -> [b : SUBSET Source, n : SUBSET Note]]
        /\ fresh' \in [Importer -> SUBSET Source]
        /\ idx' \in [Proc -> SUBSET Source]
    BY <1>12 DEF dropMemoryLock, Forget, NothingSeen
  <2>3. /\ exists' \in BOOLEAN /\ blocks' \subseteq Source /\ notes' \subseteq Note
        /\ index' \subseteq Source /\ lockFile' \in BOOLEAN
    BY <1>12 DEF dropMemoryLock
  <2>4. faults' \in Nat /\ sources' = sources /\ raced' = raced
    BY <1>12 DEF dropMemoryLock, Fault
  <2> QED  BY <2>1, <2>2, <2>3, <2>4
<1>13. ASSUME NEW p \in Proc, statPrimary(p) PROVE TypeOK'
  BY <1>13 DEF statPrimary, goto
<1>14. ASSUME NEW p \in Proc, writeHeader(p) PROVE TypeOK'
  BY <1>14 DEF writeHeader, goto
<1>15. ASSUME NEW p \in Proc, mergeRead(p) PROVE TypeOK'
  BY <1>15 DEF mergeRead, goto
<1>16. ASSUME NEW p \in Proc, mergeWrite(p) PROVE TypeOK'
  BY <1>16 DEF mergeWrite, goto
<1>17. ASSUME NEW p \in Proc, ioError(p) PROVE TypeOK'
  <2>1. p \in Proc /\ pc' \in [Proc -> Running \cup Ended]
    BY <1>17 DEF ioError, goto
  <2>2. /\ tries' \in [Importer -> 0..MaxAttempts]
        /\ seen' \in [Importer -> [b : SUBSET Source, n : SUBSET Note]]
        /\ fresh' \in [Importer -> SUBSET Source]
        /\ idx' \in [Proc -> SUBSET Source]
    BY <1>17 DEF ioError, Forget, NothingSeen
  <2>3. /\ exists' \in BOOLEAN /\ blocks' \subseteq Source /\ notes' \subseteq Note
        /\ index' \subseteq Source /\ lockFile' \in BOOLEAN
    BY <1>17 DEF ioError
  <2>4. faults' \in Nat /\ sources' = sources /\ raced' = raced
    BY <1>17 DEF ioError, Fault
  <2> QED  BY <2>1, <2>2, <2>3, <2>4
<1>18. ASSUME NEW p \in Proc, Crash(p) PROVE TypeOK'
  <2>1. p \in Proc /\ pc' \in [Proc -> Running \cup Ended]
    BY <1>18 DEF Crash, goto
  <2>2. /\ tries' \in [Importer -> 0..MaxAttempts]
        /\ seen' \in [Importer -> [b : SUBSET Source, n : SUBSET Note]]
        /\ fresh' \in [Importer -> SUBSET Source]
        /\ idx' \in [Proc -> SUBSET Source]
    BY <1>18 DEF Crash, Forget, NothingSeen
  <2>3. /\ exists' \in BOOLEAN /\ blocks' \subseteq Source /\ notes' \subseteq Note
        /\ index' \subseteq Source /\ lockFile' \in BOOLEAN
    BY <1>18 DEF Crash
  <2>4. faults' \in Nat /\ sources' = sources /\ raced' = raced
    BY <1>18 DEF Crash, Fault
  <2> QED  BY <2>1, <2>2, <2>3, <2>4
<1>19. CASE UNCHANGED vars
  BY <1>19 DEF vars
<1> QED  BY <1>1, <1>2, <1>3, <1>4, <1>5, <1>6, <1>7, <1>8, <1>9, <1>10, <1>11,
       <1>12, <1>13, <1>14, <1>15, <1>16, <1>17, <1>18, <1>19 DEF Next, ImportStep,
       EnsureStep

\* An Ensure that went through the merge is done.
LEMMA StepEnsurerPlaces == Inv /\ [Next]_vars => EnsurerPlaces'
<1> SUFFICES ASSUME TypeOK, EnsurerPlaces, [Next]_vars PROVE EnsurerPlaces'
  BY DEF Inv
<1> USE SetAssumption, BoundAssumption DEF TypeOK, EnsurerPlaces, Proc, Locked,
       Running, Ended, store, local
<1>1. ASSUME NEW s \in Source, NewSource(s) PROVE EnsurerPlaces'
  BY <1>1 DEF NewSource
<1>2. ASSUME NEW n \in Note, AgentNote(n) PROVE EnsurerPlaces'
  BY <1>2 DEF AgentNote
<1>3. ASSUME NEW p \in Importer, ImportExisting(p) PROVE EnsurerPlaces'
  BY <1>3 DEF ImportExisting, Start, goto
<1>4. ASSUME NEW p \in Ensurer, Ensure(p) PROVE EnsurerPlaces'
  BY <1>4 DEF Ensure, Start, goto
<1>5. ASSUME NEW p \in Importer, takeMemoryLock(p) PROVE EnsurerPlaces'
  BY <1>5 DEF takeMemoryLock, goto
<1>6. ASSUME NEW p \in Importer, awaitMemoryLock(p) PROVE EnsurerPlaces'
  BY <1>6 DEF awaitMemoryLock
<1>7. ASSUME NEW p \in Importer, giveUp(p) PROVE EnsurerPlaces'
  BY <1>7 DEF giveUp, goto
<1>8. ASSUME NEW p \in Importer, scanSources(p) PROVE EnsurerPlaces'
  BY <1>8 DEF scanSources, goto, importSourcePaths
<1>9. ASSUME NEW p \in Importer, replacePrimary(p) PROVE EnsurerPlaces'
  BY <1>9 DEF replacePrimary, goto
<1>10. ASSUME NEW p \in Importer, indexRead(p) PROVE EnsurerPlaces'
  BY <1>10 DEF indexRead, goto
<1>11. ASSUME NEW p \in Importer, indexWrite(p) PROVE EnsurerPlaces'
  BY <1>11 DEF indexWrite, goto
<1>12. ASSUME NEW p \in Importer, dropMemoryLock(p) PROVE EnsurerPlaces'
  BY <1>12 DEF dropMemoryLock, goto, Forget
<1>13. ASSUME NEW p \in Proc, statPrimary(p) PROVE EnsurerPlaces'
  BY <1>13 DEF statPrimary, goto
<1>14. ASSUME NEW p \in Proc, writeHeader(p) PROVE EnsurerPlaces'
  BY <1>14 DEF writeHeader, goto
<1>15. ASSUME NEW p \in Proc, mergeRead(p) PROVE EnsurerPlaces'
  BY <1>15 DEF mergeRead, goto
<1>16. ASSUME NEW p \in Proc, mergeWrite(p) PROVE EnsurerPlaces'
  BY <1>16 DEF mergeWrite, goto
<1>17. ASSUME NEW p \in Proc, ioError(p) PROVE EnsurerPlaces'
  BY <1>17 DEF ioError, goto, Forget, Fault
<1>18. ASSUME NEW p \in Proc, Crash(p) PROVE EnsurerPlaces'
  BY <1>18 DEF Crash, goto, Forget, Fault
<1>19. CASE UNCHANGED vars
  BY <1>19 DEF vars
<1> QED  BY <1>1, <1>2, <1>3, <1>4, <1>5, <1>6, <1>7, <1>8, <1>9, <1>10, <1>11,
       <1>12, <1>13, <1>14, <1>15, <1>16, <1>17, <1>18, <1>19 DEF Next, ImportStep,
       EnsureStep

\* The exclusive create lets one importer in, and only that one removes the
\* file.
LEMMA StepLockHeld == Inv /\ [Next]_vars => LockHeld'
<1> SUFFICES ASSUME TypeOK, LockHeld, [Next]_vars PROVE LockHeld'
  BY DEF Inv
<1> USE SetAssumption, BoundAssumption DEF TypeOK, LockHeld, Proc, Locked, Running,
       Ended, store, local
<1>1. ASSUME NEW s \in Source, NewSource(s) PROVE LockHeld'
  BY <1>1 DEF NewSource
<1>2. ASSUME NEW n \in Note, AgentNote(n) PROVE LockHeld'
  BY <1>2 DEF AgentNote
<1>3. ASSUME NEW p \in Importer, ImportExisting(p) PROVE LockHeld'
  BY <1>3 DEF ImportExisting, Start, goto
<1>4. ASSUME NEW p \in Ensurer, Ensure(p) PROVE LockHeld'
  BY <1>4 DEF Ensure, Start, goto
<1>5. ASSUME NEW p \in Importer, takeMemoryLock(p) PROVE LockHeld'
  BY <1>5 DEF takeMemoryLock, goto
<1>6. ASSUME NEW p \in Importer, awaitMemoryLock(p) PROVE LockHeld'
  BY <1>6 DEF awaitMemoryLock
<1>7. ASSUME NEW p \in Importer, giveUp(p) PROVE LockHeld'
  BY <1>7 DEF giveUp, goto
<1>8. ASSUME NEW p \in Importer, scanSources(p) PROVE LockHeld'
  BY <1>8 DEF scanSources, goto, importSourcePaths
<1>9. ASSUME NEW p \in Importer, replacePrimary(p) PROVE LockHeld'
  BY <1>9 DEF replacePrimary, goto
<1>10. ASSUME NEW p \in Importer, indexRead(p) PROVE LockHeld'
  BY <1>10 DEF indexRead, goto
<1>11. ASSUME NEW p \in Importer, indexWrite(p) PROVE LockHeld'
  BY <1>11 DEF indexWrite, goto
<1>12. ASSUME NEW p \in Importer, dropMemoryLock(p) PROVE LockHeld'
  BY <1>12 DEF dropMemoryLock, goto, Forget
<1>13. ASSUME NEW p \in Proc, statPrimary(p) PROVE LockHeld'
  BY <1>13 DEF statPrimary, goto
<1>14. ASSUME NEW p \in Proc, writeHeader(p) PROVE LockHeld'
  BY <1>14 DEF writeHeader, goto
<1>15. ASSUME NEW p \in Proc, mergeRead(p) PROVE LockHeld'
  BY <1>15 DEF mergeRead, goto
<1>16. ASSUME NEW p \in Proc, mergeWrite(p) PROVE LockHeld'
  BY <1>16 DEF mergeWrite, goto
<1>17. ASSUME NEW p \in Proc, ioError(p) PROVE LockHeld'
  BY <1>17 DEF ioError, goto, Forget, Fault
<1>18. ASSUME NEW p \in Proc, Crash(p) PROVE LockHeld'
  BY <1>18 DEF Crash, goto, Forget, Fault
<1>19. CASE UNCHANGED vars
  BY <1>19 DEF vars
<1> QED  BY <1>1, <1>2, <1>3, <1>4, <1>5, <1>6, <1>7, <1>8, <1>9, <1>10, <1>11,
       <1>12, <1>13, <1>14, <1>15, <1>16, <1>17, <1>18, <1>19 DEF Next, ImportStep,
       EnsureStep

\* Whoever starts beside a running Ensure, or as an Ensure beside anybody, is
\* noted as a race.
LEMMA StepRacesSeen == Inv /\ [Next]_vars => RacesSeen'
<1> SUFFICES ASSUME TypeOK, RacesSeen, EnsurerPlaces, [Next]_vars PROVE RacesSeen'
  BY DEF Inv
<1> USE SetAssumption, BoundAssumption DEF TypeOK, RacesSeen, EnsurerPlaces, Proc,
       Locked, Running, Ended, store, local
<1>1. ASSUME NEW s \in Source, NewSource(s) PROVE RacesSeen'
  BY <1>1 DEF NewSource
<1>2. ASSUME NEW n \in Note, AgentNote(n) PROVE RacesSeen'
  BY <1>2 DEF AgentNote
<1>3. ASSUME NEW p \in Importer, ImportExisting(p) PROVE RacesSeen'
  BY <1>3 DEF ImportExisting, Start, goto
<1>4. ASSUME NEW p \in Ensurer, Ensure(p) PROVE RacesSeen'
  BY <1>4 DEF Ensure, Start, goto
<1>5. ASSUME NEW p \in Importer, takeMemoryLock(p) PROVE RacesSeen'
  BY <1>5 DEF takeMemoryLock, goto
<1>6. ASSUME NEW p \in Importer, awaitMemoryLock(p) PROVE RacesSeen'
  BY <1>6 DEF awaitMemoryLock
<1>7. ASSUME NEW p \in Importer, giveUp(p) PROVE RacesSeen'
  BY <1>7 DEF giveUp, goto
<1>8. ASSUME NEW p \in Importer, scanSources(p) PROVE RacesSeen'
  BY <1>8 DEF scanSources, goto, importSourcePaths
<1>9. ASSUME NEW p \in Importer, replacePrimary(p) PROVE RacesSeen'
  BY <1>9 DEF replacePrimary, goto
<1>10. ASSUME NEW p \in Importer, indexRead(p) PROVE RacesSeen'
  BY <1>10 DEF indexRead, goto
<1>11. ASSUME NEW p \in Importer, indexWrite(p) PROVE RacesSeen'
  BY <1>11 DEF indexWrite, goto
<1>12. ASSUME NEW p \in Importer, dropMemoryLock(p) PROVE RacesSeen'
  BY <1>12 DEF dropMemoryLock, goto, Forget
<1>13. ASSUME NEW p \in Proc, statPrimary(p) PROVE RacesSeen'
  BY <1>13 DEF statPrimary, goto
<1>14. ASSUME NEW p \in Proc, writeHeader(p) PROVE RacesSeen'
  BY <1>14 DEF writeHeader, goto
<1>15. ASSUME NEW p \in Proc, mergeRead(p) PROVE RacesSeen'
  BY <1>15 DEF mergeRead, goto
<1>16. ASSUME NEW p \in Proc, mergeWrite(p) PROVE RacesSeen'
  BY <1>16 DEF mergeWrite, goto
<1>17. ASSUME NEW p \in Proc, ioError(p) PROVE RacesSeen'
  BY <1>17 DEF ioError, goto, Forget, Fault
<1>18. ASSUME NEW p \in Proc, Crash(p) PROVE RacesSeen'
  BY <1>18 DEF Crash, goto, Forget, Fault
<1>19. CASE UNCHANGED vars
  BY <1>19 DEF vars
<1> QED  BY <1>1, <1>2, <1>3, <1>4, <1>5, <1>6, <1>7, <1>8, <1>9, <1>10, <1>11,
       <1>12, <1>13, <1>14, <1>15, <1>16, <1>17, <1>18, <1>19 DEF Next, ImportStep,
       EnsureStep

\* MEMORY.md is never removed.
LEMMA StepNothingInNoFile == Inv /\ [Next]_vars => NothingInNoFile'
<1> SUFFICES ASSUME TypeOK, NothingInNoFile, [Next]_vars PROVE NothingInNoFile'
  BY DEF Inv
<1> USE SetAssumption, BoundAssumption DEF TypeOK, NothingInNoFile, Proc, Locked,
       Running, Ended, store, local
<1>1. ASSUME NEW s \in Source, NewSource(s) PROVE NothingInNoFile'
  BY <1>1 DEF NewSource
<1>2. ASSUME NEW n \in Note, AgentNote(n) PROVE NothingInNoFile'
  BY <1>2 DEF AgentNote
<1>3. ASSUME NEW p \in Importer, ImportExisting(p) PROVE NothingInNoFile'
  BY <1>3 DEF ImportExisting, Start, goto
<1>4. ASSUME NEW p \in Ensurer, Ensure(p) PROVE NothingInNoFile'
  BY <1>4 DEF Ensure, Start, goto
<1>5. ASSUME NEW p \in Importer, takeMemoryLock(p) PROVE NothingInNoFile'
  BY <1>5 DEF takeMemoryLock, goto
<1>6. ASSUME NEW p \in Importer, awaitMemoryLock(p) PROVE NothingInNoFile'
  BY <1>6 DEF awaitMemoryLock
<1>7. ASSUME NEW p \in Importer, giveUp(p) PROVE NothingInNoFile'
  BY <1>7 DEF giveUp, goto
<1>8. ASSUME NEW p \in Importer, scanSources(p) PROVE NothingInNoFile'
  BY <1>8 DEF scanSources, goto, importSourcePaths
<1>9. ASSUME NEW p \in Importer, replacePrimary(p) PROVE NothingInNoFile'
  BY <1>9 DEF replacePrimary, goto
<1>10. ASSUME NEW p \in Importer, indexRead(p) PROVE NothingInNoFile'
  BY <1>10 DEF indexRead, goto
<1>11. ASSUME NEW p \in Importer, indexWrite(p) PROVE NothingInNoFile'
  BY <1>11 DEF indexWrite, goto
<1>12. ASSUME NEW p \in Importer, dropMemoryLock(p) PROVE NothingInNoFile'
  BY <1>12 DEF dropMemoryLock, goto, Forget
<1>13. ASSUME NEW p \in Proc, statPrimary(p) PROVE NothingInNoFile'
  BY <1>13 DEF statPrimary, goto
<1>14. ASSUME NEW p \in Proc, writeHeader(p) PROVE NothingInNoFile'
  BY <1>14 DEF writeHeader, goto
<1>15. ASSUME NEW p \in Proc, mergeRead(p) PROVE NothingInNoFile'
  BY <1>15 DEF mergeRead, goto
<1>16. ASSUME NEW p \in Proc, mergeWrite(p) PROVE NothingInNoFile'
  BY <1>16 DEF mergeWrite, goto
<1>17. ASSUME NEW p \in Proc, ioError(p) PROVE NothingInNoFile'
  BY <1>17 DEF ioError, goto, Forget, Fault
<1>18. ASSUME NEW p \in Proc, Crash(p) PROVE NothingInNoFile'
  BY <1>18 DEF Crash, goto, Forget, Fault
<1>19. CASE UNCHANGED vars
  BY <1>19 DEF vars
<1> QED  BY <1>1, <1>2, <1>3, <1>4, <1>5, <1>6, <1>7, <1>8, <1>9, <1>10, <1>11,
       <1>12, <1>13, <1>14, <1>15, <1>16, <1>17, <1>18, <1>19 DEF Next, ImportStep,
       EnsureStep

\* While an importer works nobody else adds blocks.
LEMMA StepImportView == Inv /\ [Next]_vars => ImportView'
<1> SUFFICES ASSUME TypeOK, EnsurerPlaces, LockHeld, NothingInNoFile, ImportView, [Next]_vars PROVE ImportView'
  BY DEF Inv
<1> USE SetAssumption, BoundAssumption DEF TypeOK, EnsurerPlaces, LockHeld,
       NothingInNoFile, ImportView, Proc, Locked, Running, Ended, store, local
<1>1. ASSUME NEW s \in Source, NewSource(s) PROVE ImportView'
  BY <1>1 DEF NewSource
<1>2. ASSUME NEW n \in Note, AgentNote(n) PROVE ImportView'
  BY <1>2 DEF AgentNote
<1>3. ASSUME NEW p \in Importer, ImportExisting(p) PROVE ImportView'
  BY <1>3 DEF ImportExisting, Start, goto
<1>4. ASSUME NEW p \in Ensurer, Ensure(p) PROVE ImportView'
  BY <1>4 DEF Ensure, Start, goto
<1>5. ASSUME NEW p \in Importer, takeMemoryLock(p) PROVE ImportView'
  BY <1>5 DEF takeMemoryLock, goto
<1>6. ASSUME NEW p \in Importer, awaitMemoryLock(p) PROVE ImportView'
  BY <1>6 DEF awaitMemoryLock
<1>7. ASSUME NEW p \in Importer, giveUp(p) PROVE ImportView'
  BY <1>7 DEF giveUp, goto
<1>8. ASSUME NEW p \in Importer, scanSources(p) PROVE ImportView'
  BY <1>8 DEF scanSources, goto, importSourcePaths
<1>9. ASSUME NEW p \in Importer, replacePrimary(p) PROVE ImportView'
  BY <1>9 DEF replacePrimary, goto
<1>10. ASSUME NEW p \in Importer, indexRead(p) PROVE ImportView'
  BY <1>10 DEF indexRead, goto
<1>11. ASSUME NEW p \in Importer, indexWrite(p) PROVE ImportView'
  BY <1>11 DEF indexWrite, goto
<1>12. ASSUME NEW p \in Importer, dropMemoryLock(p) PROVE ImportView'
  BY <1>12 DEF dropMemoryLock, goto, Forget
<1>13. ASSUME NEW p \in Proc, statPrimary(p) PROVE ImportView'
  BY <1>13 DEF statPrimary, goto
<1>14. ASSUME NEW p \in Proc, writeHeader(p) PROVE ImportView'
  BY <1>14 DEF writeHeader, goto
<1>15. ASSUME NEW p \in Proc, mergeRead(p) PROVE ImportView'
  BY <1>15 DEF mergeRead, goto
<1>16. ASSUME NEW p \in Proc, mergeWrite(p) PROVE ImportView'
  BY <1>16 DEF mergeWrite, goto
<1>17. ASSUME NEW p \in Proc, ioError(p) PROVE ImportView'
  BY <1>17 DEF ioError, goto, Forget, Fault
<1>18. ASSUME NEW p \in Proc, Crash(p) PROVE ImportView'
  BY <1>18 DEF Crash, goto, Forget, Fault
<1>19. CASE UNCHANGED vars
  BY <1>19 DEF vars
<1> QED  BY <1>1, <1>2, <1>3, <1>4, <1>5, <1>6, <1>7, <1>8, <1>9, <1>10, <1>11,
       <1>12, <1>13, <1>14, <1>15, <1>16, <1>17, <1>18, <1>19 DEF Next, ImportStep,
       EnsureStep

\* The one who works on the files is alone with them.
LEMMA StepInStep == Inv /\ [Next]_vars => InStep'
<1> SUFFICES ASSUME TypeOK, EnsurerPlaces, LockHeld, RacesSeen, NothingInNoFile, InStep, [Next]_vars PROVE InStep'
  BY DEF Inv
<1> USE SetAssumption, BoundAssumption DEF TypeOK, EnsurerPlaces, LockHeld,
       RacesSeen, NothingInNoFile, InStep, Step, Proc, Locked, Running, Ended,
       store, local
<1>1. ASSUME NEW s \in Source, NewSource(s) PROVE InStep'
  BY <1>1 DEF NewSource
<1>2. ASSUME NEW n \in Note, AgentNote(n) PROVE InStep'
  BY <1>2 DEF AgentNote
<1>3. ASSUME NEW p \in Importer, ImportExisting(p) PROVE InStep'
  BY <1>3 DEF ImportExisting, Start, goto
<1>4. ASSUME NEW p \in Ensurer, Ensure(p) PROVE InStep'
  BY <1>4 DEF Ensure, Start, goto
<1>5. ASSUME NEW p \in Importer, takeMemoryLock(p) PROVE InStep'
  BY <1>5 DEF takeMemoryLock, goto
<1>6. ASSUME NEW p \in Importer, awaitMemoryLock(p) PROVE InStep'
  BY <1>6 DEF awaitMemoryLock
<1>7. ASSUME NEW p \in Importer, giveUp(p) PROVE InStep'
  BY <1>7 DEF giveUp, goto
<1>8. ASSUME NEW p \in Importer, scanSources(p) PROVE InStep'
  BY <1>8 DEF scanSources, goto, importSourcePaths
<1>9. ASSUME NEW p \in Importer, replacePrimary(p) PROVE InStep'
  BY <1>9 DEF replacePrimary, goto
<1>10. ASSUME NEW p \in Importer, indexRead(p) PROVE InStep'
  BY <1>10 DEF indexRead, goto
<1>11. ASSUME NEW p \in Importer, indexWrite(p) PROVE InStep'
  BY <1>11 DEF indexWrite, goto
<1>12. ASSUME NEW p \in Importer, dropMemoryLock(p) PROVE InStep'
  BY <1>12 DEF dropMemoryLock, goto, Forget
<1>13. ASSUME NEW p \in Proc, statPrimary(p) PROVE InStep'
  BY <1>13 DEF statPrimary, goto
<1>14. ASSUME NEW p \in Proc, writeHeader(p) PROVE InStep'
  BY <1>14 DEF writeHeader, goto
<1>15. ASSUME NEW p \in Proc, mergeRead(p) PROVE InStep'
  BY <1>15 DEF mergeRead, goto
<1>16. ASSUME NEW p \in Proc, mergeWrite(p) PROVE InStep'
  BY <1>16 DEF mergeWrite, goto
<1>17. ASSUME NEW p \in Proc, ioError(p) PROVE InStep'
  BY <1>17 DEF ioError, goto, Forget, Fault
<1>18. ASSUME NEW p \in Proc, Crash(p) PROVE InStep'
  BY <1>18 DEF Crash, goto, Forget, Fault
<1>19. CASE UNCHANGED vars
  BY <1>19 DEF vars
<1> QED  BY <1>1, <1>2, <1>3, <1>4, <1>5, <1>6, <1>7, <1>8, <1>9, <1>10, <1>11,
       <1>12, <1>13, <1>14, <1>15, <1>16, <1>17, <1>18, <1>19 DEF Next, ImportStep,
       EnsureStep

-----------------------------------------------------------------------------
(* The theorems.                                                           *)

LEMMA InitInv == Init => Inv
<1> SUFFICES ASSUME Init PROVE Inv
  OBVIOUS
<1> USE SetAssumption, BoundAssumption DEF Init, Proc, Locked, Running, Ended
<1>1. TypeOK
  <2>1. pc \in [Proc -> Running \cup Ended] /\ tries \in [Importer -> 0..MaxAttempts]
    OBVIOUS
  <2>2. NothingSeen \in [b : SUBSET Source, n : SUBSET Note]
    BY DEF NothingSeen
  <2>3. seen \in [Importer -> [b : SUBSET Source, n : SUBSET Note]]
    BY <2>2
  <2>4. fresh \in [Importer -> SUBSET Source] /\ idx \in [Proc -> SUBSET Source]
    OBVIOUS
  <2> QED  BY <2>1, <2>3, <2>4 DEF TypeOK
<1>2. EnsurerPlaces /\ LockHeld /\ RacesSeen /\ NothingInNoFile /\ ImportView /\ InStep
  BY DEF EnsurerPlaces, LockHeld, RacesSeen, NothingInNoFile, ImportView, InStep
<1> QED  BY <1>1, <1>2 DEF Inv

THEOREM Invariance == Spec => []Inv
<1>1. Inv /\ [Next]_vars => Inv'
  BY StepTypeOK, StepEnsurerPlaces, StepLockHeld, StepRacesSeen,
     StepNothingInNoFile, StepImportView, StepInStep
  DEF Inv
<1> QED  BY InitInv, <1>1, PTL DEF Spec

\* Every variable keeps its type in every behaviour.
THEOREM TypeCorrect == Spec => []TypeOK
BY Invariance, PTL DEF Inv

\* Whenever nobody imports, MEMORY.md and the index list the same sources, if no
\* Ensure overlapped and nothing failed so far.
THEOREM IndexMatchesPrimaryHolds == Spec => []IndexMatchesPrimary
<1>1. Inv => IndexMatchesPrimary
  BY DEF Inv, InStep, IndexMatchesPrimary, Locked, Ended
<1> QED  BY Invariance, <1>1, PTL

\* Only these steps take anything out of MEMORY.md.
Writes ==
  \/ \E p \in Importer : replacePrimary(p)
  \/ \E p \in Proc : writeHeader(p) \/ ioError(p)

LEMMA OnlyWritersWrite ==
  [Next]_vars => Writes \/ (blocks' = blocks /\ notes \subseteq notes')
<1> SUFFICES ASSUME [Next]_vars, ~Writes PROVE blocks' = blocks /\ notes \subseteq notes'
  OBVIOUS
<1> USE DEF store
<1>1. ASSUME NEW s \in Source, NewSource(s) PROVE blocks' = blocks /\ notes \subseteq notes'
  BY <1>1 DEF NewSource
<1>2. ASSUME NEW n \in Note, AgentNote(n) PROVE blocks' = blocks /\ notes \subseteq notes'
  BY <1>2 DEF AgentNote
<1>3. ASSUME NEW p \in Importer, ImportExisting(p) PROVE blocks' = blocks /\ notes \subseteq notes'
  BY <1>3 DEF ImportExisting, Start
<1>4. ASSUME NEW p \in Ensurer, Ensure(p) PROVE blocks' = blocks /\ notes \subseteq notes'
  BY <1>4 DEF Ensure, Start
<1>5. ASSUME NEW p \in Importer, takeMemoryLock(p) PROVE blocks' = blocks /\ notes \subseteq notes'
  BY <1>5 DEF takeMemoryLock
<1>6. ASSUME NEW p \in Importer, awaitMemoryLock(p) PROVE blocks' = blocks /\ notes \subseteq notes'
  BY <1>6 DEF awaitMemoryLock
<1>7. ASSUME NEW p \in Importer, giveUp(p) PROVE blocks' = blocks /\ notes \subseteq notes'
  BY <1>7 DEF giveUp
<1>8. ASSUME NEW p \in Importer, scanSources(p) PROVE blocks' = blocks /\ notes \subseteq notes'
  BY <1>8 DEF scanSources
<1>9. ASSUME NEW p \in Importer, indexRead(p) PROVE blocks' = blocks /\ notes \subseteq notes'
  BY <1>9 DEF indexRead
<1>10. ASSUME NEW p \in Importer, indexWrite(p) PROVE blocks' = blocks /\ notes \subseteq notes'
  BY <1>10 DEF indexWrite
<1>11. ASSUME NEW p \in Importer, dropMemoryLock(p) PROVE blocks' = blocks /\ notes \subseteq notes'
  BY <1>11 DEF dropMemoryLock
<1>12. ASSUME NEW p \in Proc, statPrimary(p) PROVE blocks' = blocks /\ notes \subseteq notes'
  BY <1>12 DEF statPrimary
<1>13. ASSUME NEW p \in Proc, mergeRead(p) PROVE blocks' = blocks /\ notes \subseteq notes'
  BY <1>13 DEF mergeRead
<1>14. ASSUME NEW p \in Proc, mergeWrite(p) PROVE blocks' = blocks /\ notes \subseteq notes'
  BY <1>14 DEF mergeWrite
<1>15. ASSUME NEW p \in Proc, Crash(p) PROVE blocks' = blocks /\ notes \subseteq notes'
  BY <1>15 DEF Crash
<1>16. CASE UNCHANGED vars
  BY <1>16 DEF vars
<1> QED  BY <1>1, <1>2, <1>3, <1>4, <1>5, <1>6, <1>7, <1>8, <1>9, <1>10, <1>11,
       <1>12, <1>13, <1>14, <1>15, <1>16 DEF Next, ImportStep, EnsureStep, Writes

\* A replacement loses no block, and neither does an importer's header write.
KeepsBlocks == blocks \subseteq blocks' \/ HeaderWritten(Ensurer)

LEMMA StepKeepsBlocks == Inv /\ [Next]_vars => KeepsBlocks
<1> SUFFICES ASSUME TypeOK, EnsurerPlaces, ImportView, Writes PROVE KeepsBlocks
  BY OnlyWritersWrite DEF Inv, KeepsBlocks
<1> USE DEF TypeOK, ImportView, Proc, Running, Ended, Locked, HeaderWritten, KeepsBlocks
<1>1. ASSUME NEW p \in Importer, replacePrimary(p) PROVE KeepsBlocks
  BY <1>1 DEF replacePrimary
<1>2. ASSUME NEW p \in Proc, writeHeader(p) PROVE KeepsBlocks
  BY <1>2 DEF writeHeader, goto
<1>3. ASSUME NEW p \in Proc, ioError(p) PROVE KeepsBlocks
  BY <1>3 DEF ioError, goto, store
<1> QED  BY <1>1, <1>2, <1>3 DEF Writes

\* However imports overlap, die or fail: no step takes an imported block out of
\* MEMORY.md, except the header write of an Ensure, which runs without the lock.
THEOREM ImportKeepsBlocksHolds == Spec => ImportKeepsBlocks
BY Invariance, StepKeepsBlocks, PTL DEF Spec, ImportKeepsBlocks, KeepsBlocks

\* A note goes with a header write or with an import that had not read it.
KeepsSeenNotes ==
  \A n \in notes \ notes' :
    \/ HeaderWritten(Proc)
    \/ \E p \in Importer : pc[p] = "replace" /\ n \notin seen[p].n

LEMMA StepSeenNotes == Inv /\ [Next]_vars => KeepsSeenNotes
<1> SUFFICES ASSUME TypeOK, Writes PROVE KeepsSeenNotes
  BY OnlyWritersWrite DEF Inv, KeepsSeenNotes
<1> USE DEF TypeOK, Proc, Running, Ended, Locked, HeaderWritten, KeepsSeenNotes
<1>1. ASSUME NEW p \in Importer, replacePrimary(p) PROVE KeepsSeenNotes
  BY <1>1 DEF replacePrimary
<1>2. ASSUME NEW p \in Proc, writeHeader(p) PROVE KeepsSeenNotes
  BY <1>2 DEF writeHeader, goto
<1>3. ASSUME NEW p \in Proc, ioError(p) PROVE KeepsSeenNotes
  BY <1>3 DEF ioError, goto, store
<1> QED  BY <1>1, <1>2, <1>3 DEF Writes

\* Imports keep every note that they could see.
THEOREM SeenNotesSurviveHolds == Spec => SeenNotesSurvive
BY Invariance, StepSeenNotes, PTL DEF Spec, SeenNotesSurvive, KeepsSeenNotes

==============================================================================
