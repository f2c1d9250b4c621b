----------------------------- MODULE HookProofs -----------------------------
(***************************************************************************)
(* Hook processes with a file, a flock, crashes and errors implement the   *)
(* session record, whatever the sequences in it hold: what a process is    *)
(* about to rename into place is the record now on disk with its own event *)
(* applied, because it holds the flock from the read to the rename.  What  *)
(* the sequences do hold is then a matter of the record alone: every       *)
(* suggestion gets one outcome.  At the end, the decision of one hook: the *)
(* verdict is the configured one and stays.                                *)
(***************************************************************************)
EXTENDS HookSession, HookDecision, WellFoundedInduction, TLAPS

\* A record with its fields; what the sequences hold does not matter here.
Shaped(r) == r \in [pending : {r.pending}, attempted : {r.attempted},
                    subagents : Nat, relevant : BOOLEAN, batch : BOOLEAN]

Relevant(r) == r.batch \/ r.subagents > 0 => r.relevant

AtTransition == {"lockTransition", "readTransition", "writeTransition"}
AtCorrelate == {"lockCorrelate", "readCorrelate", "writeCorrelate"}

Slots ==
  /\ pc \in [Hook -> Place] /\ trace \in [Hook -> Nat]
  /\ DOMAIN event = Hook /\ DOMAIN next = Hook
  /\ DOMAIN found = Hook /\ DOMAIN told = Hook
  /\ started \in 0..MaxHooks /\ faults \in Nat

\* A process at work has an event and a trace.
HasTrace(h) == pc[h] # "idle" => event[h] \in Event /\ trace[h] \in 1..started

\* It visits the record only for what its event needs, and has no outcomes before
\* its second visit.
VisitIsDue(h) ==
  /\ pc[h] \in AtTransition \cup {"idle"} => found[h] = {}
  /\ pc[h] \in AtTransition => Session!lifecycleSessionEventRequiresState(event[h])
  /\ pc[h] \in AtCorrelate => Session!correlates(event[h])

FlockIsHeld(h) == pc[h] \in Holding => flock = h

\* What it is about to rename into place was computed from what is there.
NextIsFresh(h) ==
  /\ pc[h] = "writeTransition" =>
       /\ next[h] = Session!applyLifecycleSessionEvent(event[h], rec)
       /\ told[h] = Session!transitionOf(event[h], rec)
  /\ pc[h] = "writeCorrelate" =>
       LET done == Session!applyRemediationCorrelation(event[h], trace[h], rec)
       IN  next[h] = done.rec /\ found[h] = done.events

\* What it is about to report has been settled.
FoundIsSettled(h) == pc[h] = "writeTrace" => found[h] \subseteq settled

Sound(h) == /\ HasTrace(h) /\ VisitIsDue(h) /\ FlockIsHeld(h)
            /\ NextIsFresh(h) /\ FoundIsSettled(h)

TracesDiffer ==
  \A g, h \in Hook : pc[g] # "idle" /\ pc[h] # "idle" /\ trace[g] = trace[h] => g = h

RecordIsSound == Shaped(rec) /\ Relevant(rec) /\ evidence \subseteq settled

Inv == Slots /\ TracesDiffer /\ RecordIsSound /\ \A h \in Hook : Sound(h)

-----------------------------------------------------------------------------
(* The operators of the record.                                             *)

\* Changing one field of a record leaves the others.
LEMMA RelevantField ==
  ASSUME NEW r, Shaped(r), NEW v \in BOOLEAN
  PROVE  LET w == [r EXCEPT !.relevant = v]
         IN  Shaped(w) /\ w.relevant = v /\ w.batch = r.batch
             /\ w.subagents = r.subagents
BY DEF Shaped

LEMMA BatchField ==
  ASSUME NEW r, Shaped(r), NEW v \in BOOLEAN
  PROVE  LET w == [r EXCEPT !.batch = v]
         IN  Shaped(w) /\ w.relevant = r.relevant /\ w.batch = v
             /\ w.subagents = r.subagents
BY DEF Shaped

LEMMA SubagentsField ==
  ASSUME NEW r, Shaped(r), NEW v \in Nat
  PROVE  LET w == [r EXCEPT !.subagents = v]
         IN  Shaped(w) /\ w.relevant = r.relevant /\ w.batch = r.batch
             /\ w.subagents = v
BY DEF Shaped

LEMMA PendingField ==
  ASSUME NEW r, Shaped(r), NEW v
  PROVE  LET w == [r EXCEPT !.pending = v]
         IN  Shaped(w) /\ w.relevant = r.relevant /\ w.batch = r.batch
             /\ w.subagents = r.subagents
BY DEF Shaped

LEMMA AttemptedField ==
  ASSUME NEW r, Shaped(r), NEW v
  PROVE  LET w == [r EXCEPT !.attempted = v]
         IN  Shaped(w) /\ w.relevant = r.relevant /\ w.batch = r.batch
             /\ w.subagents = r.subagents
BY DEF Shaped

\* What an event does to the lifecycle part.
LEMMA TransitionKeeps ==
  ASSUME NEW e \in Event, NEW r, Shaped(r), Relevant(r)
  PROVE  LET w == Session!applyLifecycleSessionEvent(e, r)
         IN  /\ Shaped(w) /\ Relevant(w)
             /\ e.name = "PostToolBatch" => ~w.batch
             /\ e.name = "SubagentStop" /\ r.subagents > 0 =>
                  w.subagents = r.subagents - 1
             /\ /\ e.name = "SubagentStart"
                /\ r.relevant \/ Session!lifecycleEventRelevant(e)
                /\ e.empty \/ Session!lifecycleEventRelevant(e)
                => w.subagents = r.subagents + 1
<1> DEFINE q == Session!noteRelevance(e, r)
           w == Session!applyNoted(e, q)
           rel == r.relevant \/ Session!lifecycleEventRelevant(e)
<1>1. /\ e.files \in BOOLEAN /\ e.text \in BOOLEAN /\ e.rc \in BOOLEAN
      /\ e.edit \in BOOLEAN
  BY EventAssumption
<1>2. /\ r.relevant \in BOOLEAN /\ r.batch \in BOOLEAN /\ r.subagents \in Nat
      /\ rel \in BOOLEAN
  BY <1>1 DEF Shaped, Session!lifecycleEventRelevant
<1>3. q = [r EXCEPT !.relevant = rel]
  BY DEF Session!noteRelevance
<1>4. /\ Shaped(q) /\ q.relevant = rel /\ q.batch = r.batch
      /\ q.subagents = r.subagents /\ Relevant(q)
  <2> HIDE DEF rel, q
  <2>1. Shaped(q) /\ q.relevant = rel /\ q.batch = r.batch /\ q.subagents = r.subagents
    BY <1>2, <1>3, RelevantField
  <2> QED  BY <2>1 DEF Relevant, rel
<1> HIDE DEF q
<1> SUFFICES /\ Shaped(w) /\ Relevant(w)
             /\ e.name = "PostToolBatch" => ~w.batch
             /\ e.name = "SubagentStop" /\ r.subagents > 0 =>
                  w.subagents = r.subagents - 1
             /\ e.name = "SubagentStart" /\ rel
                /\ (e.empty \/ Session!lifecycleEventRelevant(e))
                => w.subagents = r.subagents + 1
  BY DEF Session!applyLifecycleSessionEvent, q
<1>5. CASE e.name = "PostToolUse"
  <2> DEFINE b == q.batch \/ Session!postToolBatchGuidanceRelevant(e, q.relevant)
  <2>1. b \in BOOLEAN /\ (b => q.batch \/ q.relevant)
    BY <1>1, <1>2, <1>4 DEF Session!postToolBatchGuidanceRelevant
  <2>2. w = [q EXCEPT !.batch = b]
    BY <1>5 DEF Session!applyNoted
  <2> HIDE DEF b, w
  <2>3. Shaped(w) /\ w.relevant = q.relevant /\ w.batch = b /\ w.subagents = q.subagents
    BY <1>4, <2>1, <2>2, BatchField
  <2> QED  BY <1>4, <1>5, <2>1, <2>3 DEF Relevant
<1>6. CASE e.name = "PostToolBatch"
  <2>1. w = [q EXCEPT !.batch = FALSE]
    BY <1>6 DEF Session!applyNoted
  <2> HIDE DEF w
  <2>2. Shaped(w) /\ w.relevant = q.relevant /\ ~w.batch /\ w.subagents = q.subagents
    BY <1>4, <2>1, BatchField
  <2> QED  BY <1>4, <1>6, <2>2 DEF Relevant
<1>7. CASE e.name = "SubagentStart"
  <2>1. CASE q.relevant /\ (e.empty \/ Session!lifecycleEventRelevant(e))
    <3>1. w = [q EXCEPT !.subagents = q.subagents + 1] /\ q.subagents + 1 \in Nat
      BY <1>2, <1>4, <1>7, <2>1 DEF Session!applyNoted
    <3> HIDE DEF w
    <3>2. /\ Shaped(w) /\ w.relevant = q.relevant /\ w.batch = q.batch
          /\ w.subagents = q.subagents + 1
      BY <1>4, <3>1, SubagentsField
    <3> QED  BY <1>4, <1>7, <2>1, <3>2 DEF Relevant
  <2>2. CASE ~(q.relevant /\ (e.empty \/ Session!lifecycleEventRelevant(e)))
    <3>1. w = q
      BY <1>7, <2>2 DEF Session!applyNoted
    <3> QED  BY <1>4, <1>7, <2>2, <3>1
  <2> QED  BY <2>1, <2>2
<1>8. CASE e.name = "SubagentStop"
  <2>1. CASE q.subagents > 0
    <3>1. w = [q EXCEPT !.subagents = q.subagents - 1] /\ q.subagents - 1 \in Nat
      BY <1>2, <1>4, <1>8, <2>1 DEF Session!applyNoted
    <3> HIDE DEF w
    <3>2. /\ Shaped(w) /\ w.relevant = q.relevant /\ w.batch = q.batch
          /\ w.subagents = q.subagents - 1
      BY <1>4, <3>1, SubagentsField
    <3> QED  BY <1>2, <1>4, <1>8, <2>1, <3>2 DEF Relevant
  <2>2. CASE ~(q.subagents > 0)
    <3>1. w = q
      BY <1>8, <2>2 DEF Session!applyNoted
    <3> QED  BY <1>4, <1>8, <2>2, <3>1
  <2> QED  BY <2>1, <2>2
<1>9. CASE e.name = "SessionEnd"
  <2> DEFINE q1 == [q EXCEPT !.relevant = FALSE]
             q2 == [q1 EXCEPT !.batch = FALSE]
  <2>1. w = [q2 EXCEPT !.subagents = 0]
    BY <1>9 DEF Session!applyNoted, Session!endSession
  <2>2. Shaped(q1)
    BY <1>4, RelevantField
  <2> HIDE DEF q1
  <2>3. Shaped(q2) /\ ~q2.batch
    BY <2>2, BatchField
  <2> HIDE DEF q2, w
  <2>4. Shaped(w) /\ ~w.batch /\ w.subagents = 0
    BY <2>1, <2>3, SubagentsField
  <2> QED  BY <1>9, <2>4 DEF Relevant
<1>10. CASE e.name \notin {"PostToolUse", "PostToolBatch", "SubagentStart",
                          "SubagentStop", "SessionEnd"}
  <2>1. w = q
    BY <1>10 DEF Session!applyNoted
  <2> QED  BY <1>4, <1>10, <2>1
<1> QED  BY <1>5, <1>6, <1>7, <1>8, <1>9, <1>10

\* A correlation only moves references.
LEMMA CorrelationKeeps ==
  ASSUME NEW e, NEW t, NEW r, Shaped(r), Relevant(r)
  PROVE  LET w == Session!applyRemediationCorrelation(e, t, r).rec
         IN  Shaped(w) /\ Relevant(w)
<1> DEFINE w == Session!applyRemediationCorrelation(e, t, r).rec
<1> SUFFICES w = r \/ \E p, a : \/ w = [r EXCEPT !.pending = p]
                                \/ w = [r EXCEPT !.attempted = a]
                                \/ w = [[r EXCEPT !.pending = p] EXCEPT !.attempted = a]
  <2>1. ASSUME NEW p, NEW a,
               \/ w = [r EXCEPT !.pending = p]
               \/ w = [r EXCEPT !.attempted = a]
               \/ w = [[r EXCEPT !.pending = p] EXCEPT !.attempted = a]
        PROVE  Shaped(w) /\ w.relevant = r.relevant /\ w.batch = r.batch
               /\ w.subagents = r.subagents
    <3> DEFINE q == [r EXCEPT !.pending = p]
    <3>1. Shaped(q) /\ q.relevant = r.relevant /\ q.batch = r.batch
          /\ q.subagents = r.subagents
      BY PendingField
    <3>2. w = q \/ w = [r EXCEPT !.attempted = a] \/ w = [q EXCEPT !.attempted = a]
      BY <2>1
    <3> HIDE DEF q, w
    <3>3. CASE w = q
      BY <3>1, <3>3
    <3>4. CASE w = [r EXCEPT !.attempted = a]
      BY <3>4, AttemptedField
    <3>5. CASE w = [q EXCEPT !.attempted = a]
      <4>1. Shaped(w) /\ w.relevant = q.relevant /\ w.batch = q.batch
            /\ w.subagents = q.subagents
        BY <3>1, <3>5, AttemptedField
      <4> QED  BY <3>1, <4>1
    <3> QED  BY <3>2, <3>3, <3>4, <3>5
  <2> HIDE DEF w
  <2>2. Shaped(w) /\ Relevant(w)
    BY <2>1 DEF Relevant
  <2> QED  BY <2>2 DEF w
<1>1. CASE e.rems # <<>>
  <2>1. PICK p, a : Session!correlateRepeatedRemediations(e, t, r).rec =
                      [r EXCEPT !.pending = p, !.attempted = a]
    BY DEF Session!correlateRepeatedRemediations
  <2> QED  BY <1>1, <2>1 DEF Session!applyRemediationCorrelation
<1>2. CASE e.rems = <<>> /\ ~e.blocked /\ e.name = "PreToolUse"
  <2>1. PICK p, a : Session!correlateRemediationAttempt(e, r).rec =
                      [r EXCEPT !.pending = p, !.attempted = a]
    BY DEF Session!correlateRemediationAttempt
  <2> QED  BY <1>2, <2>1 DEF Session!applyRemediationCorrelation
<1>3. CASE e.rems = <<>> /\ ~e.blocked /\ e.name = "PostToolUse"
  <2>1. PICK a : Session!correlateRemediationResult(e, r).rec = [r EXCEPT !.attempted = a]
    BY DEF Session!correlateRemediationResult
  <2> QED  BY <1>3, <2>1 DEF Session!applyRemediationCorrelation
<1>4. CASE e.rems = <<>> /\ ~e.blocked /\ e.name = "SessionEnd"
  <2>1. PICK p, a : Session!abandonPendingRemediations(r).rec =
                      [r EXCEPT !.pending = p, !.attempted = a]
    BY DEF Session!abandonPendingRemediations
  <2> QED  BY <1>4, <2>1 DEF Session!applyRemediationCorrelation
<1>5. CASE \/ e.rems = <<>> /\ e.blocked
           \/ /\ e.rems = <<>> /\ ~e.blocked
              /\ e.name \notin {"PreToolUse", "PostToolUse", "SessionEnd"}
  BY <1>5 DEF Session!applyRemediationCorrelation
<1> QED  BY <1>1, <1>2, <1>3, <1>4, <1>5

\* What a hook is told of the record it reads.
LEMMA ToldIsRead ==
  ASSUME NEW e \in Event, NEW r, Shaped(r)
  PROVE  LET w == Session!transitionOf(e, r)
             y == Session!lifecycleEventRelevant(e)
         IN  /\ w.batchReady => e.name = "PostToolBatch" /\ r.batch
             /\ w.stopped => e.name = "SubagentStop" /\ r.subagents > 0
             /\ w.started => e.name = "SubagentStart" /\ (r.relevant \/ y)
                             /\ (e.empty \/ y)
<1> DEFINE y == Session!lifecycleEventRelevant(e)
           b == e.name = "PostToolBatch" /\ r.batch
           p == e.name = "SubagentStop" /\ r.subagents > 0
           t == e.name = "SubagentStart" /\ (r.relevant \/ y) /\ (e.empty \/ y)
           w == Session!transitionOf(e, r)
<1>1. w = [relevant |-> r.relevant \/ y, batchReady |-> b, started |-> t, stopped |-> p]
  BY DEF Session!transitionOf
<1> HIDE DEF b, p, t, w
<1>2. w.batchReady = b /\ w.stopped = p /\ w.started = t
  BY <1>1
<1>3. (w.batchReady => b) /\ (w.stopped => p) /\ (w.started => t)
  BY <1>2, Zenon
<1> QED  BY <1>3 DEF b, p, t, w

-----------------------------------------------------------------------------
(* The steps.  Here the operators of the record stay unexpanded.            *)

LEMMA InitInv == Init => Inv
<1> SUFFICES ASSUME Init PROVE Inv
  OBVIOUS
<1>1. Slots /\ TracesDiffer /\ \A h \in Hook : Sound(h)
  BY BoundAssumption DEF Init, Slots, TracesDiffer, Sound, HasTrace, VisitIsDue,
     FlockIsHeld, NextIsFresh, FoundIsSettled, Place, Entering, Holding, Reading, Writing,
     AtTransition, AtCorrelate
<1>2. RecordIsSound
  BY DEF Init, RecordIsSound, Shaped, Relevant, Session!EmptyRecord
<1> QED  BY <1>1, <1>2 DEF Inv

\* The variables of every slot but h stay.
OthersStay(h) ==
  \A g \in Hook \ {h} :
    /\ pc'[g] = pc[g] /\ event'[g] = event[g] /\ trace'[g] = trace[g]
    /\ next'[g] = next[g] /\ found'[g] = found[g] /\ told'[g] = told[g]

\* A step of one process that does not take another's flock or change the record
\* without the flock disturbs no other process.
LEMMA OneProcess ==
  ASSUME Inv, NEW h \in Hook, OthersStay(h), Slots', RecordIsSound', Sound(h)',
         started <= started', settled \subseteq settled',
         flock' = flock \/ flock \in {h, "Nobody"},
         rec' = rec \/ flock = h,
         pc'[h] # "idle" =>
           \/ pc[h] # "idle" /\ trace'[h] = trace[h]
           \/ trace'[h] = started + 1
  PROVE  Inv'
<1>1. ASSUME NEW g \in Hook, g # h PROVE Sound(g)'
  <2> USE <1>1 DEF OthersStay
  <2>1. Sound(g) /\ started \in Nat /\ started' \in Nat
    BY DEF Inv, Slots
  <2>2. HasTrace(g)' /\ VisitIsDue(g)' /\ FoundIsSettled(g)'
    BY <2>1 DEF Sound, HasTrace, VisitIsDue, FoundIsSettled
  <2>3. FlockIsHeld(g)'
    BY <2>1, HookAssumption DEF Sound, FlockIsHeld
  <2>4. pc[g] \in Writing => rec' = rec
    BY <2>1 DEF Sound, FlockIsHeld, Holding
  <2>5. NextIsFresh(g)'
    BY <2>1, <2>4 DEF Sound, NextIsFresh, Writing
  <2> QED  BY <2>2, <2>3, <2>5 DEF Sound
<1>2. TracesDiffer'
  <2>1. ASSUME NEW g \in Hook, g # h, pc[g] # "idle" PROVE trace[g] \in 1..started
    BY <2>1 DEF Inv, Sound, HasTrace
  <2>2. ASSUME NEW g \in Hook, g # h, pc[g] # "idle", pc'[h] # "idle"
        PROVE  trace'[g] # trace'[h]
    BY <2>1, <2>2 DEF Inv, Slots, TracesDiffer, OthersStay
  <2> QED  BY <2>2 DEF Inv, TracesDiffer, OthersStay
<1> QED  BY <1>1, <1>2 DEF Inv

\* A process that starts takes a new trace.
LEMMA StartKeeps ==
  ASSUME Inv, NEW h \in Hook, NEW e \in Event, StartHook(h, e)
  PROVE  Inv'
<1>1. /\ pc[h] = "idle" /\ started < MaxHooks /\ started' = started + 1
      /\ event' = [event EXCEPT ![h] = e]
      /\ trace' = [trace EXCEPT ![h] = started + 1]
      /\ UNCHANGED <<rec, settled, evidence, flock, next, found, faults>>
  BY DEF StartHook, file
<1>2. PICK place :
        /\ pc' = [pc EXCEPT ![h] = place]
        /\ \/ place = "lockTransition" /\ Session!lifecycleSessionEventRequiresState(e)
           \/ place = "lockCorrelate" /\ Session!correlates(e)
           \/ place = "writeTrace"
  BY DEF StartHook, goto, afterTransition
<1>3. DOMAIN told' = Hook /\ \A g \in Hook \ {h} : told'[g] = told[g]
  BY DEF StartHook, Inv, Slots
<1>4. Slots' /\ OthersStay(h)
  BY <1>1, <1>2, <1>3, BoundAssumption DEF Inv, Slots, OthersStay, Place, Entering
<1>5. /\ pc'[h] = place /\ event'[h] = e /\ trace'[h] = started + 1 /\ found'[h] = {}
      /\ started \in Nat
  BY <1>1, <1>2 DEF Inv, Slots, Sound, VisitIsDue
<1>6. Sound(h)'
  BY <1>1, <1>2, <1>5 DEF Sound, HasTrace, VisitIsDue, FlockIsHeld, NextIsFresh,
     FoundIsSettled, Holding, Reading, Writing, AtTransition, AtCorrelate
<1>7. RecordIsSound'
  BY <1>1 DEF Inv, RecordIsSound, Shaped, Relevant
<1> QED  BY <1>1, <1>4, <1>5, <1>6, <1>7, OneProcess

\* The flock is taken when it is free.
LEMMA LockKeeps ==
  ASSUME Inv, NEW h \in Hook, lockRecord(h)
  PROVE  Inv'
<1>1. /\ flock = "Nobody" /\ flock' = h
      /\ UNCHANGED <<rec, settled, evidence, event, trace, next, found, told, started,
                     faults>>
      /\ \/ pc[h] = "lockTransition" /\ pc' = [pc EXCEPT ![h] = "readTransition"]
         \/ pc[h] = "lockCorrelate" /\ pc' = [pc EXCEPT ![h] = "readCorrelate"]
  BY DEF lockRecord, file, local, goto, Entering
<1>2. Slots' /\ OthersStay(h) /\ RecordIsSound'
  BY <1>1 DEF Inv, Slots, OthersStay, Place, Holding, Reading, RecordIsSound, Shaped,
     Relevant
<1>3. /\ pc[h] # "idle" /\ pc'[h] # "idle" /\ started <= started'
      /\ Sound(h)'
  BY <1>1 DEF Inv, Slots, Sound, HasTrace, VisitIsDue, FlockIsHeld, NextIsFresh,
     FoundIsSettled, Holding, Reading, Writing, AtTransition, AtCorrelate
<1> QED  BY <1>1, <1>2, <1>3, OneProcess

\* The event is applied to the record that was read under the flock.
LEMMA ReadKeeps ==
  ASSUME Inv, NEW h \in Hook, readTransition(h) \/ readCorrelate(h)
  PROVE  Inv'
<1>1. /\ UNCHANGED <<rec, settled, evidence, flock, event, trace, started, faults>>
      /\ pc[h] \in Reading /\ flock = h
      /\ DOMAIN next' = Hook /\ DOMAIN found' = Hook /\ DOMAIN told' = Hook
      /\ \A g \in Hook \ {h} :
           next'[g] = next[g] /\ found'[g] = found[g] /\ told'[g] = told[g]
  BY DEF readTransition, readCorrelate, file, Inv, Slots, Sound, FlockIsHeld, Reading,
     Holding
<1>2. \/ /\ pc[h] = "readTransition" /\ pc' = [pc EXCEPT ![h] = "writeTransition"]
         /\ next'[h] = Session!applyLifecycleSessionEvent(event[h], rec)
         /\ told'[h] = Session!transitionOf(event[h], rec)
         /\ found'[h] = found[h]
      \/ /\ pc[h] = "readCorrelate" /\ pc' = [pc EXCEPT ![h] = "writeCorrelate"]
         /\ LET done == Session!applyRemediationCorrelation(event[h], trace[h], rec)
            IN  next'[h] = done.rec /\ found'[h] = done.events
  BY DEF readTransition, readCorrelate, goto, Inv, Slots
<1>3. Slots' /\ OthersStay(h) /\ RecordIsSound'
  BY <1>1, <1>2 DEF Inv, Slots, OthersStay, Place, Holding, Writing, RecordIsSound,
     Shaped, Relevant
<1>4. /\ pc[h] # "idle" /\ pc'[h] # "idle" /\ started <= started'
      /\ pc'[h] \in Writing
  BY <1>1, <1>2 DEF Inv, Slots, Reading, Writing
<1>5. Sound(h)'
  <2>1. HasTrace(h)' /\ FlockIsHeld(h)' /\ FoundIsSettled(h)'
    BY <1>1, <1>4 DEF Inv, Sound, HasTrace, FlockIsHeld, FoundIsSettled, Writing
  <2>2. VisitIsDue(h)'
    BY <1>1, <1>2 DEF Inv, Slots, Sound, VisitIsDue, AtTransition, AtCorrelate
  <2>3. NextIsFresh(h)'
    BY <1>1, <1>2 DEF Inv, Slots, NextIsFresh
  <2> QED  BY <2>1, <2>2, <2>3 DEF Sound
<1> QED  BY <1>1, <1>3, <1>4, <1>5, OneProcess

\* The record on disk becomes the one with the event applied.
LEMMA WriteTransitionKeeps ==
  ASSUME Inv, NEW h \in Hook, pc[h] = "writeTransition", rec' = next[h],
         pc' = [pc EXCEPT ![h] = afterTransition(event[h])],
         DOMAIN told' = Hook, \A g \in Hook \ {h} : told'[g] = told[g],
         faults' \in Nat,
         written(h), flock' = "Nobody",
         UNCHANGED <<settled, evidence, event, trace, found, started>>
  PROVE  Inv'
<1>1. /\ flock = h /\ found[h] = {}
      /\ event[h] \in Event
      /\ rec' = Session!applyLifecycleSessionEvent(event[h], rec)
  BY DEF Inv, Sound, HasTrace, FlockIsHeld, NextIsFresh, VisitIsDue, Holding, Writing,
     AtTransition
<1>2. RecordIsSound'
  <2>1. Shaped(rec') /\ Relevant(rec')
    BY <1>1, TransitionKeeps DEF Inv, RecordIsSound
  <2> QED  BY <2>1 DEF Inv, RecordIsSound, Shaped, Relevant
<1>3. \/ pc'[h] = "lockCorrelate" /\ Session!correlates(event[h])
      \/ pc'[h] = "writeTrace"
  BY DEF afterTransition, Inv, Slots
<1>4. Slots' /\ OthersStay(h)
  BY <1>3 DEF Inv, Slots, OthersStay, written, Place, Entering, afterTransition
<1>5. Sound(h)'
  BY <1>1, <1>3 DEF Inv, Sound, HasTrace, VisitIsDue, FlockIsHeld, NextIsFresh,
     FoundIsSettled, Holding, Reading, Writing, AtTransition, AtCorrelate
<1>6. pc[h] # "idle" /\ started <= started'
  BY DEF Inv, Slots
<1> QED  BY <1>1, <1>2, <1>4, <1>5, <1>6, OneProcess

\* ... or the one with the remediations moved, and their outcomes are settled.
LEMMA WriteCorrelateKeeps ==
  ASSUME Inv, NEW h \in Hook, pc[h] = "writeCorrelate", rec' = next[h],
         settled' = settled \cup found[h],
         pc' = [pc EXCEPT ![h] = "writeTrace"],
         faults' \in Nat,
         written(h), flock' = "Nobody",
         \/ found' = found
         \/ found' = [found EXCEPT ![h] = {}],
         UNCHANGED <<evidence, event, trace, told, started>>
  PROVE  Inv'
<1>1. /\ flock = h
      /\ rec' = Session!applyRemediationCorrelation(event[h], trace[h], rec).rec
  BY DEF Inv, Sound, FlockIsHeld, NextIsFresh, Holding, Writing
<1>2. RecordIsSound'
  <2>1. Shaped(rec') /\ Relevant(rec')
    BY <1>1, CorrelationKeeps DEF Inv, RecordIsSound
  <2> QED  BY <2>1 DEF Inv, RecordIsSound, Shaped, Relevant
<1>3. Slots' /\ OthersStay(h)
  BY DEF Inv, Slots, OthersStay, written, Place
<1>4. pc'[h] = "writeTrace" /\ found'[h] \subseteq settled'
  BY DEF Inv, Slots
<1>5. Sound(h)'
  BY <1>4 DEF Inv, Sound, HasTrace, VisitIsDue, FlockIsHeld, NextIsFresh,
     FoundIsSettled, Holding, Reading, Writing, AtTransition, AtCorrelate
<1>6. pc[h] # "idle" /\ started <= started'
  BY DEF Inv, Slots
<1> QED  BY <1>1, <1>2, <1>3, <1>5, <1>6, OneProcess

\* A process that ends, or dies, leaves the record and drops its flock.
LEMMA EndKeeps ==
  ASSUME Inv, NEW h \in Hook, pc[h] # "idle",
         pc' = [pc EXCEPT ![h] = "idle"], Forget(h),
         evidence' \subseteq settled, faults' \in Nat,
         flock' = flock \/ (flock' = "Nobody" /\ flock = h),
         UNCHANGED <<rec, settled, started>>
  PROVE  Inv'
<1>1. Slots' /\ OthersStay(h)
  BY DEF Inv, Slots, OthersStay, Forget, Place
<1>2. RecordIsSound'
  BY DEF Inv, RecordIsSound, Shaped, Relevant
<1>3. pc'[h] = "idle" /\ found'[h] = {} /\ started <= started'
  BY DEF Inv, Slots, Forget
<1>4. Sound(h)'
  BY <1>3 DEF Sound, HasTrace, VisitIsDue, FlockIsHeld, NextIsFresh,
     FoundIsSettled, Holding, Reading, Writing, AtTransition, AtCorrelate
<1> QED  BY <1>1, <1>2, <1>3, <1>4, OneProcess

\* Without the record a hook goes on, if it was in its first visit to the second.
LEMMA FailedVisitKeeps ==
  ASSUME Inv, NEW h \in Hook, pc[h] \in Entering \cup Holding,
         \/ /\ pc[h] \in AtTransition /\ UNCHANGED found
            /\ pc' = [pc EXCEPT ![h] = afterTransition(event[h])]
         \/ /\ found' = [found EXCEPT ![h] = {}]
            /\ pc' = [pc EXCEPT ![h] = "writeTrace"],
         DOMAIN told' = Hook, \A g \in Hook \ {h} : told'[g] = told[g],
         flock' = flock \/ (flock' = "Nobody" /\ flock = h),
         written(h), faults' \in Nat,
         UNCHANGED <<rec, settled, evidence, event, trace, started>>
  PROVE  Inv'
<1>1. /\ found'[h] = {} /\ pc[h] # "idle"
      /\ \/ pc'[h] = "lockCorrelate" /\ Session!correlates(event[h])
         \/ pc'[h] = "writeTrace"
  BY DEF afterTransition, Inv, Slots, Sound, VisitIsDue, Entering, Holding, Reading, Writing
<1>2. OthersStay(h) /\ DOMAIN found' = Hook
  BY DEF Inv, Slots, OthersStay, written
<1>3. Slots'
  BY <1>1, <1>2 DEF Inv, Slots, written, Place, Entering
<1>4. RecordIsSound'
  BY DEF Inv, RecordIsSound, Shaped, Relevant
<1>5. Sound(h)' /\ started <= started'
  BY <1>1 DEF Inv, Slots, Sound, HasTrace, VisitIsDue, FlockIsHeld, NextIsFresh,
     FoundIsSettled, Holding, Reading, Writing, AtTransition, AtCorrelate
<1> QED  BY <1>1, <1>2, <1>3, <1>4, <1>5, OneProcess

\* What an error leaves of a visit: nothing, or the record in place.
LEMMA ErrorCases ==
  ASSUME Inv, NEW h \in Hook, recordError(h)
  PROVE  /\ pc[h] \in Entering \cup Holding /\ pc[h] # "idle"
         /\ written(h) /\ faults' \in Nat /\ faults' # faults
         /\ UNCHANGED <<evidence, event, trace, started>>
         /\ flock' = flock \/ (flock' = "Nobody" /\ flock = h)
         /\ DOMAIN told' = Hook /\ \A g \in Hook \ {h} : told'[g] = told[g]
         /\ \/ /\ pc[h] \in AtTransition /\ UNCHANGED found
               /\ pc' = [pc EXCEPT ![h] = afterTransition(event[h])]
            \/ /\ pc[h] \in AtCorrelate /\ UNCHANGED told
               /\ found' = [found EXCEPT ![h] = {}]
               /\ pc' = [pc EXCEPT ![h] = "writeTrace"]
         /\ \/ UNCHANGED <<rec, settled>>
            \/ /\ pc[h] = "writeTransition" /\ rec' = next[h] /\ UNCHANGED settled
               /\ flock' = "Nobody"
            \/ /\ pc[h] = "writeCorrelate" /\ rec' = next[h]
               /\ settled' = settled \cup found[h] /\ flock' = "Nobody"
<1>1. /\ pc[h] \in AtTransition \cup AtCorrelate
      /\ pc[h] \in AtTransition <=>
           pc[h] \in {"lockTransition", "readTransition", "writeTransition"}
      /\ pc[h] \notin AtTransition \/ pc[h] \notin AtCorrelate
      /\ pc[h] \in Entering \cup Holding /\ pc[h] # "idle"
  BY DEF recordError, Entering, Holding, Reading, Writing, AtTransition, AtCorrelate
<1>2. /\ written(h) /\ faults' \in Nat /\ faults' # faults
      /\ UNCHANGED <<evidence, event, trace, started>>
      /\ flock' = IF flock = h THEN "Nobody" ELSE flock
  BY DEF recordError, Fault, Inv, Slots
<1>3. DOMAIN told' = Hook /\ \A g \in Hook \ {h} : told'[g] = told[g]
  BY DEF recordError, Inv, Slots
<1>4. \/ /\ pc[h] \in AtTransition /\ UNCHANGED found
         /\ pc' = [pc EXCEPT ![h] = afterTransition(event[h])]
      \/ /\ pc[h] \in AtCorrelate /\ UNCHANGED told
         /\ found' = [found EXCEPT ![h] = {}]
         /\ pc' = [pc EXCEPT ![h] = "writeTrace"]
  BY <1>1 DEF recordError, goto
<1>5. \/ UNCHANGED <<rec, settled>>
      \/ /\ pc[h] = "writeTransition" /\ rec' = next[h] /\ UNCHANGED settled
         /\ flock' = "Nobody"
      \/ /\ pc[h] = "writeCorrelate" /\ rec' = next[h]
         /\ settled' = settled \cup found[h] /\ flock' = "Nobody"
  <2>1. CASE UNCHANGED file
    BY <2>1 DEF file
  <2>2. CASE /\ pc[h] \in Writing /\ rec' = next[h] /\ settled' = settled \cup found[h]
    <3>1. flock = h
      BY <2>2 DEF Inv, Sound, FlockIsHeld, Holding
    <3>2. pc[h] = "writeTransition" => found[h] = {}
      BY DEF Inv, Sound, VisitIsDue, AtTransition
    <3> QED  BY <1>2, <2>2, <3>1, <3>2 DEF Writing
  <2> QED  BY <2>1, <2>2 DEF recordError
<1> QED  BY <1>1, <1>2, <1>3, <1>4, <1>5

LEMMA ErrorKeeps ==
  ASSUME Inv, NEW h \in Hook, recordError(h)
  PROVE  Inv'
<1> USE ErrorCases
<1>1. CASE UNCHANGED <<rec, settled>>
  BY <1>1, FailedVisitKeeps
<1>2. CASE /\ pc[h] = "writeTransition" /\ rec' = next[h] /\ UNCHANGED settled
           /\ flock' = "Nobody"
  BY <1>2, WriteTransitionKeeps DEF AtCorrelate
<1>3. CASE /\ pc[h] = "writeCorrelate" /\ rec' = next[h]
           /\ settled' = settled \cup found[h] /\ flock' = "Nobody"
  BY <1>3, WriteCorrelateKeeps DEF AtTransition
<1> QED  BY <1>1, <1>2, <1>3

LEMMA NextKeeps == Inv /\ [Next]_vars => Inv'
<1> SUFFICES ASSUME Inv, [Next]_vars PROVE Inv'
  OBVIOUS
<1>0. faults \in Nat
  BY DEF Inv, Slots
<1>1. CASE UNCHANGED vars
  BY <1>1 DEF vars, file, local, Inv, Slots, TracesDiffer, RecordIsSound, Shaped, Relevant,
     Sound, HasTrace, VisitIsDue, FlockIsHeld, NextIsFresh, FoundIsSettled
<1>2. ASSUME NEW h \in Hook, NEW e \in Event, StartHook(h, e) PROVE Inv'
  BY <1>2, StartKeeps
<1>3. ASSUME NEW h \in Hook, Step(h) PROVE Inv'
  <2>1. CASE lockRecord(h)
    BY <2>1, LockKeeps
  <2>2. CASE readTransition(h) \/ readCorrelate(h)
    BY <2>2, ReadKeeps
  <2>3. CASE writeTransition(h)
    <3>1. DOMAIN told' = Hook /\ \A g \in Hook \ {h} : told'[g] = told[g]
      BY <2>3 DEF writeTransition, Inv, Slots
    <3> QED  BY <1>0, <2>3, <3>1, WriteTransitionKeeps DEF writeTransition, goto
  <2>4. CASE writeCorrelate(h)
    BY <1>0, <2>4, WriteCorrelateKeeps DEF writeCorrelate, goto
  <2>5. CASE writeTrace(h)
    <3>1. evidence' \subseteq settled
      BY <2>5 DEF writeTrace, Inv, RecordIsSound, Sound, FoundIsSettled
    <3> QED  BY <1>0, <2>5, <3>1, EndKeeps DEF writeTrace, goto, file
  <2> QED  BY <1>3, <2>1, <2>2, <2>3, <2>4, <2>5 DEF Step
<1>4. ASSUME NEW h \in Hook, recordError(h) PROVE Inv'
  BY <1>4, ErrorKeeps
<1>5. ASSUME NEW h \in Hook, Crash(h) PROVE Inv'
  <2>1. evidence' \subseteq settled /\ faults' \in Nat
    BY <1>0, <1>5 DEF Crash, Fault, Inv, RecordIsSound
  <2> QED  BY <1>5, <2>1, EndKeeps DEF Crash, goto, file
<1> QED  BY <1>1, <1>2, <1>3, <1>4, <1>5 DEF Next

LEMMA Invariance == Spec => []Inv
BY InitInv, NextKeeps, PTL DEF Spec

-----------------------------------------------------------------------------
\* Whatever events of an ended session arrive late, a batch that waits for its
\* guidance or an open subagent belongs to a session known to be about code.
THEOREM PendingWorkIsRelevantHolds == Spec => []PendingWorkIsRelevant
<1>1. Inv => PendingWorkIsRelevant
  BY DEF Inv, RecordIsSound, Relevant, PendingWorkIsRelevant,
     Session!PendingWorkIsRelevant
<1> QED  BY Invariance, <1>1, PTL

\* What a hook was told is what its rename does to the record: the record is still
\* the one the hook has read.
THEOREM GuidanceOnceHolds == Spec => GuidanceOnce
<1> DEFINE Given(h) ==
      pc[h] = "writeTransition" /\ pc'[h] # pc[h] /\ faults' = faults =>
        /\ told[h].batchReady => rec.batch /\ ~rec'.batch
        /\ told[h].stopped => rec'.subagents = rec.subagents - 1
        /\ told[h].started => rec'.subagents = rec.subagents + 1
<1>1. ASSUME Inv, NEW h \in Hook, pc[h] = "writeTransition", rec' = next[h]
      PROVE  Given(h)
  <2>1. /\ told[h] = Session!transitionOf(event[h], rec)
        /\ rec' = Session!applyLifecycleSessionEvent(event[h], rec)
        /\ event[h] \in Event /\ Shaped(rec) /\ Relevant(rec)
    BY <1>1 DEF Inv, RecordIsSound, Sound, HasTrace, NextIsFresh
  <2> DEFINE e == event[h]
             y == Session!lifecycleEventRelevant(e)
  <2> DEFINE w == Session!transitionOf(e, rec)
  <2>2. /\ w.batchReady => e.name = "PostToolBatch" /\ rec.batch
        /\ w.stopped => e.name = "SubagentStop" /\ rec.subagents > 0
        /\ w.started => e.name = "SubagentStart" /\ (rec.relevant \/ y)
                        /\ (e.empty \/ y)
    BY <2>1, ToldIsRead
  <2>3. /\ e.name = "PostToolBatch" => ~rec'.batch
        /\ e.name = "SubagentStop" /\ rec.subagents > 0 =>
             rec'.subagents = rec.subagents - 1
        /\ e.name = "SubagentStart" /\ (rec.relevant \/ y) /\ (e.empty \/ y) =>
             rec'.subagents = rec.subagents + 1
    BY <2>1, TransitionKeeps
  <2>4. told[h] = w
    BY <2>1
  <2> HIDE DEF w, y
  <2> QED  BY <2>2, <2>3, <2>4
<1>2. ASSUME Inv, Next, NEW g \in Hook PROVE Given(g)
  <2>1. PICK h \in Hook : \/ \E e \in Event : StartHook(h, e)
                          \/ Step(h) \/ recordError(h) \/ Crash(h)
    BY <1>2 DEF Next
  <2>2. CASE h # g
    <3>1. \E place : pc' = [pc EXCEPT ![h] = place]
      BY <2>1 DEF StartHook, Step, lockRecord, readTransition, readCorrelate,
         writeTransition, writeCorrelate, writeTrace, recordError, Crash, goto
    <3> QED  BY <1>2, <2>2, <3>1 DEF Inv, Slots
  <2>3. CASE h = g /\ writeTransition(h)
    BY <1>1, <1>2, <2>3 DEF writeTransition
  <2>4. CASE h = g /\ (recordError(h) \/ Crash(h))
    BY <1>2, <2>4 DEF recordError, Crash, Fault, Inv, Slots
  <2>5. CASE h = g /\ ~writeTransition(h) /\ ~recordError(h) /\ ~Crash(h)
    BY <2>1, <2>5 DEF StartHook, Step, lockRecord, readTransition, readCorrelate,
       writeCorrelate, writeTrace, Entering
  <2> QED  BY <2>2, <2>3, <2>4, <2>5
<1>3. Inv /\ [Next]_vars => [\A h \in Hook : Given(h)]_vars
  BY <1>2
<1> QED  BY Invariance, <1>3, PTL DEF Spec, GuidanceOnce

-----------------------------------------------------------------------------
(* The refinement.  A process is open while it may still come to the record;  *)
(* what is over is its trace's.                                               *)

Open(place) == place \notin {"idle", "writeTrace"}

LEMMA OpenTrace ==
  ASSUME Inv, NEW h \in Hook, Open(pc[h])
  PROVE  trace[h] \in 1..MaxHooks /\ trace[h] \notin past
<1>1. trace[h] \in 1..started /\ started \in 0..MaxHooks /\ MaxHooks \in Nat
  BY BoundAssumption DEF Inv, Slots, Sound, HasTrace, Open
<1>2. trace[h] \notin past
  BY DEF past, Open
<1> QED  BY <1>1, <1>2

\* A process takes its trace out of the open ones when it closes, and only then.
LEMMA PastMoves ==
  ASSUME Inv, NEW h \in Hook, OthersStay(h), started' = started,
         Open(pc'[h]) => Open(pc[h]) /\ trace'[h] = trace[h]
  PROVE  past' = IF Open(pc[h]) /\ ~Open(pc'[h]) THEN past \cup {trace[h]} ELSE past
<1> DEFINE opened == {trace[g] : g \in {f \in Hook : Open(pc[f])}}
           stays == {trace'[g] : g \in {f \in Hook : Open(pc'[f])}}
<1>1. past = (1..started) \ opened /\ past' = (1..started) \ stays
  BY DEF past, Open
<1>2. ASSUME NEW g \in Hook, g # h PROVE trace'[g] = trace[g] /\ pc'[g] = pc[g]
  BY <1>2 DEF OthersStay
<1>3. CASE Open(pc[h]) /\ ~Open(pc'[h])
  <2>1. stays = opened \ {trace[h]}
    <3>1. ASSUME NEW g \in Hook, g # h, Open(pc[g]) PROVE trace[g] # trace[h]
      BY <1>3, <3>1 DEF Inv, TracesDiffer, Open
    <3> QED  BY <1>2, <1>3, <3>1
  <2>2. trace[h] \in 1..started
    BY <1>3 DEF Inv, Sound, HasTrace, Open
  <2> QED  BY <1>1, <1>3, <2>1, <2>2
<1>4. CASE ~(Open(pc[h]) /\ ~Open(pc'[h]))
  <2>1. stays = opened
    BY <1>2, <1>4
  <2> QED  BY <1>1, <1>4, <2>1
<1> QED  BY <1>3, <1>4

\* A process that starts brings a new trace, which is over at once when its event
\* has nothing for the record.
LEMMA StartRefines ==
  ASSUME Inv, NEW h \in Hook, NEW e \in Event, StartHook(h, e)
  PROVE  \/ Session!Drop(started + 1) /\ started + 1 \in 1..MaxHooks
         \/ UNCHANGED <<rec, settled, past>>
<1> DEFINE opened == {trace[g] : g \in {f \in Hook : Open(pc[f])}}
           stays == {trace'[g] : g \in {f \in Hook : Open(pc'[f])}}
<1>1. /\ pc[h] = "idle" /\ started' = started + 1 /\ started < MaxHooks
      /\ trace'[h] = started + 1 /\ UNCHANGED <<rec, settled>>
      /\ \A g \in Hook \ {h} : trace'[g] = trace[g] /\ pc'[g] = pc[g]
      /\ started \in Nat /\ MaxHooks \in Nat
  BY BoundAssumption DEF StartHook, goto, file, Inv, Slots
<1>2. past = (1..started) \ opened /\ past' = (1..(started + 1)) \ stays
  BY <1>1 DEF past, Open
<1>3. opened \subseteq 1..started
  BY DEF Inv, Sound, HasTrace, Open
<1>4. 1..(started + 1) = (1..started) \cup {started + 1} /\ started + 1 \notin 1..started
  BY <1>1
<1>5. CASE Open(pc'[h])
  <2>1. stays = opened \cup {started + 1}
    BY <1>1, <1>5 DEF Open
  <2> QED  BY <1>1, <1>2, <1>3, <1>4, <2>1
<1>6. CASE ~Open(pc'[h])
  <2>1. stays = opened
    BY <1>1, <1>6 DEF Open
  <2>2. past' = past \cup {started + 1} /\ started + 1 \notin past
    BY <1>2, <1>3, <1>4, <2>1
  <2> QED  BY <1>1, <2>2 DEF Session!Drop
<1> QED  BY <1>5, <1>6

\* The rename is the step of the record: the transition ...
LEMMA TransitionRefines ==
  ASSUME Inv, NEW h \in Hook, OthersStay(h), started' = started,
         pc[h] = "writeTransition", pc'[h] = afterTransition(event[h]),
         rec' = next[h], UNCHANGED <<settled, trace>>
  PROVE  /\ Session!Transition(event[h], trace[h])
         /\ event[h] \in Event /\ trace[h] \in 1..MaxHooks
<1>1. Open(pc[h]) /\ (Open(pc'[h]) <=> Session!correlates(event[h]))
  BY DEF Open, afterTransition
<1>2. past' = IF Session!correlates(event[h]) THEN past ELSE past \cup {trace[h]}
  BY <1>1, PastMoves
<1>3. /\ rec' = Session!applyLifecycleSessionEvent(event[h], rec)
      /\ Session!lifecycleSessionEventRequiresState(event[h]) /\ event[h] \in Event
  BY DEF Inv, Sound, HasTrace, NextIsFresh, VisitIsDue, AtTransition
<1>4. trace[h] \in 1..MaxHooks /\ trace[h] \notin past
  BY <1>1, OpenTrace
<1> QED  BY <1>2, <1>3, <1>4 DEF Session!Transition

\* ... and the correlation.
LEMMA CorrelateRefines ==
  ASSUME Inv, NEW h \in Hook, OthersStay(h), started' = started,
         pc[h] = "writeCorrelate", pc'[h] = "writeTrace",
         rec' = next[h], settled' = settled \cup found[h], UNCHANGED trace
  PROVE  /\ Session!Correlate(event[h], trace[h])
         /\ event[h] \in Event /\ trace[h] \in 1..MaxHooks
<1>1. Open(pc[h]) /\ ~Open(pc'[h])
  BY DEF Open
<1>2. past' = past \cup {trace[h]}
  BY <1>1, PastMoves
<1>3. /\ LET done == Session!applyRemediationCorrelation(event[h], trace[h], rec)
         IN  next[h] = done.rec /\ found[h] = done.events
      /\ Session!correlates(event[h]) /\ event[h] \in Event
  BY DEF Inv, Sound, HasTrace, NextIsFresh, VisitIsDue, AtCorrelate
<1>4. trace[h] \in 1..MaxHooks /\ trace[h] \notin past
  BY <1>1, OpenTrace
<1> QED  BY <1>2, <1>3, <1>4 DEF Session!Correlate

\* A process that does not touch the file is over for the record, or goes on.
LEMMA QuietRefines ==
  ASSUME Inv, NEW h \in Hook, OthersStay(h), started' = started,
         Open(pc'[h]) => Open(pc[h]) /\ trace'[h] = trace[h],
         UNCHANGED <<rec, settled>>
  PROVE  \/ UNCHANGED <<rec, settled, past>>
         \/ Session!Drop(trace[h]) /\ trace[h] \in 1..MaxHooks
<1>1. past' = IF Open(pc[h]) /\ ~Open(pc'[h]) THEN past \cup {trace[h]} ELSE past
  BY PastMoves
<1>2. CASE Open(pc[h]) /\ ~Open(pc'[h])
  <2>1. trace[h] \in 1..MaxHooks /\ trace[h] \notin past
    BY <1>2, OpenTrace
  <2> QED  BY <1>1, <1>2, <2>1 DEF Session!Drop
<1> QED  BY <1>1, <1>2

LEMMA StepRefines ==
  ASSUME Inv, NEW h \in Hook, Step(h)
  PROVE  Session!Next \/ UNCHANGED Session!vars
<1> USE DEF Session!Next, Session!vars
<1>1. OthersStay(h) /\ started' = started
  BY DEF Step, lockRecord, readTransition, readCorrelate, writeTransition, writeCorrelate,
     writeTrace, goto, written, Forget, local, Inv, Slots, OthersStay
<1>2. CASE lockRecord(h) \/ readTransition(h) \/ readCorrelate(h)
  <2>1. Open(pc[h]) /\ trace' = trace /\ UNCHANGED <<rec, settled>>
    BY <1>2 DEF lockRecord, readTransition, readCorrelate, Open, Entering, local, file
  <2> QED  BY <1>1, <2>1, QuietRefines
<1>3. CASE writeTransition(h)
  <2>1. /\ pc[h] = "writeTransition" /\ pc'[h] = afterTransition(event[h])
        /\ rec' = next[h] /\ UNCHANGED <<settled, trace>>
    BY <1>3 DEF writeTransition, goto, Inv, Slots
  <2> QED  BY <1>1, <2>1, TransitionRefines
<1>4. CASE writeCorrelate(h)
  <2>1. /\ pc[h] = "writeCorrelate" /\ pc'[h] = "writeTrace"
        /\ rec' = next[h] /\ settled' = settled \cup found[h] /\ UNCHANGED trace
    BY <1>4 DEF writeCorrelate, goto, Inv, Slots
  <2> QED  BY <1>1, <2>1, CorrelateRefines
<1>5. CASE writeTrace(h)
  <2>1. ~Open(pc'[h]) /\ UNCHANGED <<rec, settled>>
    BY <1>5 DEF writeTrace, goto, file, Open, Inv, Slots
  <2> QED  BY <1>1, <2>1, QuietRefines
<1> QED  BY <1>2, <1>3, <1>4, <1>5 DEF Step

LEMMA ErrorRefines ==
  ASSUME Inv, NEW h \in Hook, recordError(h)
  PROVE  Session!Next \/ UNCHANGED Session!vars
<1> USE DEF Session!Next, Session!vars
<1>1. /\ OthersStay(h) /\ started' = started /\ UNCHANGED trace
      /\ Open(pc[h])
  BY ErrorCases DEF Inv, Slots, OthersStay, written, Open, Entering, Holding, Reading, Writing
<1>2. CASE UNCHANGED <<rec, settled>>
  BY <1>1, <1>2, QuietRefines
<1>3. CASE pc[h] = "writeTransition" /\ rec' = next[h] /\ UNCHANGED settled
  <2>1. pc'[h] = afterTransition(event[h])
    BY <1>3, ErrorCases DEF AtCorrelate, Inv, Slots
  <2> QED  BY <1>1, <1>3, <2>1, TransitionRefines
<1>4. CASE pc[h] = "writeCorrelate" /\ rec' = next[h] /\ settled' = settled \cup found[h]
  <2>1. pc'[h] = "writeTrace"
    BY <1>4, ErrorCases DEF AtTransition, Inv, Slots
  <2> QED  BY <1>1, <1>4, <2>1, CorrelateRefines
<1> QED  BY <1>2, <1>3, <1>4, ErrorCases

LEMMA CrashRefines ==
  ASSUME Inv, NEW h \in Hook, Crash(h)
  PROVE  Session!Next \/ UNCHANGED Session!vars
<1>1. /\ OthersStay(h) /\ started' = started /\ ~Open(pc'[h])
      /\ UNCHANGED <<rec, settled>>
  BY DEF Crash, goto, Forget, file, Inv, Slots, OthersStay, Open
<1> QED  BY <1>1, QuietRefines DEF Session!Next, Session!vars

\* Hook processes with a file, a flock, crashes and errors implement a record to
\* which events are applied one at a time: no update is lost or repeated, and
\* every trace is correlated at most once.
THEOREM ImplementsRecordHolds == Spec => ImplementsRecord
<1>1. Init => Session!Init
  BY DEF Init, Session!Init, past
<1>2. Inv /\ [Next]_vars => [Session!Next]_(Session!vars)
  <2> SUFFICES ASSUME Inv, [Next]_vars
               PROVE  Session!Next \/ UNCHANGED Session!vars
    OBVIOUS
  <2>1. CASE UNCHANGED vars
    BY <2>1 DEF vars, file, local, past, Session!vars
  <2>2. ASSUME NEW h \in Hook, NEW e \in Event, StartHook(h, e)
        PROVE  Session!Next \/ UNCHANGED Session!vars
    BY <2>2, StartRefines DEF Session!Next, Session!vars
  <2> QED  BY <2>1, <2>2, StepRefines, ErrorRefines, CrashRefines DEF Next
<1> QED  BY Invariance, <1>1, <1>2, PTL DEF Spec, ImplementsRecord

-----------------------------------------------------------------------------
(* The outcomes of suggestions, proved of the abstract record.  What its loops *)
(* compute for every sequence takes an induction, here by a least number.     *)

\* A nonempty set of numbers has a least one.
LEMMA LeastNumber ==
  ASSUME NEW R \in SUBSET Nat, R # {}
  PROVE  \E n \in R : \A m \in R : n <= m
<1>1. PICK n \in R : \A m \in R : ~(<<m, n>> \in OpToRel(<, Nat))
  BY NatLessThanWellFounded, WFMin
<1>2. ASSUME NEW m \in R PROVE n <= m
  <2>1. m \in Nat /\ n \in Nat
    OBVIOUS
  <2>2. ~(<<m, n>> \in {ss \in Nat \X Nat : ss[1] < ss[2]})
    BY <1>1 DEF OpToRel
  <2>3. <<m, n>> \in Nat \X Nat => ~(m < n)
    BY <2>2, Zenon
  <2> QED  BY <2>1, <2>3
<1> QED  BY <1>2

\* The loop of the record: what it has collected after i references.
Loop(refs, S, n, f) ==
  f = [i \in 0..n |-> IF i = 0 THEN <<>>
                      ELSE IF refs[i] \in S THEN Append(f[i - 1], refs[i]) ELSE f[i - 1]]

LEMMA LoopEnds ==
  ASSUME NEW refs, NEW S, NEW n \in Nat
  PROVE  \E f : Loop(refs, S, n, f)
<1> DEFINE R == {m \in Nat : ~\E f : Loop(refs, S, m, f)}
<1>1. SUFFICES ASSUME R # {} PROVE FALSE
  OBVIOUS
<1>2. PICK m \in R : \A k \in R : m <= k
  BY <1>1, LeastNumber
<1>3. CASE m = 0
  <2> DEFINE f == [i \in 0..0 |-> <<>>]
  <2>1. Loop(refs, S, 0, f)
    BY DEF Loop
  <2> QED  BY <1>2, <1>3, <2>1
<1>4. CASE m # 0
  <2>1. m - 1 \in Nat /\ m - 1 \notin R
    BY <1>2, <1>4
  <2>2. PICK f : Loop(refs, S, m - 1, f)
    BY <2>1
  <2> DEFINE v == IF refs[m] \in S THEN Append(f[m - 1], refs[m]) ELSE f[m - 1]
             g == [i \in 0..m |-> IF i = m THEN v ELSE f[i]]
  <2>3. \A i \in 0..(m - 1) :
          f[i] = IF i = 0 THEN <<>>
                 ELSE IF refs[i] \in S THEN Append(f[i - 1], refs[i]) ELSE f[i - 1]
    BY <2>1, <2>2 DEF Loop
  <2> HIDE DEF v
  <2>4. \A i \in 0..m : i # m => g[i] = f[i] /\ (i # 0 => g[i - 1] = f[i - 1])
    BY <2>1
  <2>5. g[m] = v /\ g[m - 1] = f[m - 1]
    BY <1>4, <2>1
  <2>6. \A i \in 0..m :
          g[i] = IF i = 0 THEN <<>>
                 ELSE IF refs[i] \in S THEN Append(g[i - 1], refs[i]) ELSE g[i - 1]
    <3> HIDE DEF g
    <3> TAKE i \in 0..m
    <3>1. CASE i = m
      BY <1>4, <2>5, <3>1 DEF v
    <3>2. CASE i # m
      <4>1. i \in 0..(m - 1)
        BY <3>2
      <4> QED  BY <2>3, <2>4, <3>2, <4>1
    <3> QED  BY <3>1, <3>2
  <2>7. Loop(refs, S, m, g)
    <3>1. g = [i \in 0..m |-> g[i]]
      OBVIOUS
    <3> HIDE DEF g
    <3> QED  BY <2>6, <3>1 DEF Loop
  <2> QED  BY <1>2, <2>7
<1> QED  BY <1>3, <1>4

\* What is kept of a sequence is a sequence of those of its elements that are in S.
LEMMA KeptOf ==
  ASSUME NEW T, NEW refs \in Seq(T), NEW S
  PROVE  Session!kept(refs, S) \in Seq(T \cap S)
<1> DEFINE n == Len(refs)
           f == CHOOSE g : Loop(refs, S, n, g)
<1>1. n \in Nat
  OBVIOUS
<1>2. Loop(refs, S, n, f)
  BY <1>1, LoopEnds
<1>3. Session!kept(refs, S) = f[n]
  BY DEF Session!kept, Loop
<1> HIDE DEF f, n
<1>4. \A i \in 0..n :
        f[i] = IF i = 0 THEN <<>>
               ELSE IF refs[i] \in S THEN Append(f[i - 1], refs[i]) ELSE f[i - 1]
  BY <1>1, <1>2 DEF Loop
<1> DEFINE R == {i \in 0..n : f[i] \notin Seq(T \cap S)}
<1>5. SUFFICES ASSUME R # {} PROVE FALSE
  BY <1>1, <1>3
<1>6. PICK i \in R : \A k \in R : i <= k
  <2>1. R \in SUBSET Nat
    BY <1>1
  <2> HIDE DEF R
  <2> QED  BY <1>5, <2>1, LeastNumber
<1>7. i # 0
  <2>1. 0 \in 0..n /\ <<>> \in Seq(T \cap S)
    BY <1>1
  <2>2. f[0] = <<>>
    BY <1>4, <2>1
  <2> QED  BY <1>6, <2>1, <2>2
<1>8. f[i - 1] \in Seq(T \cap S) /\ i \in 1..n
  BY <1>1, <1>6, <1>7
<1>9. refs[i] \in T
  BY <1>8 DEF n
<1>10. f[i] \in Seq(T \cap S)
  <2>1. refs[i] \in S => Append(f[i - 1], refs[i]) \in Seq(T \cap S)
    BY <1>8, <1>9
  <2> QED  BY <1>4, <1>6, <1>7, <1>8, <2>1
<1> QED  BY <1>6, <1>10
\* The newest references of a sequence are references of it.
LEMMA CappedOf ==
  ASSUME NEW T, NEW refs \in Seq(T)
  PROVE  Session!cappedRemediationReferences(refs) \in Seq(T)
<1> DEFINE n == Len(refs)
           k == n - MaxRefs
           s == SubSeq(refs, k + 1, n)
<1>1. n \in Nat /\ MaxRefs \in Nat \ {0} /\ \A i \in 1..n : refs[i] \in T
  BY BoundAssumption
<1>2. ASSUME n > MaxRefs PROVE s \in Seq(T)
  <2>1. k + 1 \in 1..n
    BY <1>1, <1>2
  <2>2. s = [i \in 1..(n - k) |-> refs[k + i]]
    BY <1>1, <2>1
  <2>3. \A i \in 1..(n - k) : k + i \in 1..n
    BY <1>1, <2>1
  <2>4. n - k \in Nat
    BY <1>1, <2>1
  <2> HIDE DEF s
  <2> QED  BY <1>1, <2>2, <2>3, <2>4
<1> QED  BY <1>1, <1>2 DEF Session!cappedRemediationReferences

LEMMA MembersOf ==
  ASSUME NEW T, NEW s \in Seq(T)
  PROVE  Session!ToSet(s) \subseteq T /\ s \in Seq(Session!ToSet(s))
BY DEF Session!ToSet

LEMMA SuggestedBy ==
  ASSUME NEW e \in Event, NEW t
  PROVE  LET new == Session!remediationReferences(e, t)
         IN  new \in Seq(Session!ToSet(new)) /\ \A x \in Session!ToSet(new) : x.src = t
<1> DEFINE new == [i \in DOMAIN e.rems |-> [rem |-> e.rems[i], src |-> t, tool |-> e.tool]]
<1>1. DOMAIN e.rems = 1..Len(e.rems) /\ Len(e.rems) \in Nat
  BY EventAssumption
<1>2. \A i \in 1..Len(e.rems) : new[i].src = t
  BY <1>1
<1>3. new \in Seq({new[i] : i \in DOMAIN new})
  BY <1>1
<1> QED  BY <1>1, <1>2, <1>3 DEF Session!remediationReferences, Session!ToSet

\* What the record owes to the traces behind it: its references and its outcomes
\* are theirs, so what a new trace suggests is new.
PastTells ==
  /\ Shaped(rec)
  /\ rec.pending \in Seq(Session!ToSet(rec.pending))
  /\ rec.attempted \in Seq(Session!ToSet(rec.attempted))
  /\ \A x \in Session!References : x.src \in past
  /\ \A s \in settled : s[1].src \in past

OutcomeInv == PastTells /\ Session!OneOutcome

\* A step of trace t that settles the references M of the record in one way, takes
\* them out if that is final, and adds suggestions N of its own.
Settles(t, N, M, o, P, A) ==
  /\ t \notin past /\ past' = past \cup {t}
  /\ \A x \in N : x.src = t
  /\ M \subseteq Session!References
  /\ settled' = settled \cup {<<x, o>> : x \in M}
  /\ P \cap A = {} /\ P \cup A \subseteq Session!References \cup N
  /\ o \in Session!Final => M \cap (P \cup A) = {}
  /\ Shaped(rec') /\ rec'.pending \in Seq(P) /\ rec'.attempted \in Seq(A)

LEMMA SettleKeeps ==
  ASSUME OutcomeInv, NEW t, NEW N, NEW M, NEW o, NEW P, NEW A,
         Settles(t, N, M, o, P, A)
  PROVE  OutcomeInv'
<1> USE DEF Settles
<1> DEFINE p == Session!ToSet(rec'.pending)
           a == Session!ToSet(rec'.attempted)
<1>1. /\ p \subseteq P /\ rec'.pending \in Seq(p)
      /\ a \subseteq A /\ rec'.attempted \in Seq(a)
  BY MembersOf
<1>2. Session!References' = p \cup a
  BY DEF Session!References, Session!ToSet
<1>3. p = Session!ToSet(rec.pending)' /\ a = Session!ToSet(rec.attempted)'
  BY DEF Session!ToSet
<1> HIDE DEF p, a
<1>4. PastTells'
  <2>1. \A x \in Session!References' : x.src \in past'
    BY <1>1, <1>2 DEF OutcomeInv, PastTells
  <2>2. \A s \in settled' : s[1].src \in past'
    BY DEF OutcomeInv, PastTells
  <2>3. Shaped(rec)'
    BY DEF Shaped
  <2> QED  BY <1>1, <1>3, <2>1, <2>2, <2>3 DEF PastTells
<1>5. ASSUME NEW s \in settled', s[2] \in Session!Final
      PROVE  s[1] \notin Session!References'
  <2>1. CASE s \in settled
    <3>1. s[1] \notin Session!References /\ s[1].src \in past
      BY <1>5, <2>1 DEF OutcomeInv, PastTells, Session!OneOutcome
    <3> QED  BY <1>1, <1>2, <3>1
  <2>2. CASE s \notin settled
    <3>1. PICK x \in M : s = <<x, o>>
      BY <1>5, <2>2
    <3> QED  BY <1>1, <1>2, <1>5, <3>1
  <2> QED  BY <2>1, <2>2
<1>6. ASSUME NEW s \in settled', s[2] \in Session!Final,
             NEW u \in settled', u[1] = s[1], u[2] \in Session!Final
      PROVE  u = s
  <2>1. \A w \in settled' : w \in settled \/ \E x \in M : w = <<x, o>>
    OBVIOUS
  <2>2. \A w \in settled : w[2] \in Session!Final => w[1] \notin M
    BY DEF OutcomeInv, Session!OneOutcome
  <2>3. \A w \in settled, x \in M : w[2] \in Session!Final => w[1] # x
    BY <2>2
  <2>4. CASE s \in settled /\ u \in settled
    BY <1>6, <2>4 DEF OutcomeInv, Session!OneOutcome
  <2>5. CASE s \notin settled /\ u \notin settled
    BY <1>6, <2>1, <2>5
  <2>6. CASE s \in settled /\ u \notin settled
    BY <1>6, <2>1, <2>3, <2>6
  <2>7. CASE s \notin settled /\ u \in settled
    BY <1>6, <2>1, <2>3, <2>7
  <2> QED  BY <2>4, <2>5, <2>6, <2>7
<1>7. p \cap a = {}
  BY <1>1
<1> QED  BY <1>3, <1>4, <1>5, <1>6, <1>7 DEF OutcomeInv, Session!OneOutcome, Session!Final

\* The lifecycle of the session leaves the references alone.
LEMMA TransitionLeaves ==
  ASSUME NEW e \in Event, NEW r, Shaped(r)
  PROVE  LET w == Session!applyLifecycleSessionEvent(e, r)
         IN  Shaped(w) /\ w.pending = r.pending /\ w.attempted = r.attempted
<1> DEFINE n == Session!noteRelevance(e, r)
           w == Session!applyNoted(e, n)
<1>1. /\ {e.files, e.text, e.empty, e.edit, e.rc} \subseteq BOOLEAN
  BY EventAssumption
<1>2. Shaped(n) /\ n.pending = r.pending /\ n.attempted = r.attempted
  <2>1. (r.relevant \/ Session!lifecycleEventRelevant(e)) \in BOOLEAN
    BY <1>1 DEF Shaped, Session!lifecycleEventRelevant
  <2> QED  BY <2>1 DEF Session!noteRelevance, Shaped
<1> HIDE DEF n
<1>3. Shaped(w) /\ w.pending = n.pending /\ w.attempted = n.attempted
  <2>1. (n.batch \/ Session!postToolBatchGuidanceRelevant(e, n.relevant)) \in BOOLEAN
    BY <1>1, <1>2 DEF Shaped, Session!postToolBatchGuidanceRelevant
  <2>2. n.subagents \in Nat /\ (n.subagents > 0 => n.subagents - 1 \in Nat)
    BY <1>2 DEF Shaped
  <2>3. CASE e.name = "PostToolUse"
    BY <1>2, <2>1, <2>3 DEF Shaped, Session!applyNoted
  <2>4. CASE e.name = "PostToolBatch"
    BY <1>2, <2>4 DEF Shaped, Session!applyNoted
  <2>5. CASE e.name = "SubagentStart"
    BY <1>2, <2>2, <2>5 DEF Shaped, Session!applyNoted
  <2>6. CASE e.name = "SubagentStop"
    BY <1>2, <2>2, <2>6 DEF Shaped, Session!applyNoted
  <2>7. CASE e.name = "SessionEnd"
    BY <1>2, <2>7 DEF Shaped, Session!applyNoted, Session!endSession
  <2>8. CASE e.name \notin {"PostToolUse", "PostToolBatch", "SubagentStart",
                           "SubagentStop", "SessionEnd"}
    BY <1>2, <2>8 DEF Session!applyNoted
  <2> QED  BY <2>3, <2>4, <2>5, <2>6, <2>7, <2>8
<1> QED  BY <1>2, <1>3 DEF Session!applyLifecycleSessionEvent, n

\* Two sequences in a row, and the members of both.
LEMMA JoinedOf ==
  ASSUME NEW S, NEW T, NEW s \in Seq(S), NEW t \in Seq(T)
  PROVE  s \o t \in Seq(S \cup T)
<1>1. s \in Seq(S \cup T) /\ t \in Seq(S \cup T)
  <2>1. \A i \in 1..Len(s) : s[i] \in S
    OBVIOUS
  <2>2. \A i \in 1..Len(t) : t[i] \in T
    OBVIOUS
  <2> QED  BY <2>1, <2>2
<1> QED  BY <1>1

LEMMA JoinedMembers ==
  ASSUME NEW S, NEW T, NEW s \in Seq(S), NEW t \in Seq(T)
  PROVE  Session!ToSet(s \o t) = Session!ToSet(s) \cup Session!ToSet(t)
<1>1. s \in Seq(S \cup T) /\ t \in Seq(S \cup T)
  <2>1. \A i \in 1..Len(s) : s[i] \in S
    OBVIOUS
  <2>2. \A i \in 1..Len(t) : t[i] \in T
    OBVIOUS
  <2> QED  BY <2>1, <2>2
<1>2. s \o t \in Seq(S \cup T) /\ Len(s \o t) = Len(s) + Len(t)
  BY <1>1
<1>3. /\ \A i \in 1..Len(s) : (s \o t)[i] = s[i]
      /\ \A i \in 1..Len(t) : (s \o t)[Len(s) + i] = t[i]
  BY <1>1
<1>4. \A i \in 1..(Len(s) + Len(t)) :
        i \in 1..Len(s) \/ \E j \in 1..Len(t) : i = Len(s) + j
  <2> TAKE i \in 1..(Len(s) + Len(t))
  <2>1. i \notin 1..Len(s) => i - Len(s) \in 1..Len(t) /\ i = Len(s) + (i - Len(s))
    OBVIOUS
  <2> QED  BY <2>1
<1>5. /\ \A i \in 1..Len(s) : i \in 1..(Len(s) + Len(t))
      /\ \A i \in 1..Len(t) : Len(s) + i \in 1..(Len(s) + Len(t))
  OBVIOUS
<1>6. /\ Session!ToSet(s) = {s[i] : i \in 1..Len(s)}
      /\ Session!ToSet(t) = {t[i] : i \in 1..Len(t)}
      /\ Session!ToSet(s \o t) = {(s \o t)[i] : i \in 1..(Len(s) + Len(t))}
  BY <1>2 DEF Session!ToSet
<1> HIDE DEF Session!ToSet
<1>7. Session!ToSet(s \o t) \subseteq Session!ToSet(s) \cup Session!ToSet(t)
  BY <1>3, <1>4, <1>6
<1>8. Session!ToSet(s) \cup Session!ToSet(t) \subseteq Session!ToSet(s \o t)
  BY <1>3, <1>5, <1>6
<1> QED  BY <1>7, <1>8

LEMMA CorrelateKeepsOutcomes ==
  ASSUME OutcomeInv, NEW e \in Event, NEW t, Session!Correlate(e, t)
  PROVE  OutcomeInv'
<1> DEFINE p == Session!ToSet(rec.pending)
           a == Session!ToSet(rec.attempted)
           done == Session!applyRemediationCorrelation(e, t, rec)
<1>1. /\ t \notin past /\ past' = past \cup {t}
      /\ rec' = done.rec /\ settled' = settled \cup done.events
  BY DEF Session!Correlate
<1>2. /\ Shaped(rec) /\ rec.pending \in Seq(p) /\ rec.attempted \in Seq(a)
      /\ p \cap a = {} /\ Session!References = p \cup a
      /\ \A x \in p \cup a : x.src # t
  BY <1>1 DEF OutcomeInv, PastTells, Session!OneOutcome, Session!References
<1> HIDE DEF p, a
<1>3. ASSUME done = [rec |-> rec, events |-> {}] PROVE OutcomeInv'
  <2>1. rec' = rec /\ settled' = settled \cup {<<x, "attempted">> : x \in {}}
    BY <1>1, <1>3
  <2>2. Settles(t, {}, {}, "attempted", p, a)
    BY <1>1, <1>2, <2>1 DEF Settles
  <2> QED  BY <2>2, SettleKeeps
<1>4. CASE e.rems # <<>>
  <2> DEFINE hit == {x \in p : Session!remediationRepeated(x, e)}
             repeated == Session!kept(rec.pending, hit)
             remaining == Session!kept(rec.pending, p \ hit)
             new == Session!remediationReferences(e, t)
             N == Session!ToSet(new)
             M == Session!ToSet(repeated)
             capped == Session!cappedRemediationReferences(remaining \o new)
             other == {x \in a : x.tool # e.tool}
             left == Session!kept(rec.attempted, other)
  <2>1. /\ rec' = [rec EXCEPT !.pending = capped, !.attempted = left]
        /\ settled' = settled \cup {<<x, "repeated">> : x \in M}
    BY <1>1, <1>4 DEF Session!applyRemediationCorrelation, p, a,
       Session!correlateRepeatedRemediations, Session!withoutRemediationTool,
       Session!remediationOutcomeEvents
  <2>2. /\ repeated \in Seq(p \cap hit) /\ remaining \in Seq(p \cap (p \ hit))
        /\ left \in Seq(a \cap other)
    BY <1>2, KeptOf
  <2>3. new \in Seq(N) /\ \A x \in N : x.src = t
    BY SuggestedBy
  <2> HIDE DEF hit, repeated, remaining, new, left, other
  <2>4. capped \in Seq((p \cap (p \ hit)) \cup N)
    BY <2>2, <2>3, JoinedOf, CappedOf
  <2>5. M \subseteq p \cap hit
    BY <2>2, MembersOf
  <2> HIDE DEF capped, N, M
  <2>6. Shaped(rec') /\ rec'.pending = capped /\ rec'.attempted = left
    BY <1>2, <2>1 DEF Shaped
  <2>7. ((p \cap (p \ hit)) \cup N) \cap (a \cap other) = {}
    BY <1>2, <2>3
  <2>8. M \cap (((p \cap (p \ hit)) \cup N) \cup (a \cap other)) = {}
    BY <1>2, <2>3, <2>5
  <2>9. M \subseteq p \cup a
    BY <2>5
  <2>10. ((p \cap (p \ hit)) \cup N) \cup (a \cap other) \subseteq (p \cup a) \cup N
    OBVIOUS
  <2>11. Settles(t, N, M, "repeated", (p \cap (p \ hit)) \cup N, a \cap other)
    BY <1>1, <1>2, <2>1, <2>2, <2>3, <2>4, <2>6, <2>7, <2>8, <2>9, <2>10 DEF Settles
  <2> QED  BY <2>11, SettleKeeps
<1>5. CASE e.rems = <<>> /\ ~e.blocked /\ e.name = "PreToolUse"
  <2> DEFINE same == {x \in p : x.tool = e.tool}
             other == {x \in p : x.tool # e.tool}
             matched == Session!kept(rec.pending, same)
             left == Session!kept(rec.pending, other)
             M == Session!ToSet(matched)
             capped == Session!cappedRemediationReferences(rec.attempted \o matched)
  <2>1. /\ rec' = [rec EXCEPT !.pending = left, !.attempted = capped]
        /\ settled' = settled \cup {<<x, "attempted">> : x \in M}
    BY <1>1, <1>5 DEF Session!applyRemediationCorrelation, p, a,
       Session!correlateRemediationAttempt, Session!withoutRemediationTool,
       Session!ofTool, Session!remediationOutcomeEvents
  <2>2. matched \in Seq(p \cap same) /\ left \in Seq(p \cap other)
    BY <1>2, KeptOf
  <2>3. (p \cap other) \cap (p \cap same) = {}
    OBVIOUS
  <2> HIDE DEF same, other, matched, left
  <2>4. capped \in Seq(a \cup (p \cap same))
    BY <1>2, <2>2, JoinedOf, CappedOf
  <2>5. M \subseteq p \cap same
    BY <2>2, MembersOf
  <2> HIDE DEF capped, M
  <2>6. Shaped(rec') /\ rec'.pending = left /\ rec'.attempted = capped
    BY <1>2, <2>1 DEF Shaped
  <2>7. (p \cap other) \cap (a \cup (p \cap same)) = {}
    BY <1>2, <2>3
  <2>8. /\ M \subseteq p \cup a
        /\ (p \cap other) \cup (a \cup (p \cap same)) \subseteq (p \cup a) \cup {}
    BY <2>5
  <2>9. "attempted" \notin Session!Final
    BY DEF Session!Final
  <2>10. Settles(t, {}, M, "attempted", p \cap other, a \cup (p \cap same))
    BY <1>1, <1>2, <2>1, <2>2, <2>4, <2>6, <2>7, <2>8, <2>9 DEF Settles
  <2> QED  BY <2>10, SettleKeeps
<1>6. CASE e.rems = <<>> /\ ~e.blocked /\ e.name = "PostToolUse"
  <2> DEFINE same == {x \in a : x.tool = e.tool}
             other == {x \in a : x.tool # e.tool}
             matched == Session!kept(rec.attempted, same)
             left == Session!kept(rec.attempted, other)
             M == Session!ToSet(matched)
             o == IF e.rc \/ e.status THEN "repeated" ELSE "fixed"
  <2>1. /\ rec' = [rec EXCEPT !.attempted = left]
        /\ settled' = settled \cup {<<x, o>> : x \in M}
    BY <1>1, <1>6 DEF Session!applyRemediationCorrelation, p, a,
       Session!correlateRemediationResult, Session!withoutRemediationTool,
       Session!ofTool, Session!remediationOutcomeEvents
  <2>2. matched \in Seq(a \cap same) /\ left \in Seq(a \cap other)
    BY <1>2, KeptOf
  <2>3. (a \cap other) \cap (a \cap same) = {}
    OBVIOUS
  <2> HIDE DEF same, other, matched, left, o
  <2>4. M \subseteq a \cap same
    BY <2>2, MembersOf
  <2> HIDE DEF M
  <2>5. Shaped(rec') /\ rec'.pending = rec.pending /\ rec'.attempted = left
    BY <1>2, <2>1 DEF Shaped
  <2>6. /\ p \cap (a \cap other) = {}
        /\ M \cap (p \cup (a \cap other)) = {}
        /\ M \subseteq p \cup a /\ p \cup (a \cap other) \subseteq (p \cup a) \cup {}
    BY <1>2, <2>3, <2>4
  <2>7. Settles(t, {}, M, o, p, a \cap other)
    BY <1>1, <1>2, <2>1, <2>2, <2>5, <2>6 DEF Settles
  <2> QED  BY <2>7, SettleKeeps
<1>7. CASE e.rems = <<>> /\ ~e.blocked /\ e.name = "SessionEnd"
  <2> DEFINE M == Session!ToSet(rec.pending \o rec.attempted)
  <2>1. /\ rec' = [rec EXCEPT !.pending = <<>>, !.attempted = <<>>]
        /\ settled' = settled \cup {<<x, "abandoned">> : x \in M}
    BY <1>1, <1>7 DEF Session!applyRemediationCorrelation,
       Session!abandonPendingRemediations, Session!remediationOutcomeEvents
  <2>2. Shaped(rec') /\ rec'.pending = <<>> /\ rec'.attempted = <<>>
    BY <1>2, <2>1 DEF Shaped
  <2>3. M = p \cup a
    <3>1. \A s \in Seq(p), u \in Seq(a) :
            Session!ToSet(s \o u) = Session!ToSet(s) \cup Session!ToSet(u)
      BY JoinedMembers
    <3>2. M = Session!ToSet(rec.pending) \cup Session!ToSet(rec.attempted)
      BY <1>2, <3>1
    <3> QED  BY <3>2 DEF p, a
  <2> HIDE DEF M
  <2>4. <<>> \in Seq({})
    OBVIOUS
  <2>5. Settles(t, {}, M, "abandoned", {}, {})
    BY <1>1, <1>2, <2>1, <2>2, <2>3, <2>4 DEF Settles
  <2> QED  BY <2>5, SettleKeeps
<1>8. \/ e.rems = <<>> /\ e.blocked
      \/ e.rems = <<>> /\ ~e.blocked
         /\ e.name \notin {"PreToolUse", "PostToolUse", "SessionEnd"}
      => OutcomeInv'
  <2> SUFFICES ASSUME \/ e.rems = <<>> /\ e.blocked
                      \/ e.rems = <<>> /\ ~e.blocked
                         /\ e.name \notin {"PreToolUse", "PostToolUse", "SessionEnd"}
               PROVE  OutcomeInv'
    OBVIOUS
  <2>1. done = [rec |-> rec, events |-> {}]
    BY DEF Session!applyRemediationCorrelation
  <2> QED  BY <1>3, <2>1
<1>9. e.blocked \in BOOLEAN
  BY EventAssumption
<1> QED  BY <1>4, <1>5, <1>6, <1>7, <1>8, <1>9

LEMMA OutcomeStart == Session!Init => OutcomeInv
<1> SUFFICES ASSUME Session!Init PROVE OutcomeInv
  OBVIOUS
<1>1. /\ rec = Session!EmptyRecord /\ settled = {}
      /\ rec.pending = <<>> /\ rec.attempted = <<>> /\ Shaped(rec)
  BY DEF Session!Init, Session!EmptyRecord, Shaped
<1>2. Session!ToSet(<<>>) = {}
  BY DEF Session!ToSet
<1>3. <<>> \in Seq({})
  OBVIOUS
<1> QED  BY <1>1, <1>2, <1>3 DEF OutcomeInv, PastTells, Session!OneOutcome, Session!References

\* Every step of the session record keeps it.
LEMMA OutcomeStep ==
  OutcomeInv /\ [Session!Next]_(Session!vars) => OutcomeInv'
<1> SUFFICES ASSUME OutcomeInv, [Session!Next]_(Session!vars) PROVE OutcomeInv'
  OBVIOUS
<1>1. ASSUME Shaped(rec'), rec'.pending = rec.pending, rec'.attempted = rec.attempted,
             UNCHANGED settled, past \subseteq past'
      PROVE  OutcomeInv'
  <2>1. Shaped(rec)'
    BY <1>1 DEF Shaped
  <2>2. Session!References' = Session!References
    BY <1>1 DEF Session!References, Session!ToSet
  <2>3. PastTells'
    BY <1>1, <2>1, <2>2 DEF OutcomeInv, PastTells, Session!ToSet
  <2>4. Session!OneOutcome'
    BY <1>1, <2>2 DEF OutcomeInv, Session!OneOutcome, Session!ToSet, Session!Final
  <2> QED  BY <2>3, <2>4 DEF OutcomeInv
<1>2. Shaped(rec)
  BY DEF OutcomeInv, PastTells
<1>3. CASE UNCHANGED Session!vars
  BY <1>1, <1>2, <1>3 DEF Session!vars
<1>4. ASSUME NEW t, Session!Drop(t) PROVE OutcomeInv'
  BY <1>1, <1>2, <1>4 DEF Session!Drop
<1>5. ASSUME NEW e \in Event, NEW t, Session!Transition(e, t) PROVE OutcomeInv'
  <2>1. /\ rec' = Session!applyLifecycleSessionEvent(e, rec)
        /\ UNCHANGED settled /\ past \subseteq past'
    BY <1>5 DEF Session!Transition
  <2> QED  BY <1>1, <1>2, <2>1, TransitionLeaves
<1> QED  BY <1>3, <1>4, <1>5, CorrelateKeepsOutcomes DEF Session!Next

\* A suggestion is pending or attempted but not both, it gets one outcome and has
\* left the record by then, and a trace reports only what a record on disk settled:
\* a statement about the abstract record that the hook processes inherit.
THEOREM ReportedOnceHolds == Spec => []ReportedOnce
<1>1. Inv /\ OutcomeInv => ReportedOnce
  BY DEF Inv, RecordIsSound, OutcomeInv, ReportedOnce
<1> QED  BY Invariance, ImplementsRecordHolds, OutcomeStart, OutcomeStep, <1>1, PTL
            DEF ImplementsRecord

-----------------------------------------------------------------------------
(* The decision of a hook, a component of its own (HookDecision).            *)

Kinds == {"block", "advise"}

Blocks(ds) == \E i \in DOMAIN ds : ds[i] = "block"

\* What the policies looked at so far, and the edit check, say.
Refused == in.edit \/ \E i \in Evaluated : PolicyBlocks(i)

Invocation ==
  /\ InputIsSound /\ in \in Input
  /\ decisions \in Seq(Kinds) /\ upto \in 1..(Len(in.policies) + 1)
  /\ status \in {"allowed", "blocked"}

\* The decisions are those of the edit check and of the policies evaluated so far,
\* and none is left out before the merge unless one blocks.
MergeIsDue ==
  /\ at \in {"collect", "route"} => upto = 1
  /\ at \in {"evaluate", "decide"} => route = picked /\ (Blocks(decisions) <=> Refused)
  /\ at = "decide" => upto > Len(in.policies) \/ Blocks(decisions)

\* VerdictIsRight, of one state.
RightVerdict ==
  status = "blocked" <=>
    \/ \E i \in DOMAIN in.policies : PolicyBlocks(i)
    \/ in.edit
    \/ picked = "block"
    \/ picked = "rewrite" /\ ~providerSupportsUpdatedInput(ctxProvider)

VerdictStays == at \in {"build", "persist", "emit"} /\ ~in.readOnly => RightVerdict

\* Nothing is printed before the hook ends.
NothingYet == at # "done" => printed = Nothing

DecisionInv ==
  Invocation /\ MergeIsDue /\ VerdictStays /\ NothingYet /\ RefusedStaysRefused

\* A block among decisions is a block of one of the parts.
LEMMA BlocksOf ==
  ASSUME NEW ds \in Seq(Kinds), NEW more \in Seq(Kinds)
  PROVE  /\ ds \o more \in Seq(Kinds)
         /\ Blocks(ds \o more) <=> Blocks(ds) \/ Blocks(more)
<1>1. ds \o more \in Seq(Kinds)
  OBVIOUS
<1>2. ASSUME NEW i \in DOMAIN (ds \o more), (ds \o more)[i] = "block"
      PROVE  Blocks(ds) \/ Blocks(more)
  <2>1. CASE i <= Len(ds)
    BY <1>2, <2>1 DEF Blocks
  <2>2. CASE i > Len(ds)
    <3>1. i - Len(ds) \in DOMAIN more /\ more[i - Len(ds)] = "block"
      BY <1>2, <2>2
    <3> QED  BY <3>1 DEF Blocks
  <2> QED  BY <2>1, <2>2
<1>3. ASSUME NEW i \in DOMAIN ds, ds[i] = "block" PROVE Blocks(ds \o more)
  <2>1. i \in DOMAIN (ds \o more) /\ (ds \o more)[i] = "block"
    BY <1>3
  <2> QED  BY <2>1 DEF Blocks
<1>4. ASSUME NEW i \in DOMAIN more, more[i] = "block" PROVE Blocks(ds \o more)
  <2>1. i + Len(ds) \in DOMAIN (ds \o more) /\ (ds \o more)[i + Len(ds)] = "block"
    BY <1>4
  <2> QED  BY <2>1 DEF Blocks
<1> QED  BY <1>1, <1>2, <1>3, <1>4 DEF Blocks

LEMMA Single ==
  /\ <<>> \in Seq(Kinds) /\ ~Blocks(<<>>)
  /\ \A k \in Kinds : <<k>> \in Seq(Kinds) /\ (Blocks(<<k>>) <=> k = "block")
BY DEF Blocks, Kinds

LEMMA StatusOf ==
  ASSUME NEW ds
  PROVE  resultStatus(ds) = IF Blocks(ds) THEN "blocked" ELSE "allowed"
BY DEF resultStatus, Blocks

\* A policy adds a block exactly when it is in block mode and finds one.
LEMMA PolicyDecides ==
  ASSUME NEW i \in DOMAIN in.policies, Invocation, in.policies[i].finds # "error"
  PROVE  LET ds == evaluateHookPolicy(in.policies[i])
         IN  ds \in Seq(Kinds) /\ (Blocks(ds) <=> PolicyBlocks(i))
<1> DEFINE p == in.policies[i]
           ds == evaluateHookPolicy(p)
<1>1. /\ p.mode \in {"block", "advise"}
      /\ p.finds \in {"unmatched", "nothing", "block", "warning"}
  <2>1. in.policies \in Seq([mode : {"block", "advise"},
                            finds : {"unmatched", "nothing", "block", "warning", "error"}])
    BY DEF Invocation, InputIsSound
  <2> DEFINE Entry == [mode : {"block", "advise"},
                       finds : {"unmatched", "nothing", "block", "warning", "error"}]
  <2>2. \A ps \in Seq(Entry) : \A j \in DOMAIN ps : ps[j] \in Entry
    <3> HIDE DEF Entry
    <3> QED  OBVIOUS
  <2>3. p \in Entry
    BY <2>1, <2>2
  <2> QED  BY <2>3
<1>2. ds = IF p.finds = "unmatched" THEN <<>>
           ELSE IF p.mode = "advise" THEN <<"advise">>
           ELSE IF p.finds = "block" THEN <<"block">>
           ELSE IF p.finds = "warning" THEN <<"advise">> ELSE <<>>
  <2> HIDE DEF p
  <2> QED  BY <1>1 DEF evaluateHookPolicy
<1>3. PolicyBlocks(i) <=> p.mode = "block" /\ p.finds = "block"
  BY DEF PolicyBlocks
<1> HIDE DEF p, ds
<1>4. ds \in Seq(Kinds) /\ (Blocks(ds) <=> PolicyBlocks(i))
  BY <1>1, <1>2, <1>3, Single DEF Kinds
<1> QED  BY <1>4 DEF p, ds

\* What is printed with the status denies exactly when the status is blocked.
LEMMA SaidDenies ==
  ASSUME NEW p, NEW u, status = "blocked"
  PROVE  Say(status = "blocked", p, u).denies
<1> DEFINE b == status = "blocked"
<1>1. Say(b, p, u) = [any |-> TRUE, denies |-> b, permission |-> p, updated |-> u]
  BY DEF Say
<1> HIDE DEF b
<1>2. Say(b, p, u).denies = b
  BY <1>1
<1>3. b
  BY DEF b
<1>4. Say(b, p, u).denies
  BY <1>2, <1>3, Zenon
<1> QED  BY <1>4 DEF b

LEMMA DecisionInvInit == DecisionInit => DecisionInv
<1> SUFFICES ASSUME InputIsSound, DecisionInit PROVE DecisionInv
  BY InputAssumption
<1>1. in.policies \in Seq([mode : {"block", "advise"},
                          finds : {"unmatched", "nothing", "block", "warning", "error"}])
  BY DEF DecisionInit, InputIsSound
<1>2. Len(in.policies) \in Nat
  BY <1>1
<1> QED
  BY <1>2, Single DEF DecisionInit, DecisionInv, Invocation, MergeIsDue, VerdictStays,
     NothingYet, RefusedStaysRefused

LEMMA DecisionStep == DecisionInv /\ [DecisionNext]_decisionVars => DecisionInv'
<1> SUFFICES ASSUME DecisionInv, [DecisionNext]_decisionVars PROVE DecisionInv'
  OBVIOUS
<1> USE DEF DecisionInv
<1>0. Len(in.policies) \in Nat /\ DOMAIN in.policies = 1..Len(in.policies)
  <2>1. in.policies \in Seq([mode : {"block", "advise"},
                          finds : {"unmatched", "nothing", "block", "warning", "error"}])
    BY DEF Invocation, InputIsSound
  <2> QED  BY <2>1
<1>1. CASE collectContext
  BY <1>1 DEF collectContext, Invocation, MergeIsDue, VerdictStays, NothingYet,
     RefusedStaysRefused, RightVerdict, InputIsSound
<1>2. CASE routeToolUse
  <2>1. /\ at = "route" /\ at' = "evaluate" /\ route' = picked'
        /\ decisions' = IF in.edit THEN <<"block">> ELSE <<>>
        /\ UNCHANGED <<in, upto, status, hookOut, printed, exit>>
    BY <1>2 DEF routeToolUse
  <2>2. Evaluated' = {}
    BY <2>1, <1>0 DEF MergeIsDue, Evaluated
  <2>3. in.edit \in BOOLEAN
    BY DEF Invocation, InputIsSound
  <2>4. decisions' \in Seq(Kinds) /\ (Blocks(decisions') <=> in.edit)
    BY <2>1, <2>3, Single DEF Kinds
  <2> QED  BY <2>1, <2>2, <2>4 DEF Invocation, MergeIsDue, VerdictStays, NothingYet,
           RefusedStaysRefused, Refused, InputIsSound, Blocks
<1>3. CASE evaluateDispatchedPolicies
  <2>0. at = "evaluate" /\ UNCHANGED <<in, route, picked, status, hookOut, printed>>
    BY <1>3 DEF evaluateDispatchedPolicies
  <2>1. CASE /\ at' = "decide" /\ UNCHANGED <<decisions, upto, exit>>
             /\ upto > Len(in.policies) \/ resultStatus(decisions) = "blocked"
    <3>1. upto > Len(in.policies) \/ Blocks(decisions)
      BY <2>1, StatusOf
    <3> QED  BY <2>0, <2>1, <3>1 DEF Invocation, MergeIsDue, VerdictStays, NothingYet,
           RefusedStaysRefused, Refused, InputIsSound, Blocks,
           Evaluated, PolicyBlocks
  <2>2. CASE at' = "done" /\ exit' = 1 /\ UNCHANGED <<decisions, upto>>
    BY <2>0, <2>2 DEF Invocation, MergeIsDue, VerdictStays, NothingYet,
       RefusedStaysRefused, InputIsSound, Nothing
  <2>3. CASE /\ upto <= Len(in.policies) /\ in.policies[upto].finds # "error"
             /\ decisions' = decisions \o evaluateHookPolicy(in.policies[upto])
             /\ upto' = upto + 1 /\ UNCHANGED <<at, exit>>
    <3> DEFINE more == evaluateHookPolicy(in.policies[upto])
    <3>1. upto \in DOMAIN in.policies
      BY <1>0, <2>3 DEF Invocation
    <3>2. more \in Seq(Kinds) /\ (Blocks(more) <=> PolicyBlocks(upto))
      BY <2>3, <3>1, PolicyDecides
    <3> HIDE DEF more
    <3>3. decisions' \in Seq(Kinds)
          /\ (Blocks(decisions') <=> Blocks(decisions) \/ PolicyBlocks(upto))
      BY <2>3, <3>2, BlocksOf DEF Invocation, more
    <3>4. Evaluated' = Evaluated \cup {upto}
      BY <1>0, <2>0, <2>3, <3>1 DEF Invocation, Evaluated
    <3>5. Refused' <=> Refused \/ PolicyBlocks(upto)
      BY <2>0, <3>4 DEF Refused, PolicyBlocks
    <3>6. Invocation'
      BY <1>0, <2>0, <2>3, <3>3 DEF Invocation, InputIsSound
    <3>7. MergeIsDue'
      BY <2>0, <2>3, <3>3, <3>5 DEF MergeIsDue, Blocks
    <3> QED  BY <2>0, <2>3, <3>6, <3>7 DEF VerdictStays, NothingYet,
             RefusedStaysRefused
  <2> QED
    BY <1>0, <1>3, <2>1, <2>2, <2>3
    DEF evaluateDispatchedPolicies, finish, Invocation
<1>4. CASE DecideInspection
  <2>1. /\ at = "decide" /\ at' = "build"
        /\ decisions' = IF routeBlocks /\ ~Blocks(decisions)
                        THEN decisions \o <<"block">> ELSE decisions
        /\ status' = IF Blocks(decisions') THEN "blocked" ELSE "allowed"
        /\ UNCHANGED <<in, picked, upto, hookOut, printed, exit>>
    <3>1. resultStatus(decisions) # "blocked" <=> ~Blocks(decisions)
      BY StatusOf
    <3>2. Append(decisions, "block") = decisions \o <<"block">>
      BY DEF Invocation
    <3>3. resultStatus(decisions') = IF Blocks(decisions') THEN "blocked" ELSE "allowed"
      BY StatusOf
    <3> QED  BY <1>4, <3>1, <3>2, <3>3 DEF DecideInspection
  <2>2. decisions' \in Seq(Kinds)
        /\ (Blocks(decisions') <=> Blocks(decisions) \/ routeBlocks)
    <3>1. /\ decisions \o <<"block">> \in Seq(Kinds) /\ Blocks(decisions \o <<"block">>)
      BY BlocksOf, Single DEF Invocation, Kinds
    <3> QED  BY <2>1, <3>1 DEF Invocation, Blocks
  <2>3. routeBlocks <=>
          \/ picked = "block"
          \/ picked = "rewrite"
             /\ ~providerSupportsUpdatedInput(ctxProvider)
    BY <2>1 DEF routeBlocks, MergeIsDue
  <2>4. Blocks(decisions) \/ routeBlocks <=>
          \/ \E i \in DOMAIN in.policies : PolicyBlocks(i)
          \/ in.edit \/ routeBlocks
    <3>1. Blocks(decisions) <=> Refused
      BY <2>1 DEF MergeIsDue
    <3>2. Refused => in.edit \/ \E i \in DOMAIN in.policies : PolicyBlocks(i)
      BY DEF Refused, Evaluated
    <3>3. upto > Len(in.policies) => Evaluated = DOMAIN in.policies
      BY <1>0 DEF Invocation, Evaluated
    <3> QED  BY <2>1, <3>1, <3>2, <3>3 DEF MergeIsDue, Refused
  <2>5. RightVerdict'
    BY <2>1, <2>2, <2>3, <2>4 DEF RightVerdict, PolicyBlocks,
       providerSupportsUpdatedInput, ctxProvider, Blocks
  <2> QED  BY <2>1, <2>2, <2>5 DEF Invocation, MergeIsDue, VerdictStays, NothingYet,
           RefusedStaysRefused, InputIsSound
<1>5. CASE buildResult
  BY <1>5 DEF buildResult, Invocation, MergeIsDue, VerdictStays, NothingYet,
     RefusedStaysRefused, InputIsSound, RightVerdict,
     PolicyBlocks, providerSupportsUpdatedInput, ctxProvider
<1>6. CASE persistHookResult
  BY <1>6 DEF persistHookResult, finish, Invocation, MergeIsDue,
     VerdictStays, NothingYet, Nothing,
     RefusedStaysRefused, InputIsSound, RightVerdict,
     PolicyBlocks, providerSupportsUpdatedInput, ctxProvider
<1>7. CASE emitHookResult
  <2>1. /\ at = "emit" /\ at' = "done" /\ printed = Nothing
        /\ UNCHANGED <<in, route, picked, decisions, upto, status, hookOut>>
    BY <1>7 DEF emitHookResult, finish, NothingYet
  <2>2. RefusedStaysRefused'
    <3> SUFFICES ASSUME ~in.readOnly, picked = "block" \/ Refused
                 PROVE  /\ exit' # 0
                        /\ printed'.any => printed'.denies
                        /\ printed'.any /\ in.provider # "unknown" /\ ~in.neutral =>
                             printed'.permission # "allow" /\ ~printed'.updated
                        /\ printed'.any /\ in.provider = "kimi" /\ ~in.neutral => exit' = 2
      BY <2>1 DEF RefusedStaysRefused, Refused, Evaluated,
         PolicyBlocks
    <3>1. status = "blocked"
      BY <2>1 DEF VerdictStays, RightVerdict, Refused, Evaluated
    <3>2. CASE exit' = 1 /\ UNCHANGED printed
      BY <2>1, <3>2 DEF Nothing
    <3>3. CASE /\ printed' = CASE in.neutral -> EncodeNeutralHookResultV1
                               [] prints /\ ~in.neutral -> EncodeResult
                               [] ~prints -> Nothing
               /\ exit' = CASE status = "allowed" -> 0
                            [] status = "blocked" /\ in.neutral -> 1
                            [] status = "blocked" /\ ~in.neutral ->
                                 AgentHookBlockedExitCodeForProvider
      <4>1. exit' = IF in.neutral \/ in.provider # "kimi" THEN 1 ELSE 2
        BY <3>1, <3>3 DEF AgentHookBlockedExitCodeForProvider
      <4>2. CASE in.neutral
        <5>1. printed' = EncodeNeutralHookResultV1
          BY <3>3, <4>2 DEF prints
        <5>2. printed'.denies
          BY <3>1, <5>1, SaidDenies DEF EncodeNeutralHookResultV1
        <5> QED  BY <3>1, <4>1, <4>2, <5>2
      <4>3. CASE ~in.neutral /\ ~prints
        <5>1. printed' = Nothing
          BY <3>3, <4>3
        <5> QED  BY <4>1, <5>1 DEF Nothing
      <4>4. CASE ~in.neutral /\ prints
        <5>1. printed' = EncodeResult
          BY <3>3, <4>4
        <5>2. CASE in.provider = "unknown"
          <6>1. printed'.denies
            BY <3>1, <5>1, <5>2, SaidDenies DEF EncodeResult
          <6> QED  BY <4>1, <4>4, <5>2, <6>1
        <5>3. CASE in.provider # "unknown"
          <6>1. printed' = providerBlockedOutput
            BY <3>1, <5>1, <5>3 DEF EncodeResult
          <6> QED  BY <4>1, <4>4, <6>1 DEF providerBlockedOutput, Say
        <5> QED  BY <5>2, <5>3
      <4> QED  BY <4>2, <4>3, <4>4
    <3> QED  BY <1>7, <3>2, <3>3 DEF emitHookResult, finish
  <2> QED  BY <2>1, <2>2 DEF Invocation, MergeIsDue, VerdictStays, NothingYet,
           InputIsSound
<1>8. CASE UNCHANGED decisionVars
  BY <1>8 DEF decisionVars, Invocation, MergeIsDue, VerdictStays, NothingYet,
     RefusedStaysRefused, InputIsSound, RightVerdict, Refused,
     Evaluated, Blocks,
     PolicyBlocks, providerSupportsUpdatedInput, ctxProvider
<1> QED  BY <1>1, <1>2, <1>3, <1>4, <1>5, <1>6, <1>7, <1>8 DEF DecisionNext

LEMMA DecisionInvariance == DecisionSpec => []DecisionInv
BY DecisionInvInit, DecisionStep, PTL DEF DecisionSpec

\* The merged verdict is the configured one, for any invocation with any number of
\* policies and routes: a policy that ends the evaluation has decided it.
THEOREM VerdictIsRightHolds == DecisionSpec => []VerdictIsRight
<1>1. DecisionInv => VerdictIsRight
  BY DEF DecisionInv, VerdictStays, RightVerdict, VerdictIsRight
<1> QED  BY DecisionInvariance, <1>1, PTL

\* What was refused is refused to the end, in the exit code and in what the agent's
\* provider is told, whichever step fails.
THEOREM RefusedStaysRefusedHolds == DecisionSpec => []RefusedStaysRefused
<1>1. DecisionInv => RefusedStaysRefused
  BY DEF DecisionInv
<1> QED  BY DecisionInvariance, <1>1, PTL
=============================================================================
