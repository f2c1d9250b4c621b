----------------------------- MODULE HookSession -----------------------------
(***************************************************************************)
(* Hook processes sharing a session record on disk                         *)
(* (withLifecycleSessionRecord in go/internal/hooks/lifecycle_session.go   *)
(* and its two callers).                                                   *)
(*                                                                         *)
(* An agent runs tools in parallel, and every tool call starts hook        *)
(* processes.  A process enters the record twice: transitionLifecycle-     *)
(* Session, and correlateRemediationEvents when it writes its trace.  Each *)
(* time it takes a flock, reads the file, applies the event, and, if the   *)
(* record changed, writes a temporary file and renames it into place.  The *)
(* kernel drops the flock of a process that dies.  When anything fails the *)
(* hook carries on without the record.                                     *)
(***************************************************************************)
EXTENDS Integers, Sequences, FiniteSets

CONSTANTS Hook,       \* slots for hook processes that run at the same time
          Event, MaxRefs,
          MaxHooks,   \* bound: hook invocations in one behaviour
          MaxFaults   \* bound: crashes and I/O errors in one behaviour

ASSUME HookAssumption == "Nobody" \notin Hook
ASSUME BoundAssumption == MaxHooks \in Nat /\ MaxFaults \in Nat /\ MaxRefs \in Nat \ {0}

VARIABLES rec,        \* the session file
          settled,    \* outcomes decided by records renamed into place
          evidence,   \* outcomes written to a trace
          flock,      \* the process that holds the flock, or "Nobody"
          pc, event, trace,
          next,       \* the record a process is about to write
          found,      \* the outcomes that go with it
          told,       \* the transition a process was given
          started,    \* hook invocations so far
          faults

file == <<rec, settled>>
local == <<event, trace, next, found, told>>
vars == <<file, evidence, flock, pc, local, started, faults>>

\* Traces with which no process can come to the record any more.
past == (1..started) \ {trace[h] : h \in {g \in Hook : pc[g] \notin {"idle", "writeTrace"}}}

\* The refinement mapping: the abstract record is the file on disk, its outcomes
\* are those of the records renamed into place, a trace is a hook's number.
Session == INSTANCE SessionRecord
             WITH rec <- rec, settled <- settled, past <- past, Event <- Event,
                  MaxRefs <- MaxRefs, Trace <- 1..MaxHooks

\* files, text: supported source files or coding words in the event; empty: no
\* content; edit: an edit tool; rc, status: a non-zero return code, a failed
\* status in the response; rems: the remediations of this hook's decisions.
ASSUME EventAssumption ==
  \A e \in Event :
     /\ DOMAIN e = {"name", "tool", "files", "text", "empty", "edit", "rc",
                    "status", "blocked", "rems"}
     /\ e.name \in Session!EventName
     /\ {e.files, e.text, e.empty, e.edit, e.rc, e.status, e.blocked} \subseteq BOOLEAN
     /\ ~(e.text /\ e.empty)
     /\ e.rems \in Seq(Session!ToSet(e.rems))

Entering == {"lockTransition", "lockCorrelate"}
Reading == {"readTransition", "readCorrelate"}
Writing == {"writeTransition", "writeCorrelate"}
Holding == Reading \cup Writing
Place == Entering \cup Holding \cup {"idle", "writeTrace"}

NoEvent == [name |-> "None"]
NotTold == [relevant |-> FALSE, batchReady |-> FALSE, started |-> FALSE,
            stopped |-> FALSE]

TypeOK ==
  /\ Session!TypeOK
  /\ flock \in Hook \cup {"Nobody"}
  /\ pc \in [Hook -> Place]
  /\ \A h \in Hook : pc[h] # "idle" => event[h] \in Event /\ trace[h] \in 1..MaxHooks
  /\ DOMAIN told = Hook /\ \A h \in Hook : DOMAIN told[h] = DOMAIN NotTold
  /\ started \in 0..MaxHooks /\ faults \in 0..MaxFaults

Init ==
  /\ rec = Session!EmptyRecord /\ settled = {}
  /\ evidence = {} /\ flock = "Nobody"
  /\ pc = [h \in Hook |-> "idle"]
  /\ event = [h \in Hook |-> NoEvent]
  /\ trace = [h \in Hook |-> 0]
  /\ next = [h \in Hook |-> Session!EmptyRecord]
  /\ found = [h \in Hook |-> {}]
  /\ told = [h \in Hook |-> NotTold]
  /\ started = 0 /\ faults = 0

written(h) == next' = [next EXCEPT ![h] = Session!EmptyRecord]
goto(h, place) == pc' = [pc EXCEPT ![h] = place]
Fault == faults < MaxFaults /\ faults' = faults + 1

\* Where a hook goes after its transition.
afterTransition(e) ==
  IF Session!correlates(e) THEN "lockCorrelate" ELSE "writeTrace"

-----------------------------------------------------------------------------
\* A hook process starts on an event; only some events need the record.
StartHook(h, e) ==
  /\ pc[h] = "idle" /\ started < MaxHooks
  /\ started' = started + 1
  /\ event' = [event EXCEPT ![h] = e]
  /\ trace' = [trace EXCEPT ![h] = started + 1]
  /\ IF Session!lifecycleSessionEventRequiresState(e)
     THEN goto(h, "lockTransition") /\ UNCHANGED told
     ELSE /\ goto(h, afterTransition(e))
          /\ told' = [told EXCEPT ![h] = Session!lifecycleTransitionWithoutSession(e)]
  /\ UNCHANGED <<file, evidence, flock, next, found, faults>>

\* Mutant: opens the lock file without locking it.
MutantNoFlock(h) ==
  /\ pc[h] \in Entering
  /\ goto(h, IF pc[h] = "lockTransition" THEN "readTransition" ELSE "readCorrelate")
  /\ UNCHANGED <<file, evidence, flock, local, started, faults>>

\* withLifecycleSessionRecord: flock(LOCK_EX) ...
lockRecord(h) ==
  /\ pc[h] \in Entering
  /\ flock = "Nobody"
  /\ flock' = h
  /\ goto(h, IF pc[h] = "lockTransition" THEN "readTransition" ELSE "readCorrelate")
  /\ UNCHANGED <<file, evidence, local, started, faults>>

\* ... read the file and apply the event ...
readTransition(h) ==
  /\ pc[h] = "readTransition"
  /\ next' = [next EXCEPT ![h] = Session!applyLifecycleSessionEvent(event[h], rec)]
  /\ told' = [told EXCEPT ![h] = Session!transitionOf(event[h], rec)]
  /\ goto(h, "writeTransition")
  /\ UNCHANGED <<file, evidence, flock, event, trace, found, started, faults>>

readCorrelate(h) ==
  /\ pc[h] = "readCorrelate"
  /\ LET done == Session!applyRemediationCorrelation(event[h], trace[h], rec)
     IN  /\ next' = [next EXCEPT ![h] = done.rec]
         /\ found' = [found EXCEPT ![h] = done.events]
  /\ goto(h, "writeCorrelate")
  /\ UNCHANGED <<file, evidence, flock, event, trace, told, started, faults>>

\* ... rename the new file into place, and drop the flock.
writeTransition(h) ==
  /\ pc[h] = "writeTransition"
  /\ rec' = next[h] /\ written(h)
  /\ flock' = "Nobody"
  /\ goto(h, afterTransition(event[h]))
  /\ UNCHANGED <<settled, evidence, event, trace, found, told, started, faults>>

writeCorrelate(h) ==
  /\ pc[h] = "writeCorrelate"
  /\ rec' = next[h] /\ written(h)
  /\ settled' = settled \cup found[h]
  /\ flock' = "Nobody"
  /\ goto(h, "writeTrace")
  /\ UNCHANGED <<evidence, event, trace, found, told, started, faults>>

Forget(h) ==
  /\ event' = [event EXCEPT ![h] = NoEvent]
  /\ trace' = [trace EXCEPT ![h] = 0]
  /\ next' = [next EXCEPT ![h] = Session!EmptyRecord]
  /\ found' = [found EXCEPT ![h] = {}]
  /\ told' = [told EXCEPT ![h] = NotTold]

\* WriteAgentHookTrace writes event.json into the hook's own run directory.
writeTrace(h) ==
  /\ pc[h] = "writeTrace"
  /\ evidence' = evidence \cup found[h]
  /\ goto(h, "idle")
  /\ Forget(h)
  /\ UNCHANGED <<file, flock, started, faults>>

-----------------------------------------------------------------------------

\* Mutant: the error path keeps the lock file open.
MutantErrorKeepsFlock(h) ==
  /\ pc[h] \in {"readTransition", "writeTransition"}
  /\ Fault
  /\ told' = [told EXCEPT ![h] =
                Session!lifecycleTransitionWithoutSession(event[h])]
  /\ goto(h, afterTransition(event[h]))
  /\ UNCHANGED <<file, evidence, flock, event, trace, next, found, started>>

\* Anything about the record fails: transitionLifecycleSession goes on without
\* the session, correlateRemediationEvents without outcomes.  The last thing that
\* can fail, unlocking, comes after the rename.
recordError(h) ==
  /\ pc[h] \in Entering \cup Holding
  /\ Fault
  /\ flock' = IF flock = h THEN "Nobody" ELSE flock
  /\ IF pc[h] \in {"lockTransition", "readTransition", "writeTransition"}
     THEN /\ told' = [told EXCEPT ![h] =
                        Session!lifecycleTransitionWithoutSession(event[h])]
          /\ goto(h, afterTransition(event[h]))
          /\ UNCHANGED found
     ELSE /\ found' = [found EXCEPT ![h] = {}]
          /\ goto(h, "writeTrace")
          /\ UNCHANGED told
  /\ \/ UNCHANGED file
     \/ /\ pc[h] \in Writing
        /\ rec' = next[h]
        /\ settled' = settled \cup found[h]
  /\ written(h)
  /\ UNCHANGED <<evidence, event, trace, started>>

\* A hook process dies, or is killed at the agent's timeout.
Crash(h) ==
  /\ pc[h] # "idle"
  /\ Fault
  /\ flock' = IF flock = h THEN "Nobody" ELSE flock
  /\ goto(h, "idle")
  /\ Forget(h)
  /\ UNCHANGED <<file, evidence, started>>

Step(h) ==
  \/ lockRecord(h) \/ readTransition(h) \/ readCorrelate(h)
  \/ writeTransition(h) \/ writeCorrelate(h) \/ writeTrace(h)

Next ==
  \E h \in Hook :
    \/ \E e \in Event : StartHook(h, e)
    \/ Step(h) \/ recordError(h) \/ Crash(h)

\* A process runs on; flock(2) has no queue, so only a lock that stays free is
\* sure to be taken.
Fairness == \A h \in Hook : WF_vars(Step(h))

Spec == Init /\ [][Next]_vars /\ Fairness

-----------------------------------------------------------------------------
\* Hook processes with a file, a flock, crashes and errors implement a record
\* to which events are applied one at a time: no update is lost or repeated.
ImplementsRecord == Session!Init /\ [][Session!Next]_(Session!vars)

\* Outcomes reported in traces are outcomes the record decided: no suggestion is
\* reported twice, and none is reported while it is still in the record.
ReportedOnce ==
  /\ evidence \subseteq settled
  /\ Session!OneOutcome

\* A batch waiting for guidance and an open subagent belong to a session that is
\* known to be about code, whatever events of an ended session arrive late.
PendingWorkIsRelevant == Session!PendingWorkIsRelevant

\* Guidance is given once: the hook that is told of a finished batch or of a
\* subagent's end is the one whose rename takes it out of the record.
GuidanceOnce ==
  [][\A h \in Hook :
       pc[h] = "writeTransition" /\ pc'[h] # pc[h] /\ faults' = faults =>
         /\ told[h].batchReady => rec.batch /\ ~rec'.batch
         /\ told[h].stopped => rec'.subagents = rec.subagents - 1
         /\ told[h].started => rec'.subagents = rec.subagents + 1]_vars

\* Every hook ends: no flock outlives its process, and a process whose first
\* visit to the record failed does not lock itself out of the second.
EveryHookEnds == \A h \in Hook : pc[h] # "idle" ~> pc[h] = "idle"
=============================================================================
