---------------------------- MODULE SessionRecord ----------------------------
(***************************************************************************)
(* What a hook session promises (go/internal/hooks/lifecycle_session.go    *)
(* and remediation_correlation.go): one record per agent session, to which *)
(* the events of the session are applied one at a time.                    *)
(*                                                                         *)
(* An event reaches the record twice, once for its lifecycle transition    *)
(* and once, when the hook writes its trace, for the remediations that     *)
(* hooks suggested earlier.  A suggestion is a reference: what was         *)
(* suggested, by which trace, for which tool.  It is pending until the     *)
(* tool is called again, attempted until the call has a result, and then   *)
(* settled.  HookSession shows that hook processes with files and locks    *)
(* implement this.                                                         *)
(***************************************************************************)
EXTENDS Integers, Sequences, FiniteSets, SequencesExt

CONSTANTS Event,      \* the events a session may see
          Trace,      \* trace ids, one per hook invocation
          MaxRefs     \* maxPendingRemediationReferences (32)

EventName == {"SessionStart", "UserPromptSubmit", "PreToolUse", "PostToolUse",
              "PostToolBatch", "SubagentStart", "SubagentStop", "Stop",
              "SessionEnd"}

VARIABLES rec,       \* the session record
          settled,   \* outcomes decided so far: <<reference, outcome>>
          past       \* traces of hooks that come to the record no more

vars == <<rec, settled, past>>

EmptyRecord == [pending |-> <<>>, attempted |-> <<>>, subagents |-> 0,
                relevant |-> FALSE, batch |-> FALSE]

-----------------------------------------------------------------------------
lifecycleEventRelevant(e) == e.files \/ e.text

lifecycleSessionEventRequiresState(e) ==
  \/ e.name \in {"SessionStart", "PostToolBatch", "Stop", "SessionEnd",
                 "SubagentStop"}
  \/ e.name = "UserPromptSubmit" /\ lifecycleEventRelevant(e)
  \/ e.name = "SubagentStart" /\ (e.empty \/ lifecycleEventRelevant(e))
  \/ e.name = "PostToolUse" /\ ((e.edit /\ e.files) \/ e.rc)

postToolBatchGuidanceRelevant(e, sessionRelevant) ==
  sessionRelevant /\ IF e.edit THEN e.files ELSE e.rc

\* Mutant: the end of a session keeps its subagents.
MutantEndKeepsSubagents(r) == [r EXCEPT !.relevant = FALSE, !.batch = FALSE]

endSession(r) ==
  [r EXCEPT !.relevant = FALSE, !.batch = FALSE, !.subagents = 0]

\* The record's part of applyLifecycleSessionEvent, after relevance is noted.
applyNoted(e, r) ==
  CASE e.name = "PostToolUse" ->
         [r EXCEPT !.batch = @ \/ postToolBatchGuidanceRelevant(e, r.relevant)]
    [] e.name = "PostToolBatch" -> [r EXCEPT !.batch = FALSE]
    [] e.name = "SubagentStart" ->
         IF r.relevant /\ (e.empty \/ lifecycleEventRelevant(e))
         THEN [r EXCEPT !.subagents = @ + 1] ELSE r
    [] e.name = "SubagentStop" ->
         IF r.subagents > 0 THEN [r EXCEPT !.subagents = @ - 1] ELSE r
    [] e.name = "SessionEnd" -> endSession(r)
    [] OTHER -> r

noteRelevance(e, r) ==
  [r EXCEPT !.relevant = @ \/ lifecycleEventRelevant(e)]

applyLifecycleSessionEvent(e, r) == applyNoted(e, noteRelevance(e, r))

\* Mutant: every stop is taken for the stop of a known subagent.
MutantStopUnmatched(e, r) ==
  [relevant |-> r.relevant \/ lifecycleEventRelevant(e),
   batchReady |-> e.name = "PostToolBatch" /\ r.batch,
   started |-> FALSE,
   stopped |-> e.name = "SubagentStop"]

\* What the hook is told: the transition it builds its guidance from.
transitionOf(e, r) ==
  [relevant |-> r.relevant \/ lifecycleEventRelevant(e),
   batchReady |-> e.name = "PostToolBatch" /\ r.batch,
   started |-> e.name = "SubagentStart"
               /\ (r.relevant \/ lifecycleEventRelevant(e))
               /\ (e.empty \/ lifecycleEventRelevant(e)),
   stopped |-> e.name = "SubagentStop" /\ r.subagents > 0]

lifecycleTransitionWithoutSession(e) ==
  [relevant |-> lifecycleEventRelevant(e),
   batchReady |-> e.name = "PostToolBatch" /\ lifecycleEventRelevant(e),
   started |-> FALSE, stopped |-> FALSE]

-----------------------------------------------------------------------------
\* Only the newest references are kept.
cappedRemediationReferences(refs) ==
  IF Len(refs) <= MaxRefs THEN refs
  ELSE SubSeq(refs, Len(refs) - MaxRefs + 1, Len(refs))

\* The loops that collect or drop references: what of a sequence is in a set.
kept(refs, S) ==
  LET after[i \in 0..Len(refs)] ==
        IF i = 0 THEN <<>>
        ELSE IF refs[i] \in S THEN Append(after[i - 1], refs[i]) ELSE after[i - 1]
  IN  after[Len(refs)]

ofTool(refs, tool) == kept(refs, {x \in ToSet(refs) : x.tool = tool})
withoutRemediationTool(refs, tool) == kept(refs, {x \in ToSet(refs) : x.tool # tool})

remediationReferences(e, t) ==
  [i \in DOMAIN e.rems |-> [rem |-> e.rems[i], src |-> t, tool |-> e.tool]]

remediationRepeated(pending, e) ==
  pending.tool = e.tool /\ \E i \in DOMAIN e.rems : e.rems[i] = pending.rem

\* The outcome of each reference of a sequence.
remediationOutcomeEvents(refs, outcome) == {<<x, outcome>> : x \in ToSet(refs)}

correlateRepeatedRemediations(e, t, r) ==
  LET hit == {x \in ToSet(r.pending) : remediationRepeated(x, e)}
      repeated == kept(r.pending, hit)
      remaining == kept(r.pending, ToSet(r.pending) \ hit)
  IN  [rec |-> [r EXCEPT !.pending = cappedRemediationReferences(
                                       remaining \o remediationReferences(e, t)),
                         !.attempted = withoutRemediationTool(@, e.tool)],
       events |-> remediationOutcomeEvents(repeated, "repeated")]

\* Mutant: an attempted reference stays pending.
MutantAttemptKeepsPending(e, r) ==
  LET matched == ofTool(r.pending, e.tool)
  IN  [rec |-> [r EXCEPT !.attempted = cappedRemediationReferences(@ \o matched)],
       events |-> remediationOutcomeEvents(matched, "attempted")]

correlateRemediationAttempt(e, r) ==
  LET matched == ofTool(r.pending, e.tool)
  IN  [rec |-> [r EXCEPT !.pending = withoutRemediationTool(@, e.tool),
                         !.attempted = cappedRemediationReferences(@ \o matched)],
       events |-> remediationOutcomeEvents(matched, "attempted")]

correlateRemediationResult(e, r) ==
  LET matched == ofTool(r.attempted, e.tool)
  IN  [rec |-> [r EXCEPT !.attempted = withoutRemediationTool(@, e.tool)],
       events |-> remediationOutcomeEvents(
                    matched, IF e.rc \/ e.status THEN "repeated" ELSE "fixed")]

abandonPendingRemediations(r) ==
  [rec |-> [r EXCEPT !.pending = <<>>, !.attempted = <<>>],
   events |-> remediationOutcomeEvents(r.pending \o r.attempted, "abandoned")]

\* The events correlateRemediationEvents looks at the record for.
correlates(e) ==
  e.rems # <<>> \/ e.name \in {"PreToolUse", "PostToolUse", "SessionEnd"}

applyRemediationCorrelation(e, t, r) ==
  CASE e.rems # <<>> -> correlateRepeatedRemediations(e, t, r)
    [] e.rems = <<>> /\ e.blocked -> [rec |-> r, events |-> {}]
    [] e.rems = <<>> /\ ~e.blocked /\ e.name = "PreToolUse" ->
         correlateRemediationAttempt(e, r)
    [] e.rems = <<>> /\ ~e.blocked /\ e.name = "PostToolUse" ->
         correlateRemediationResult(e, r)
    [] e.rems = <<>> /\ ~e.blocked /\ e.name = "SessionEnd" ->
         abandonPendingRemediations(r)
    [] OTHER -> [rec |-> r, events |-> {}]

-----------------------------------------------------------------------------
References == ToSet(rec.pending) \cup ToSet(rec.attempted)

Init == rec = EmptyRecord /\ settled = {} /\ past = {}

\* The first visit of a hook, or its only one.
Transition(e, t) ==
  /\ lifecycleSessionEventRequiresState(e)
  /\ t \notin past /\ past' = IF correlates(e) THEN past ELSE past \cup {t}
  /\ rec' = applyLifecycleSessionEvent(e, rec)
  /\ UNCHANGED settled

\* The last visit: every trace is correlated once.
Correlate(e, t) ==
  /\ correlates(e)
  /\ t \notin past /\ past' = past \cup {t}
  /\ LET done == applyRemediationCorrelation(e, t, rec)
     IN  rec' = done.rec /\ settled' = settled \cup done.events

\* A hook that comes to the record no more.
Drop(t) ==
  /\ t \notin past /\ past' = past \cup {t}
  /\ UNCHANGED <<rec, settled>>

Next ==
  \E t \in Trace : Drop(t) \/ \E e \in Event : Transition(e, t) \/ Correlate(e, t)

Spec == Init /\ [][Next]_vars

-----------------------------------------------------------------------------
Final == {"fixed", "repeated", "abandoned"}

TypeOK ==
  /\ past \subseteq Trace
  /\ rec.subagents \in Nat /\ rec.relevant \in BOOLEAN /\ rec.batch \in BOOLEAN
  /\ Len(rec.pending) <= MaxRefs /\ Len(rec.attempted) <= MaxRefs
  /\ \A x \in References : x.src \in Trace
  /\ \A s \in settled : s[2] \in Final \cup {"attempted"}

\* A batch waiting for guidance and an open subagent belong to a session that is
\* known to be about code: nothing of an ended session is left over.
PendingWorkIsRelevant == rec.batch \/ rec.subagents > 0 => rec.relevant

\* A suggestion has at most one final outcome, it is pending or attempted but
\* not both, and once it has its outcome it has left the record.
OneOutcome ==
  /\ ToSet(rec.pending) \cap ToSet(rec.attempted) = {}
  /\ \A s \in settled : s[2] \in Final =>
        /\ s[1] \notin References
        /\ \A u \in settled : u[1] = s[1] /\ u[2] \in Final => u = s
=============================================================================
