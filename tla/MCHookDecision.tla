--------------------------- MODULE MCHookDecision ---------------------------
(* Hook invocations for TLC: at most two policies and two command routes.   *)
EXTENDS HookDecision, TLC

Entry == [mode : {"block", "advise"}, finds : {"unmatched", "block", "error"}]
           \cup {[mode |-> "block", finds |-> "warning"],
                 [mode |-> "block", finds |-> "nothing"],
                 [mode |-> "advise", finds |-> "nothing"]}
\* A second policy is of interest behind one that does not end the evaluation.
GoesOn == {[mode |-> "advise", finds |-> "block"],
           [mode |-> "block", finds |-> "unmatched"],
           [mode |-> "block", finds |-> "warning"]}
Policies == {<<>>} \cup {<<p>> : p \in Entry}
              \cup {<<p, q>> : p \in GoesOn, q \in Entry}
CommandRoutes == {<<p, q>> : p, q \in RouteKind}

\* Who asks, and what the output is for; the neutral contract prints with and
\* without --json.
Caller == {c \in [provider : Provider, context : BOOLEAN, neutral : BOOLEAN,
                  json : BOOLEAN] : ~(c.json /\ c.neutral)}

\* What is asked.
Plain == [event |-> "PreToolUse", tool |-> "Bash", memory |-> "none",
          batch |-> FALSE, settings |-> TRUE, debug |-> FALSE, edit |-> FALSE,
          readOnly |-> FALSE, commandRoutes |-> <<>>, policies |-> <<>>]
BashCalls ==
  {[Plain EXCEPT !.batch = x, !.debug = d, !.commandRoutes = r, !.policies = p] :
     x \in BOOLEAN, d \in BOOLEAN, r \in CommandRoutes,
     p \in {<<>>} \cup {<<q>> : q \in Entry}}
FileCalls ==
  {[Plain EXCEPT !.tool = "File", !.memory = m, !.settings = s, !.edit = e,
                 !.policies = p] :
     m \in {"none", "claude", "codex", "gemini"}, s \in BOOLEAN, e \in BOOLEAN,
     p \in Policies}
Stops == {[Plain EXCEPT !.event = "Stop", !.policies = p] : p \in Policies}
ReadOnlyCalls == {[Plain EXCEPT !.readOnly = TRUE, !.policies = p] : p \in Policies}

MCInput ==
  {c @@ q : c \in Caller, q \in BashCalls \cup FileCalls \cup Stops}
    \cup {c @@ q : c \in {d \in Caller : d.provider \in {"unknown", "codex"}},
                  q \in ReadOnlyCalls}
=============================================================================
