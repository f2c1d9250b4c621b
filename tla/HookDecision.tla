---------------------------- MODULE HookDecision ----------------------------
(***************************************************************************)
(* One agent hook invocation, from the decoded event to the exit code      *)
(* (go/internal/hooks/runner.go, inspection.go, memory_route.go,           *)
(* debug_flag.go, provider_output.go, contract_v1.go and                   *)
(* go/internal/hookcli/main.go).                                           *)
(*                                                                         *)
(* The hook picks a route for the tool call (block it, or rewrite its      *)
(* input), evaluates the dispatched policies until one blocks, merges both *)
(* into a decision, builds a result, writes the trace, and prints what the *)
(* agent's provider understands.  What the routes and the evaluators find  *)
(* in a command is input here; how the findings combine is the model.      *)
(***************************************************************************)
EXTENDS Integers, Sequences, FiniteSets

CONSTANTS Input,    \* the invocations to consider, see InputAssumption
          Faults    \* which steps may fail: a subset of FaultPoint

FaultPoint == {"ensure", "trace", "encode"}
Provider == {"claude", "codex", "coding-ethos", "gemini", "kimi", "unknown"}
RouteKind == {"none", "block", "rewrite"}

ASSUME FaultAssumption == Faults \subseteq FaultPoint
\* batch: the call is a parallel batch.  memory: the provider whose memory file
\* a file tool was called on; settings: can the memory settings be read.
\* commandRoutes: what each command route says of a Bash call, in order.
\* debug: the command carried the debug flag.  edit: an edit that must go through
\* search and replace.  policies: dispatch mode and evaluators' finding.
\* readOnly: an administrator approved read-only commands and this is one.
\* context: the event has guidance to give.  neutral: the neutral contract is
\* selected.  json: the hook was started with --json.
InputIsSound ==
  \A in \in Input :
     /\ in.provider \in Provider /\ in.event \in {"PreToolUse", "Stop"}
     /\ in.tool \in {"Bash", "File"}
     /\ in.memory \in {"none", "claude", "codex", "gemini"}
     /\ {in.batch, in.settings, in.debug, in.edit, in.readOnly, in.context,
         in.neutral, in.json} \subseteq BOOLEAN
     /\ in.commandRoutes \in Seq(RouteKind)
     /\ in.policies \in Seq([mode : {"block", "advise"},
                             finds : {"unmatched", "nothing", "block", "warning",
                                      "error"}])
     /\ in.tool = "Bash" => in.memory = "none" /\ ~in.edit
     /\ in.tool = "File" => in.commandRoutes = <<>> /\ ~in.debug /\ ~in.readOnly
     /\ in.event = "Stop" => /\ in.commandRoutes = <<>> /\ in.memory = "none"
                             /\ ~in.batch /\ ~in.debug /\ ~in.edit /\ ~in.readOnly
     /\ in.readOnly => in.provider \in {"unknown", "codex"}

ASSUME InputAssumption == InputIsSound

VARIABLES in,        \* the invocation
          at,
          route,     \* the route, as RouteKind
          picked,    \* the route routeToolUse picked, before anything changed it
          decisions, \* "block" or "advise", in order
          upto,      \* the policy to evaluate next
          status,    \* "allowed" or "blocked"
          hookOut,   \* HookSpecificOutput of the result
          printed,   \* what went to stdout
          exit       \* exit code, -1 while running

decisionVars == <<in, at, route, picked, decisions, upto, status, hookOut, printed, exit>>

NoOutput == [has |-> FALSE, permission |-> "none", updated |-> FALSE,
             context |-> FALSE]
Nothing == [any |-> FALSE, denies |-> FALSE, permission |-> "none",
            updated |-> FALSE]

DecisionTypeOK ==
  /\ at \in {"collect", "route", "evaluate", "decide", "build", "persist",
             "emit", "done"}
  /\ route \in RouteKind /\ picked \in RouteKind
  /\ \A i \in DOMAIN decisions : decisions[i] \in {"block", "advise"}
  /\ upto \in 1..(Len(in.policies) + 1)
  /\ status \in {"allowed", "blocked"}
  /\ hookOut.permission \in {"none", "allow", "deny"}
  /\ printed.permission \in {"none", "allow", "deny"}
  /\ exit \in -1..2 /\ (exit = -1 <=> at # "done")

DecisionInit ==
  /\ in \in Input
  /\ at = "collect" /\ route = "none" /\ picked = "none"
  /\ decisions = <<>> /\ upto = 1 /\ status = "allowed"
  /\ hookOut = NoOutput /\ printed = Nothing /\ exit = -1

-----------------------------------------------------------------------------
providerSupportsUpdatedInput(p) == p \in {"claude", "coding-ethos", "gemini"}

\* CollectInspectionContext: for a managed memory file the provider that owns the
\* file stands in for the agent's own, if it can be rewritten for.
ctxProvider ==
  IF in.settings /\ providerSupportsUpdatedInput(in.memory)
  THEN in.memory ELSE in.provider

resultStatus(ds) ==
  IF \E i \in DOMAIN ds : ds[i] = "block" THEN "blocked" ELSE "allowed"

finish(code) == at' = "done" /\ exit' = code

\* RunWithRegistry: approved read-only commands skip everything but the trace.
collectContext ==
  /\ at = "collect"
  /\ at' = IF in.readOnly THEN "persist" ELSE "route"
  /\ UNCHANGED <<in, route, picked, decisions, upto, status, hookOut, printed, exit>>

\* memoryFileToolRouteFor, with the outcome of memories.Ensure.
memoryRouteFor(ensured) ==
  CASE in.memory = "none" -> "none"
    [] in.memory # "none" /\ ~in.settings -> "block"
    [] in.memory # "none" /\ in.settings ->
         IF (providerSupportsUpdatedInput(in.provider)
               \/ providerSupportsUpdatedInput(in.memory)) /\ ensured
         THEN "rewrite" ELSE "block"

firstRoute(routes) ==
  IF \A i \in DOMAIN routes : routes[i] = "none" THEN "none"
  ELSE routes[CHOOSE i \in DOMAIN routes :
                /\ routes[i] # "none"
                /\ \A j \in 1..(i - 1) : routes[j] = "none"]

\* routeToolUse: the first route function with something to say wins.
routeToolUse ==
  /\ at = "route"
  /\ \E ensured \in {TRUE} \cup (IF "ensure" \in Faults THEN {FALSE} ELSE {}) :
       picked' = firstRoute(<<IF in.batch THEN "block" ELSE "none",
                              memoryRouteFor(ensured)>> \o in.commandRoutes)
  /\ route' = picked'
  /\ decisions' = IF in.edit THEN <<"block">> ELSE <<>>
  /\ at' = "evaluate"
  /\ UNCHANGED <<in, upto, status, hookOut, printed, exit>>

\* What evaluateHookPolicy returns for an entry: nothing if its patterns do not
\* match, its evaluators' findings in the entry's mode, or the mode's own note.
evaluateHookPolicy(entry) ==
  CASE entry.finds = "unmatched" -> <<>>
    [] entry.finds # "unmatched" /\ entry.mode = "advise" -> <<"advise">>
    [] entry.finds = "block" /\ entry.mode = "block" -> <<"block">>
    [] entry.finds = "warning" /\ entry.mode = "block" -> <<"advise">>
    [] entry.finds = "nothing" /\ entry.mode = "block" -> <<>>

\* evaluateDispatchedPolicies: in order, until a block or an error.  A block from
\* the edit check does not keep the first policy from being evaluated.
evaluateDispatchedPolicies ==
  /\ at = "evaluate"
  /\ IF \/ upto > Len(in.policies)
        \/ upto > 1 /\ resultStatus(decisions) = "blocked"
     THEN /\ at' = "decide" /\ UNCHANGED <<decisions, upto, exit>>
     ELSE IF in.policies[upto].finds = "error"
     THEN finish(1) /\ UNCHANGED <<decisions, upto>>
     ELSE /\ decisions' = decisions \o evaluateHookPolicy(in.policies[upto])
          /\ upto' = upto + 1
          /\ UNCHANGED <<at, exit>>
  /\ UNCHANGED <<in, route, picked, status, hookOut, printed>>

-----------------------------------------------------------------------------
\* DecideInspection's added decision: a rewrite nobody can apply, or a block.
routeBlocks ==
  \/ route = "block"
  \/ route = "rewrite" /\ ~providerSupportsUpdatedInput(ctxProvider)

\* Mutant: an unsupported rewrite is dropped instead of blocked.
MutantDecideDropsRewrite ==
  /\ at = "decide"
  /\ decisions' = IF route = "block" THEN Append(decisions, "block") ELSE decisions
  /\ status' = resultStatus(decisions')
  /\ route' = IF status' = "blocked" \/ routeBlocks THEN "none" ELSE route
  /\ at' = "build"
  /\ UNCHANGED <<in, picked, upto, hookOut, printed, exit>>

\* DecideInspection: the route is cleared when the call is blocked.
DecideInspection ==
  /\ at = "decide"
  /\ decisions' = IF routeBlocks /\ resultStatus(decisions) # "blocked"
                  THEN Append(decisions, "block") ELSE decisions
  /\ status' = resultStatus(decisions')
  /\ route' = IF status' = "blocked" THEN "none" ELSE route
  /\ at' = "build"
  /\ UNCHANGED <<in, picked, upto, hookOut, printed, exit>>

\* routeWithDebugEnv, applied to the decided route.
routeWithDebugEnv ==
  IF in.debug /\ in.event = "PreToolUse" THEN "rewrite" ELSE route

\* hookSpecificOutput and blockedHookSpecificOutput.
hookSpecificOutput(r) ==
  CASE r = "rewrite" -> [has |-> TRUE, permission |-> "allow", updated |-> TRUE,
                         context |-> FALSE]
    [] r # "rewrite" /\ in.context -> [NoOutput EXCEPT !.has = TRUE, !.context = TRUE]
    [] r # "rewrite" /\ ~in.context ->
         IF status = "blocked" /\ in.event = "PreToolUse" /\ in.provider = "unknown"
         THEN [NoOutput EXCEPT !.has = TRUE, !.permission = "deny"]
         ELSE NoOutput

buildResult ==
  /\ at = "build"
  /\ route' = routeWithDebugEnv
  /\ hookOut' = hookSpecificOutput(routeWithDebugEnv)
  /\ at' = "persist"
  /\ UNCHANGED <<in, picked, decisions, upto, status, printed, exit>>

\* persistHookResult: an error ends the hook before it prints anything.
persistHookResult ==
  /\ at = "persist"
  /\ \/ at' = "emit" /\ UNCHANGED exit
     \/ "trace" \in Faults /\ finish(1)
  /\ UNCHANGED <<in, route, picked, decisions, upto, status, hookOut, printed>>

-----------------------------------------------------------------------------
Say(denies, permission, updated) ==
  [any |-> TRUE, denies |-> denies, permission |-> permission, updated |-> updated]

\* providerBlockedOutput: every provider has its own way to say no.
providerBlockedOutput ==
  Say(TRUE, IF \/ in.provider = "gemini"
               \/ in.provider = "codex" /\ in.event # "PreToolUse"
            THEN "none" ELSE "deny", FALSE)

\* providerOutput for a call that is not blocked.
providerAllowedOutput ==
  CASE ~hookOut.has -> Nothing
    [] hookOut.has /\ in.provider = "codex" ->
         IF hookOut.updated THEN Say(FALSE, hookOut.permission, TRUE)
         ELSE IF in.event = "Stop" THEN Say(FALSE, "none", FALSE) ELSE Nothing
    [] hookOut.has /\ in.provider = "kimi" ->
         CASE ~hookOut.context -> Nothing
           [] hookOut.context /\ in.event = "Stop" -> Say(TRUE, "deny", FALSE)
           [] OTHER -> Say(FALSE, "none", FALSE)
    [] hookOut.has /\ in.provider = "gemini" ->
         Say(FALSE, hookOut.permission, hookOut.updated)
    [] OTHER -> IF hookOut.context THEN Say(FALSE, "none", FALSE)
                ELSE Say(FALSE, hookOut.permission, hookOut.updated)

\* EncodeProviderResult, with Codex's neutral "{}"; EncodeResult prints the whole
\* result when the provider is not known.
EncodeResult ==
  IF in.provider = "unknown"
  THEN Say(status = "blocked", hookOut.permission, hookOut.updated)
  ELSE IF status = "blocked" THEN providerBlockedOutput
  ELSE IF /\ in.provider = "codex" /\ in.event = "PreToolUse"
          /\ ~providerAllowedOutput.any
  THEN Say(FALSE, "none", FALSE) ELSE providerAllowedOutput

\* EncodeNeutralHookResultV1.
EncodeNeutralHookResultV1 ==
  Say(status = "blocked", "none", hookOut.updated)

\* Mutant: every provider blocks with exit code 1.
MutantExitOne == 1

AgentHookBlockedExitCodeForProvider ==
  IF in.provider = "kimi" THEN 2 ELSE 1

prints == in.json \/ in.neutral

\* emitHookResult: stdout is written first, the exit code follows the verdict.
emitHookResult ==
  /\ at = "emit"
  /\ \/ /\ printed' = CASE in.neutral -> EncodeNeutralHookResultV1
                       [] prints /\ ~in.neutral -> EncodeResult
                       [] ~prints -> Nothing
        /\ finish(CASE status = "allowed" -> 0
                    [] status = "blocked" /\ in.neutral -> 1
                    [] status = "blocked" /\ ~in.neutral ->
                         AgentHookBlockedExitCodeForProvider)
     \/ "encode" \in Faults /\ prints /\ finish(1) /\ UNCHANGED printed
  /\ UNCHANGED <<in, route, picked, decisions, upto, status, hookOut>>

DecisionNext ==
  \/ collectContext \/ routeToolUse \/ evaluateDispatchedPolicies
  \/ DecideInspection \/ buildResult \/ persistHookResult \/ emitHookResult

DecisionSpec == DecisionInit /\ [][DecisionNext]_decisionVars

-----------------------------------------------------------------------------
Evaluated == {i \in DOMAIN in.policies : i < upto}
PolicyBlocks(i) == in.policies[i].mode = "block" /\ in.policies[i].finds = "block"

\* The merged verdict is the one a reader of the configuration expects: blocked
\* exactly if a policy in block mode, the edit check or the picked route refuses
\* the call, or the picked rewrite cannot be applied.  Advice never blocks.
VerdictIsRight ==
  at \in {"build", "emit"} /\ ~in.readOnly =>
    (status = "blocked" <=>
       \/ \E i \in DOMAIN in.policies : PolicyBlocks(i)
       \/ in.edit
       \/ picked = "block"
       \/ picked = "rewrite" /\ ~providerSupportsUpdatedInput(ctxProvider))

\* What was refused is refused to the end: a hook that met a refusal never exits
\* with success, whatever fails later, and what it prints to the agent's own
\* provider says no with the exit code that provider acts on.
RefusedStaysRefused ==
  at = "done" /\ ~in.readOnly
    /\ (picked = "block" \/ in.edit \/ \E i \in Evaluated : PolicyBlocks(i)) =>
    /\ exit # 0
    /\ printed.any => printed.denies
    /\ printed.any /\ in.provider # "unknown" /\ ~in.neutral =>
         printed.permission # "allow" /\ ~printed.updated
    /\ printed.any /\ in.provider = "kimi" /\ ~in.neutral => exit = 2
=============================================================================
