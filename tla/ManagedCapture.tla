--------------------------- MODULE ManagedCapture ---------------------------
(***************************************************************************)
(* One managed run of an external tool (go/internal/managedcapture).       *)
(*                                                                         *)
(* Run checks the request, executeCapturedTool builds a sandbox plan,      *)
(* startCapturedProcess starts the tool in a process group of its own with *)
(* two pipes as output, waits for it or for the deadline, then for the     *)
(* copiers of its output, and what came out is judged: parsed, put to the  *)
(* capture policies and turned into an exit code.                          *)
(*                                                                         *)
(* The tool is a set of processes: its leader and what the leader starts.  *)
(* A process inherits the group and the pipes; it may leave the group and  *)
(* it may close the pipes.  Both pipes and both copiers are one here: a    *)
(* process holds them or it does not.                                      *)
(***************************************************************************)
EXTENDS Integers, FiniteSets

CONSTANTS Child    \* the processes the tool may start besides its leader

leader == "leader"

ASSUME ChildAssumption == IsFiniteSet(Child) /\ leader \notin Child

VARIABLES pc,
          request,    \* hasTimeout: TimeoutSeconds > 0; ownTemp: CleanupTemp
          temp,       \* the temp directory of a tool that cleans up after itself
          plan,       \* the plan's files
          cgroup,
          sandboxed,  \* plan.Evidence.Enabled
          context,    \* of the command: "none", "live", "expired"
          proc, group, pipe,
          killed,     \* history: has the group been killed
          status,     \* how the leader ended: its exit status or Signalled
          report,     \* the gravest line the tool wrote
          copied,     \* the copiers: "no", "all", "cut"
          result,     \* processResult and captureExecution
          ret         \* what Run returns

resources == <<temp, plan, cgroup>>
tool == <<proc, group, pipe, killed, status, report>>
vars == <<pc, request, resources, sandboxed, context, tool, copied, result, ret>>

Proc == {leader} \cup Child
Running == {p \in Proc : proc[p] = "run"}
Holders == {p \in Running : pipe[p]}

BlockedExitCode == 2
capturedCommandNotFoundCode == 127
capturedSandboxWrapperFailure == 126
Status == {0, 1, capturedSandboxWrapperFailure}
NotEnded == -1
Signalled == -2
Report == {"clean", "output", "warning", "error"}
Result == [exit : Status \cup {BlockedExitCode, capturedCommandNotFoundCode},
           err : BOOLEAN, denied : BOOLEAN,
           policy : {"none", "record", "block", "failed"}]
NoResult == [exit |-> 0, err |-> FALSE, denied |-> FALSE, policy |-> "none"]

TypeOK ==
  /\ pc \in {"run", "plan", "cgroup", "io", "start", "failed", "wait", "reap",
             "drain", "runtime", "judge", "returned"}
  /\ request \in [hasTimeout : BOOLEAN, ownTemp : BOOLEAN]
  /\ temp \in {"none", "made", "removed", "stuck", "left"}
  /\ plan \in {"none", "open", "closed"}
  /\ cgroup \in {"none", "made", "removed", "stuck"}
  /\ sandboxed \in BOOLEAN /\ context \in {"none", "live", "expired"}
  /\ proc \in [Proc -> {"none", "run", "dead"}]
  /\ group \in [Proc -> BOOLEAN] /\ pipe \in [Proc -> BOOLEAN]
  /\ killed \in BOOLEAN
  /\ status \in Status \cup {NotEnded, Signalled}
  /\ report \in Report /\ copied \in {"no", "all", "cut"}
  /\ result \in Result
  /\ ret \in Int

Init ==
  /\ pc = "run"
  /\ request \in [hasTimeout : BOOLEAN, ownTemp : BOOLEAN]
  /\ temp = "none" /\ plan = "none" /\ cgroup = "none"
  /\ sandboxed = FALSE /\ context = "none"
  /\ proc = [p \in Proc |-> "none"]
  /\ group = [p \in Proc |-> FALSE] /\ pipe = [p \in Proc |-> FALSE]
  /\ killed = FALSE
  /\ status = NotEnded /\ report = "clean" /\ copied = "no"
  /\ result = NoResult /\ ret = -1

-----------------------------------------------------------------------------
\* Run: a tool that is switched off passes; missing roots, an unknown tool,
\* unreadable or drifted configuration or a bad target do not.
Run ==
  /\ pc = "run"
  /\ \/ pc' = "plan" /\ UNCHANGED ret
     \/ pc' = "returned" /\ ret' \in {0, 1, BlockedExitCode}
  /\ UNCHANGED <<request, resources, sandboxed, context, tool, copied, result>>

\* cleanupSandboxCacheEnv: only a tool with a directory of its own removes it.
\* What the tool left in it can make that fail, and the error is dropped.
Cleaned(t) == IF t = "made" THEN {"removed", "stuck"} ELSE {t}

\* sandboxCacheEnv: go-test is the tool that gets a directory of its own.
sandboxCacheEnv == IF request.ownTemp THEN "made" ELSE "none"

Denied == [NoResult EXCEPT !.exit = BlockedExitCode, !.denied = TRUE]

\* buildCapturedSandboxPlan fails, at the executable, the cache environment
\* (which forgets a directory it already made), the plan or a writable path.
planError ==
  /\ pc = "plan"
  /\ temp' \in IF request.ownTemp THEN {"none", "left"} \cup Cleaned("made")
                           ELSE {"none"}
  /\ plan' = "closed"
  /\ result' = Denied
  /\ pc' = "judge"
  /\ UNCHANGED <<request, cgroup, sandboxed, context, tool, copied, ret>>

\* ... or succeeds; without a sandbox the cache environment is given up again.
buildCapturedSandboxPlan ==
  /\ pc = "plan"
  /\ sandboxed' \in BOOLEAN
  /\ temp' \in IF sandboxed' THEN {sandboxCacheEnv}
                             ELSE Cleaned(sandboxCacheEnv)
  /\ plan' = "open"
  /\ context' = "live"
  /\ pc' = "cgroup"
  /\ UNCHANGED <<request, cgroup, tool, copied, result, ret>>

\* The kernel may refuse a cgroup.
PrepareCgroupLimits == {"none", "made"}

\* prepareSandboxCgroup: limits that cannot be applied are only noted.
prepareSandboxCgroup ==
  /\ pc = "cgroup"
  /\ cgroup' \in IF sandboxed THEN PrepareCgroupLimits ELSE {"none"}
  /\ pc' = "io"
  /\ UNCHANGED <<request, temp, plan, sandboxed, context, tool, copied, result, ret>>

Failed == [NoResult EXCEPT !.exit = capturedCommandNotFoundCode, !.err = TRUE]

openCapturedProcessIO ==
  /\ pc = "io"
  /\ \/ pc' = "start" /\ UNCHANGED <<temp, result>>
     \/ pc' = "runtime" /\ temp' \in Cleaned(temp) /\ result' = Failed
  /\ UNCHANGED <<request, plan, cgroup, sandboxed, context, tool, copied, ret>>

\* startCapturedOSProcess, then closeWriters and the start of the copiers.
startCapturedOSProcess ==
  /\ pc = "start"
  /\ \/ /\ proc' = [proc EXCEPT ![leader] = "run"]
        /\ group' = [group EXCEPT ![leader] = TRUE]
        /\ pipe' = [pipe EXCEPT ![leader] = TRUE]
        /\ pc' = "wait"
     \/ pc' = "failed" /\ UNCHANGED <<proc, group, pipe>>
  /\ UNCHANGED <<request, resources, sandboxed, context, killed, status, report,
                 copied, result, ret>>

\* Mutant: a tool that did not start keeps its temp directory.
MutantFailedStartKeepsTemp ==
  /\ pc = "failed"
  /\ copied # "no"
  /\ result' = Failed
  /\ pc' = "runtime"
  /\ UNCHANGED <<request, resources, sandboxed, context, tool, copied, ret>>

failedProcessStartResult ==
  /\ pc = "failed"
  /\ copied # "no"
  /\ temp' \in Cleaned(temp)
  /\ result' = Failed
  /\ pc' = "runtime"
  /\ UNCHANGED <<request, plan, cgroup, sandboxed, context, tool, copied, ret>>

-----------------------------------------------------------------------------
\* The tool: a process starts another, which inherits group and pipes.
fork(p, q) ==
  /\ p \in Running /\ proc[q] = "none"
  /\ proc' = [proc EXCEPT ![q] = "run"]
  /\ group' = [group EXCEPT ![q] = group[p]]
  /\ pipe' = [pipe EXCEPT ![q] = pipe[p]]
  /\ UNCHANGED <<pc, request, resources, sandboxed, context, killed, status,
                 report, copied, result, ret>>

\* A process other than the leader leaves the group, or closes the pipes.
setsid(p) ==
  /\ p \in Running \ {leader} /\ group[p]
  /\ group' = [group EXCEPT ![p] = FALSE]
  /\ UNCHANGED <<pc, request, resources, sandboxed, context, proc, pipe, killed, status,
                 report, copied, result, ret>>

closeOutput(p) ==
  /\ p \in Holders \ {leader}
  /\ pipe' = [pipe EXCEPT ![p] = FALSE]
  /\ UNCHANGED <<pc, request, resources, sandboxed, context, proc, group, killed, status,
                 report, copied, result, ret>>

\* A process ends; the leader's end carries a status and leaves its report.
exit(p) ==
  /\ p \in Running
  /\ proc' = [proc EXCEPT ![p] = "dead"]
  /\ IF p = leader THEN status' \in Status \cup {Signalled} /\ report' \in Report
                     ELSE UNCHANGED <<status, report>>
  /\ UNCHANGED <<pc, request, resources, sandboxed, context, group, pipe, killed,
                 copied, result, ret>>

Tool == \E p \in Proc :
  \/ \E q \in Child : fork(p, q)
  \/ setsid(p) \/ closeOutput(p) \/ exit(p)

\* The copiers see the end of the pipes once nobody holds them ...
copyProcessOutput ==
  /\ pc \in {"failed", "wait", "reap", "drain"}
  /\ copied = "no" /\ Holders = {}
  /\ copied' = "all"
  /\ UNCHANGED <<pc, request, resources, sandboxed, context, tool, result, ret>>

\* ... or fail on the way.
copyError ==
  /\ pc \in {"failed", "wait", "reap", "drain"}
  /\ copied = "no"
  /\ copied' = "cut"
  /\ UNCHANGED <<pc, request, resources, sandboxed, context, tool, result, ret>>

\* The command's deadline; cancel ends it with runCapturedPlan.
Deadline ==
  /\ request.hasTimeout /\ context = "live"
  /\ pc \in {"cgroup", "io", "start", "failed", "wait", "reap", "drain", "runtime"}
  /\ context' = "expired"
  /\ UNCHANGED <<pc, request, resources, sandboxed, tool, copied, result, ret>>

-----------------------------------------------------------------------------
\* waitCapturedProcess: the select takes the end of the process ...
waitEnds ==
  /\ pc = "wait"
  /\ proc[leader] = "dead"
  /\ pc' = "drain"
  /\ UNCHANGED <<request, resources, sandboxed, context, tool, copied, result, ret>>

\* Mutant: only the leader is killed.
MutantKillLeaderOnly ==
  /\ pc = "wait" /\ context = "expired"
  /\ proc' = [proc EXCEPT ![leader] = "dead"]
  /\ IF proc[leader] = "run" THEN status' = Signalled /\ report' \in Report
                              ELSE UNCHANGED <<status, report>>
  /\ killed' = TRUE
  /\ result' = [result EXCEPT !.err = TRUE]
  /\ pc' = "reap"
  /\ UNCHANGED <<request, resources, sandboxed, context, group, pipe, copied, ret>>

\* ... or the end of the context, and kills what is left of the group.
killCapturedProcessGroup ==
  /\ pc = "wait" /\ context = "expired"
  /\ proc' = [p \in Proc |-> IF p \in Running /\ group[p] THEN "dead" ELSE proc[p]]
  /\ IF proc[leader] = "run" THEN status' = Signalled /\ report' \in Report
                               ELSE UNCHANGED <<status, report>>
  /\ killed' = TRUE
  /\ result' = [result EXCEPT !.err = TRUE]
  /\ pc' = "reap"
  /\ UNCHANGED <<request, resources, sandboxed, context, group, pipe, copied, ret>>

reap ==
  /\ pc = "reap"
  /\ proc[leader] = "dead"
  /\ pc' = "drain"
  /\ UNCHANGED <<request, resources, sandboxed, context, tool, copied, result, ret>>

\* capturedProcessExitCode: a signal is 127 with an error and 1 without.
capturedProcessExitCode(err) ==
  CASE status # Signalled -> status
    [] err -> capturedCommandNotFoundCode
    [] OTHER -> 1

\* Mutant: does not wait for the copiers.
MutantNoDrain ==
  /\ pc = "drain"
  /\ temp' \in Cleaned(temp)
  /\ result' = [result EXCEPT !.exit = capturedProcessExitCode(result.err),
                              !.err = @ \/ copied = "cut"]
  /\ pc' = "runtime"
  /\ UNCHANGED <<request, plan, cgroup, sandboxed, context, tool, copied, ret>>

\* waitForCapturedProcessResult: the copiers first, then the clean-up.
waitForCapturedProcessResult ==
  /\ pc = "drain"
  /\ copied # "no"
  /\ temp' \in Cleaned(temp)
  /\ result' = [result EXCEPT !.exit = capturedProcessExitCode(result.err),
                              !.err = @ \/ copied = "cut"]
  /\ pc' = "runtime"
  /\ UNCHANGED <<request, plan, cgroup, sandboxed, context, tool, copied, ret>>

\* capturedSandboxRuntimeDenial: what a failed wrapper or a failed process may
\* have printed.
mayBeDenied == sandboxed /\ (result.exit = capturedSandboxWrapperFailure \/ result.err)

\* Cgroup.Close, whose error is dropped: the kernel does not remove a cgroup with
\* a process in it, and every process of the tool is in it; one that was killed
\* takes a moment to be gone.
Dying == {p \in Child : killed /\ group[p] /\ proc[p] = "dead"}
CgroupClosed ==
  CASE cgroup # "made" -> {cgroup}
    [] Running # {} -> {"stuck"}
    [] Dying # {} -> {"removed", "stuck"}
    [] OTHER -> {"removed"}

\* Mutant: the deadline is not looked at.
MutantForgetsDeadline ==
  /\ pc = "runtime"
  /\ \/ mayBeDenied /\ result' = Denied
     \/ UNCHANGED result
  /\ cgroup' \in CgroupClosed
  /\ plan' = "closed"
  /\ pc' = "judge"
  /\ UNCHANGED <<request, temp, sandboxed, context, tool, copied, ret>>

\* The rest of runCapturedPlan and the deferred closes: a denial replaces the
\* result, a deadline that has passed by now denies it and keeps its code.
runCapturedPlan ==
  /\ pc = "runtime"
  /\ \/ mayBeDenied /\ result' = Denied
     \/ result' = [result EXCEPT !.denied = context = "expired"]
  /\ cgroup' \in CgroupClosed
  /\ plan' = "closed"
  /\ pc' = "judge"
  /\ UNCHANGED <<request, temp, sandboxed, context, tool, copied, ret>>

-----------------------------------------------------------------------------
\* capturedExecutionDiagnostics: a denial hides the tool's report; copiers that
\* failed may have lost it.
Parsed(r) ==
  IF r.denied THEN {"error"}
  ELSE IF proc[leader] = "none" THEN {"clean"}
  ELSE IF copied = "cut" THEN {"clean", report} ELSE {report}

\* The findings made of them block exactly when the tool failed.
capturedFindings(r) == r.exit # 0

\* No policy applies, or the gravest thing one did; one that fails blocks.
applyCapturePolicies == {"none", "record", "block", "failed"}

capturedResultBlocks(r, seen) ==
  seen = "error" \/ capturedFindings(r) \/ r.policy \in {"block", "failed"}

\* runCapturedToolWithRequest, from the policies to the exit code; the trace and
\* the code-intel refresh only warn when they fail.
runCapturedToolWithRequest ==
  /\ pc = "judge"
  /\ \E policy \in applyCapturePolicies :
       result' = [result EXCEPT !.policy = policy]
  /\ \E seen \in Parsed(result) :
       ret' = IF capturedResultBlocks(result', seen) /\ result.exit = 0
              THEN BlockedExitCode ELSE result.exit
  /\ pc' = "returned"
  /\ UNCHANGED <<request, resources, sandboxed, context, tool, copied>>

Capture ==
  \/ Run \/ planError \/ buildCapturedSandboxPlan \/ prepareSandboxCgroup
  \/ openCapturedProcessIO \/ startCapturedOSProcess \/ failedProcessStartResult
  \/ copyProcessOutput \/ waitEnds \/ killCapturedProcessGroup \/ reap
  \/ waitForCapturedProcessResult \/ runCapturedPlan \/ runCapturedToolWithRequest

Next == Capture \/ copyError \/ Deadline \/ Tool

\* The capture's own steps and the clock are fair; the tool may hang, and nothing
\* makes a read fail.
Spec == Init /\ [][Next]_vars /\ WF_vars(Capture) /\ WF_vars(Deadline)

-----------------------------------------------------------------------------
\* Exit code 0 of a tool that ran: whatever path led to it, the tool itself
\* ended with 0 and in time, nothing was denied, no capture policy blocked or
\* failed, and no error was reported unless the copiers lost it.
ZeroMeansClean ==
  pc = "returned" /\ ret = 0 /\ plan # "none" =>
    /\ status = 0 /\ context # "expired"
    /\ ~result.denied /\ result.policy \in {"none", "record"}
    /\ report # "error" \/ copied = "cut"

\* cleanupSandboxCacheEnv and the deferred closes: a sandboxed tool with a temp
\* directory of its own has it as long as its leader runs, and as long as any
\* process writes to the pipes the copiers still read.
TempOutlivesTool ==
  /\ proc[leader] = "run" /\ sandboxed /\ request.ownTemp => temp = "made"
  /\ sandboxed /\ temp \in {"removed", "stuck"} /\ copied # "cut" =>
       Holders = {}

\* A process that Run does not kill: one that left the group, or one that the
\* leader left behind by ending before the group was killed.
Escaped(p) == ~group[p] \/ ~killed

\* On every path, the ones that fail early included, Run returns with the plan
\* closed and the temp directory and the cgroup given up.  Only a cache
\* environment that fails half way forgets its directory, and a cgroup stays
\* behind only for a process that the tool started and did not wait for.
ReleasedOnReturn ==
  pc = "returned" =>
    /\ plan # "open" /\ cgroup # "made" /\ temp # "made"
    /\ temp = "left" => result.denied
    /\ cgroup = "stuck" => \E p \in Child : proc[p] # "none"

\* A process that outlived the leader still holds its output.
Held == pc = "drain" /\ copied = "no" /\ \E p \in Holders : Escaped(p)

\* A tool with a timeout ends, however it hangs and whatever it starts, unless a
\* process the capture never kills keeps the pipes open for good.
EndsUnlessHeld == request.hasTimeout => (<>(pc = "returned") \/ <>[]Held)
=============================================================================
