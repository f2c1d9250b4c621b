------------------------ MODULE ManagedCaptureProofs ------------------------
(***************************************************************************)
(* The three invariants of a managed capture, for any number of processes  *)
(* the tool may start.  The argument follows the capture from place to     *)
(* place: which processes there can be, who still holds the pipes, what    *)
(* is open, and what the result says so far.                               *)
(***************************************************************************)
EXTENDS ManagedCapture, TLAPS

BeforeStart == {"run", "plan", "cgroup", "io", "start", "failed"}
WithPlan == {"cgroup", "io", "start", "failed", "wait", "reap", "drain"}

\* The leader is the first process, and the capture waits for it.
LeaderFirst ==
  /\ proc[leader] = "none" => \A p \in Proc : proc[p] = "none"
  /\ proc[leader] = "run" => pc = "wait" /\ group[leader]
  /\ proc[leader] = "dead" => status # NotEnded
  /\ pc \in BeforeStart => proc[leader] = "none"
  /\ pc = "wait" => proc[leader] # "none"
  /\ pc \in {"reap", "drain"} => proc[leader] = "dead"

\* Once the copiers saw the end of the pipes nobody can come to hold them.
CopiersSawTheEnd ==
  /\ copied = "all" => \A p \in Proc : proc[p] = "run" => ~pipe[p]
  /\ pc \in BeforeStart \ {"failed"} => copied = "no"

\* What is open, by place.
OpenByPlace ==
  /\ pc \in {"run", "plan"} => plan = "none" /\ context = "none" /\ ~sandboxed
  /\ pc \in {"run", "plan", "cgroup"} => cgroup = "none"
  /\ pc \in WithPlan \cup {"runtime"} => plan = "open"
  /\ pc = "judge" => plan = "closed"
  /\ pc = "returned" => plan # "open"
  /\ pc \in {"judge", "returned"} => cgroup # "made"

\* The temp directory is there until its tool is through with it.
TempByPlace ==
  /\ pc \in {"run", "plan"} => temp = "none"
  /\ pc \in WithPlan =>
       temp \in IF sandboxed THEN {sandboxCacheEnv} ELSE Cleaned(sandboxCacheEnv)
  /\ pc = "runtime" => temp \in {"none", "removed", "stuck"}
  /\ pc \in {"judge", "returned"} => temp # "made" /\ (temp = "left" => result.denied)
  /\ sandboxed /\ temp \in {"removed", "stuck"} => copied # "no" \/ proc[leader] = "none"

\* A cgroup that could not be removed had a process in it besides the leader.
StuckForChild == cgroup = "stuck" => \E p \in Child : proc[p] # "none"

\* A result of 0 stands for a tool that ended with 0; a deadline shows in it.
ResultSaysHow ==
  /\ pc \notin {"judge", "returned"} => ~result.denied
  /\ pc # "returned" => result.policy = "none"
  /\ pc \in {"runtime", "judge"} /\ result.exit = 0 =>
       proc[leader] = "dead" /\ status = 0
  /\ pc = "judge" /\ result.exit = 0 /\ context = "expired" => result.denied

Inv == /\ TypeOK /\ LeaderFirst /\ CopiersSawTheEnd /\ OpenByPlace
       /\ TempByPlace /\ StuckForChild /\ ResultSaysHow /\ ZeroMeansClean

Codes == Status \cup {BlockedExitCode, capturedCommandNotFoundCode}

\* A new exit code and error keep the rest.
LEMMA ExitUpdate ==
  ASSUME NEW r \in Result, NEW e \in Codes, NEW b \in BOOLEAN
  PROVE  LET u == [r EXCEPT !.exit = e, !.err = b]
         IN  /\ u \in Result
             /\ u.exit = e
             /\ u.denied = r.denied
             /\ u.policy = r.policy
BY DEF Result, Codes

\* ... a new error alone ...
LEMMA ErrUpdate ==
  ASSUME NEW r \in Result, NEW b \in BOOLEAN
  PROVE  LET u == [r EXCEPT !.err = b]
         IN  /\ u \in Result
             /\ u.exit = r.exit
             /\ u.denied = r.denied
             /\ u.policy = r.policy
BY DEF Result, Codes

\* ... a denial by the deadline ...
LEMMA DenialUpdate ==
  ASSUME NEW r \in Result, NEW b \in BOOLEAN
  PROVE  LET u == [r EXCEPT !.denied = b]
         IN  /\ u \in Result
             /\ u.exit = r.exit
             /\ u.denied = b
             /\ u.policy = r.policy
BY DEF Result, Codes

\* ... a code for a denial ...
LEMMA CodeUpdate ==
  ASSUME NEW r \in Result, NEW e \in Codes, NEW b \in BOOLEAN
  PROVE  LET u == [r EXCEPT !.exit = e, !.denied = b]
         IN  /\ u \in Result
             /\ u.exit = e
             /\ u.denied = b
             /\ u.policy = r.policy
BY DEF Result, Codes

\* ... and the judgement of the policies.
LEMMA PolicyUpdate ==
  ASSUME NEW r \in Result, NEW x \in {"none", "record", "block", "failed"}
  PROVE  LET u == [r EXCEPT !.policy = x]
         IN  /\ u \in Result
             /\ u.exit = r.exit
             /\ u.denied = r.denied
             /\ u.policy = x
BY DEF Result, Codes

\* The three results that do not come from a process.
LEMMA Results ==
  /\ NoResult \in Result /\ ~NoResult.denied /\ NoResult.policy = "none"
  /\ Failed \in Result /\ Failed.exit # 0 /\ ~Failed.denied /\ Failed.policy = "none"
  /\ Denied \in Result /\ Denied.exit # 0 /\ Denied.denied /\ Denied.policy = "none"
<1>1. NoResult \in Result /\ ~NoResult.denied /\ NoResult.policy = "none"
  BY DEF NoResult, Result, Status
<1>2. /\ capturedCommandNotFoundCode \in Codes /\ capturedCommandNotFoundCode # 0
      /\ BlockedExitCode \in Codes /\ BlockedExitCode # 0
  BY DEF Codes, BlockedExitCode, capturedCommandNotFoundCode
<1>3. Failed \in Result /\ Failed.exit # 0 /\ ~Failed.denied /\ Failed.policy = "none"
  BY <1>1, <1>2, ExitUpdate DEF Failed
<1>4. Denied \in Result /\ Denied.exit # 0 /\ Denied.denied /\ Denied.policy = "none"
  BY <1>1, <1>2, CodeUpdate DEF Denied
<1> QED  BY <1>1, <1>3, <1>4

\* The result of a process says how its leader ended.
LEMMA ExitCode ==
  ASSUME result \in Result, status \in Status \cup {Signalled}, pc = "drain",
         waitForCapturedProcessResult
  PROVE  /\ result' \in Result
         /\ result'.denied = result.denied /\ result'.policy = result.policy
         /\ result'.exit = 0 => status = 0
<1> DEFINE e == capturedProcessExitCode(result.err)
           b == result.err \/ copied = "cut"
<1>1. e \in Codes /\ (e = 0 => status = 0)
  BY DEF capturedProcessExitCode, Codes, Status, Signalled,
     capturedCommandNotFoundCode, capturedSandboxWrapperFailure, Result
<1>2. result' = [result EXCEPT !.exit = e, !.err = b]
  BY DEF waitForCapturedProcessResult
<1>3. b \in BOOLEAN
  BY DEF Result
<1> HIDE DEF e, b
<1> QED  BY <1>1, <1>2, <1>3, ExitUpdate

\* Everything holds before Run.
LEMMA InitInv == Init => Inv
<1> SUFFICES ASSUME Init PROVE Inv
  OBVIOUS
<1> USE ChildAssumption DEF Init, Proc, NotEnded, Signalled
<1>1. TypeOK
  <2>1. /\ proc \in [Proc -> {"none", "run", "dead"}]
        /\ group \in [Proc -> BOOLEAN] /\ pipe \in [Proc -> BOOLEAN]
    OBVIOUS
  <2>2. result \in Result /\ ret \in Int
    BY Results
  <2> QED  BY <2>1, <2>2 DEF TypeOK, Report
<1>2. LeaderFirst /\ CopiersSawTheEnd
  BY DEF LeaderFirst, CopiersSawTheEnd, BeforeStart
<1>3. OpenByPlace /\ TempByPlace /\ StuckForChild
  BY DEF OpenByPlace, TempByPlace, StuckForChild, BeforeStart, WithPlan
<1>4. ResultSaysHow /\ ZeroMeansClean
  BY Results DEF ResultSaysHow, ZeroMeansClean, WithPlan
<1> QED  BY <1>1, <1>2, <1>3, <1>4 DEF Inv

\* Every step keeps the types.
LEMMA TypeSafe == Inv /\ [Next]_vars => TypeOK'
<1> SUFFICES ASSUME TypeOK, LeaderFirst, [Next]_vars PROVE TypeOK'
  BY DEF Inv
<1> USE ChildAssumption DEF TypeOK, LeaderFirst, Cleaned, sandboxCacheEnv, Report,
       BlockedExitCode, capturedCommandNotFoundCode, capturedSandboxWrapperFailure,
       resources, tool, Proc, Running
<1>1. CASE waitEnds \/ reap \/ copyError \/ Deadline
  BY <1>1 DEF waitEnds, reap, copyError, Deadline
<1>2. CASE Run
  BY <1>2 DEF Run
<1>3. CASE planError
  BY <1>3, Results DEF planError
<1>4. CASE buildCapturedSandboxPlan
  BY <1>4 DEF buildCapturedSandboxPlan
<1>5. CASE prepareSandboxCgroup
  BY <1>5 DEF prepareSandboxCgroup, PrepareCgroupLimits
<1>6. CASE openCapturedProcessIO
  BY <1>6, Results DEF openCapturedProcessIO
<1>7. CASE startCapturedOSProcess
  <2>1. /\ proc' \in [Proc -> {"none", "run", "dead"}]
        /\ group' \in [Proc -> BOOLEAN] /\ pipe' \in [Proc -> BOOLEAN]
    BY <1>7 DEF startCapturedOSProcess
  <2> QED  BY <1>7, <2>1 DEF startCapturedOSProcess
<1>8. CASE failedProcessStartResult
  BY <1>8, Results DEF failedProcessStartResult
<1>9. CASE copyProcessOutput
  BY <1>9 DEF copyProcessOutput, Holders
<1>10. CASE killCapturedProcessGroup
  <2>1. result' \in Result
    BY <1>10, ErrUpdate DEF killCapturedProcessGroup
  <2> QED  BY <1>10, <2>1 DEF killCapturedProcessGroup
<1>11. CASE waitForCapturedProcessResult
  <2>1. result' \in Result
    BY <1>11, ExitCode DEF waitForCapturedProcessResult
  <2> QED  BY <1>11, <2>1 DEF waitForCapturedProcessResult
<1>12. CASE runCapturedPlan
  <2>1. result' \in Result
    BY <1>12, Results, DenialUpdate DEF runCapturedPlan
  <2> QED  BY <1>12, <2>1 DEF runCapturedPlan, CgroupClosed
<1>13. CASE runCapturedToolWithRequest
  <2>1. PICK policy \in applyCapturePolicies : result' = [result EXCEPT !.policy = policy]
    BY <1>13 DEF runCapturedToolWithRequest
  <2>2. result' \in Result
    BY <2>1, PolicyUpdate DEF applyCapturePolicies
  <2>3. ret' \in Int
    BY <1>13 DEF runCapturedToolWithRequest, Result, Status
  <2> QED  BY <1>13, <2>2, <2>3 DEF runCapturedToolWithRequest
<1>14. ASSUME NEW p \in Proc, NEW q \in Child, fork(p, q) PROVE TypeOK'
  BY <1>14 DEF fork
<1>15. ASSUME NEW p \in Proc, setsid(p) PROVE TypeOK'
  BY <1>15 DEF setsid
<1>16. ASSUME NEW p \in Proc, closeOutput(p) PROVE TypeOK'
  BY <1>16 DEF closeOutput, Holders
<1>17. ASSUME NEW p \in Proc, exit(p) PROVE TypeOK'
  BY <1>17 DEF exit
<1>18. CASE UNCHANGED vars
  BY <1>18 DEF vars
<1> QED  BY <1>1, <1>2, <1>3, <1>4, <1>5, <1>6, <1>7, <1>8, <1>9, <1>10, <1>11,
       <1>12, <1>13, <1>14, <1>15, <1>16, <1>17, <1>18 DEF Next, Capture, Tool

\* The leader is started, killed and waited for in this order.
LEMMA LeaderSafe == Inv /\ [Next]_vars => LeaderFirst'
<1> SUFFICES ASSUME TypeOK, LeaderFirst, [Next]_vars PROVE LeaderFirst'
  BY DEF Inv
<1> USE ChildAssumption DEF TypeOK, LeaderFirst, BeforeStart, NotEnded, Signalled,
       Status, capturedSandboxWrapperFailure, resources, tool, Proc, Running
<1>1. CASE Run \/ planError \/ buildCapturedSandboxPlan \/ prepareSandboxCgroup \/
           openCapturedProcessIO \/ failedProcessStartResult
  BY <1>1 DEF Run, planError, buildCapturedSandboxPlan, prepareSandboxCgroup,
     openCapturedProcessIO, failedProcessStartResult
<1>2. CASE copyProcessOutput \/ copyError \/ Deadline
  BY <1>2 DEF copyProcessOutput, copyError, Deadline
<1>3. CASE waitEnds \/ reap
  BY <1>3 DEF waitEnds, reap
<1>4. CASE waitForCapturedProcessResult \/ runCapturedPlan \/
           runCapturedToolWithRequest
  BY <1>4 DEF waitForCapturedProcessResult, runCapturedPlan,
     runCapturedToolWithRequest
<1>5. CASE (\E p \in Proc : setsid(p)) \/ (\E p \in Proc : closeOutput(p))
  BY <1>5 DEF setsid, closeOutput
<1>6. CASE startCapturedOSProcess
  BY <1>6 DEF startCapturedOSProcess
<1>7. CASE killCapturedProcessGroup
  BY <1>7 DEF killCapturedProcessGroup
<1>8. ASSUME NEW p \in Proc, NEW q \in Child, fork(p, q) PROVE LeaderFirst'
  BY <1>8 DEF fork
<1>9. ASSUME NEW p \in Proc, exit(p) PROVE LeaderFirst'
  BY <1>9 DEF exit
<1>10. CASE UNCHANGED vars
  BY <1>10 DEF vars
<1> QED  BY <1>1, <1>2, <1>3, <1>4, <1>5, <1>6, <1>7, <1>8, <1>9, <1>10 DEF Next,
       Capture, Tool

\* A process that does not hold the pipes cannot hand them on.
LEMMA CopiersSafe == Inv /\ [Next]_vars => CopiersSawTheEnd'
<1> SUFFICES ASSUME TypeOK, LeaderFirst, CopiersSawTheEnd, [Next]_vars PROVE CopiersSawTheEnd'
  BY DEF Inv
<1> USE ChildAssumption DEF TypeOK, LeaderFirst, CopiersSawTheEnd, BeforeStart,
       resources, tool, Proc, Running
<1>1. CASE Run \/ planError \/ buildCapturedSandboxPlan \/ prepareSandboxCgroup \/
           openCapturedProcessIO \/ failedProcessStartResult
  BY <1>1 DEF Run, planError, buildCapturedSandboxPlan, prepareSandboxCgroup,
     openCapturedProcessIO, failedProcessStartResult
<1>2. CASE copyError \/ Deadline
  BY <1>2 DEF copyError, Deadline
<1>3. CASE waitEnds \/ reap \/ waitForCapturedProcessResult \/ runCapturedPlan \/
           runCapturedToolWithRequest
  BY <1>3 DEF waitEnds, reap, waitForCapturedProcessResult, runCapturedPlan,
     runCapturedToolWithRequest
<1>4. CASE (\E p \in Proc : setsid(p)) \/ (\E p \in Proc : closeOutput(p))
  BY <1>4 DEF setsid, closeOutput
<1>5. CASE startCapturedOSProcess
  BY <1>5 DEF startCapturedOSProcess
<1>6. CASE copyProcessOutput
  BY <1>6 DEF copyProcessOutput, Holders
<1>7. CASE killCapturedProcessGroup
  BY <1>7 DEF killCapturedProcessGroup
<1>8. ASSUME NEW p \in Proc, NEW q \in Child, fork(p, q) PROVE CopiersSawTheEnd'
  BY <1>8 DEF fork
<1>9. ASSUME NEW p \in Proc, exit(p) PROVE CopiersSawTheEnd'
  BY <1>9 DEF exit
<1>10. CASE UNCHANGED vars
  BY <1>10 DEF vars
<1> QED  BY <1>1, <1>2, <1>3, <1>4, <1>5, <1>6, <1>7, <1>8, <1>9, <1>10 DEF Next,
       Capture, Tool

\* What each step opens and closes.
LEMMA OpenSafe == Inv /\ [Next]_vars => OpenByPlace'
<1> SUFFICES ASSUME TypeOK, OpenByPlace, [Next]_vars PROVE OpenByPlace'
  BY DEF Inv
<1> USE ChildAssumption DEF TypeOK, OpenByPlace, WithPlan, resources, tool, Proc,
       Running
<1>1. CASE openCapturedProcessIO \/ startCapturedOSProcess \/
           failedProcessStartResult
  BY <1>1 DEF openCapturedProcessIO, startCapturedOSProcess,
     failedProcessStartResult
<1>2. CASE copyProcessOutput \/ copyError \/ Deadline
  BY <1>2 DEF copyProcessOutput, copyError, Deadline
<1>3. CASE waitEnds \/ killCapturedProcessGroup \/ reap
  BY <1>3 DEF waitEnds, killCapturedProcessGroup, reap
<1>4. CASE (\E p \in Proc, q \in Child : fork(p, q)) \/ (\E p \in Proc : setsid(p))
           \/ (\E p \in Proc : closeOutput(p)) \/ (\E p \in Proc : exit(p))
  BY <1>4 DEF fork, setsid, closeOutput, exit
<1>5. CASE Run
  BY <1>5 DEF Run
<1>6. CASE planError
  BY <1>6 DEF planError
<1>7. CASE buildCapturedSandboxPlan
  BY <1>7 DEF buildCapturedSandboxPlan
<1>8. CASE prepareSandboxCgroup
  BY <1>8 DEF prepareSandboxCgroup, PrepareCgroupLimits
<1>9. CASE waitForCapturedProcessResult
  BY <1>9 DEF waitForCapturedProcessResult
<1>10. CASE runCapturedPlan
  BY <1>10 DEF runCapturedPlan, CgroupClosed
<1>11. CASE runCapturedToolWithRequest
  BY <1>11 DEF runCapturedToolWithRequest
<1>12. CASE UNCHANGED vars
  BY <1>12 DEF vars
<1> QED  BY <1>1, <1>2, <1>3, <1>4, <1>5, <1>6, <1>7, <1>8, <1>9, <1>10, <1>11,
       <1>12 DEF Next, Capture, Tool

\* The temp directory is removed on the way out of every path.
LEMMA TempSafe == Inv /\ [Next]_vars => TempByPlace'
<1> SUFFICES ASSUME TypeOK, LeaderFirst, OpenByPlace, CopiersSawTheEnd, TempByPlace, ResultSaysHow, [Next]_vars PROVE TempByPlace'
  BY DEF Inv
<1> USE ChildAssumption DEF TypeOK, LeaderFirst, OpenByPlace, CopiersSawTheEnd,
       TempByPlace, ResultSaysHow, BeforeStart, WithPlan, Cleaned, sandboxCacheEnv,
       resources, tool, Proc, Running
<1>1. CASE copyProcessOutput \/ copyError \/ Deadline
  BY <1>1 DEF copyProcessOutput, Holders, copyError, Deadline
<1>2. CASE waitEnds \/ killCapturedProcessGroup \/ reap
  BY <1>2 DEF waitEnds, killCapturedProcessGroup, reap
<1>3. CASE (\E p \in Proc, q \in Child : fork(p, q)) \/ (\E p \in Proc : setsid(p))
           \/ (\E p \in Proc : closeOutput(p)) \/ (\E p \in Proc : exit(p))
  BY <1>3 DEF fork, setsid, closeOutput, exit
<1>4. CASE Run
  BY <1>4 DEF Run
<1>5. CASE planError
  BY <1>5, Results DEF planError
<1>6. CASE buildCapturedSandboxPlan
  BY <1>6 DEF buildCapturedSandboxPlan
<1>7. CASE prepareSandboxCgroup
  BY <1>7 DEF prepareSandboxCgroup, PrepareCgroupLimits
<1>8. CASE openCapturedProcessIO
  BY <1>8 DEF openCapturedProcessIO
<1>9. CASE startCapturedOSProcess
  BY <1>9 DEF startCapturedOSProcess
<1>10. CASE failedProcessStartResult
  BY <1>10 DEF failedProcessStartResult
<1>11. CASE waitForCapturedProcessResult
  BY <1>11 DEF waitForCapturedProcessResult
<1>12. CASE runCapturedPlan
  BY <1>12 DEF runCapturedPlan
<1>13. CASE runCapturedToolWithRequest
  BY <1>13 DEF runCapturedToolWithRequest
<1>14. CASE UNCHANGED vars
  BY <1>14 DEF vars
<1> QED  BY <1>1, <1>2, <1>3, <1>4, <1>5, <1>6, <1>7, <1>8, <1>9, <1>10, <1>11,
       <1>12, <1>13, <1>14 DEF Next, Capture, Tool

\* A cgroup is stuck with a process that runs or was killed, which stays started.
LEMMA StuckSafe == Inv /\ [Next]_vars => StuckForChild'
<1> SUFFICES ASSUME TypeOK, LeaderFirst, OpenByPlace, StuckForChild, [Next]_vars
             PROVE  StuckForChild'
  BY DEF Inv
<1> USE ChildAssumption DEF TypeOK, LeaderFirst, OpenByPlace, StuckForChild,
       BeforeStart, WithPlan, resources, tool, Proc, Running
<1>1. CASE Run \/ planError \/ buildCapturedSandboxPlan
  BY <1>1 DEF Run, planError, buildCapturedSandboxPlan
<1>2. CASE prepareSandboxCgroup
  BY <1>2 DEF prepareSandboxCgroup, PrepareCgroupLimits
<1>3. CASE openCapturedProcessIO \/ failedProcessStartResult
  BY <1>3 DEF openCapturedProcessIO, failedProcessStartResult
<1>4. CASE copyProcessOutput \/ copyError \/ Deadline \/ waitEnds \/ reap
  BY <1>4 DEF copyProcessOutput, copyError, Deadline, waitEnds, reap
<1>5. CASE waitForCapturedProcessResult \/ runCapturedToolWithRequest
  BY <1>5 DEF waitForCapturedProcessResult, runCapturedToolWithRequest
<1>6. CASE startCapturedOSProcess
  BY <1>6 DEF startCapturedOSProcess
<1>7. CASE killCapturedProcessGroup
  BY <1>7 DEF killCapturedProcessGroup
<1>8. CASE runCapturedPlan
  <2>1. /\ pc = "runtime" /\ pc' = "judge"
        /\ UNCHANGED proc
        /\ cgroup' \in CgroupClosed
    BY <1>8 DEF runCapturedPlan
  <2>2. cgroup' = "stuck" => \E p \in Child : proc[p] # "none"
    BY <2>1 DEF CgroupClosed, Dying
  <2> QED  BY <2>1, <2>2
<1>9. ASSUME NEW p \in Proc, NEW q \in Child, fork(p, q) PROVE StuckForChild'
  BY <1>9 DEF fork
<1>10. CASE (\E p \in Proc : setsid(p)) \/ (\E p \in Proc : closeOutput(p))
  BY <1>10 DEF setsid, closeOutput
<1>11. ASSUME NEW p \in Proc, exit(p) PROVE StuckForChild'
  BY <1>11 DEF exit
<1>12. CASE UNCHANGED vars
  BY <1>12 DEF vars
<1> QED  BY <1>1, <1>2, <1>3, <1>4, <1>5, <1>6, <1>7, <1>8, <1>9, <1>10, <1>11,
       <1>12 DEF Next, Capture, Tool

\* What the result says when it is made, nothing after it changes.
LEMMA ResultSafe == Inv /\ [Next]_vars => ResultSaysHow'
<1> SUFFICES ASSUME TypeOK, LeaderFirst, OpenByPlace, ResultSaysHow, [Next]_vars PROVE ResultSaysHow'
  BY DEF Inv
<1> USE ChildAssumption DEF TypeOK, LeaderFirst, OpenByPlace, ResultSaysHow,
       BeforeStart, WithPlan, resources, tool, Proc, Running
<1>1. CASE Run \/ buildCapturedSandboxPlan \/ prepareSandboxCgroup \/
           startCapturedOSProcess
  BY <1>1 DEF Run, buildCapturedSandboxPlan, prepareSandboxCgroup,
     startCapturedOSProcess
<1>2. CASE copyProcessOutput \/ copyError \/ Deadline
  BY <1>2 DEF copyProcessOutput, copyError, Deadline
<1>3. CASE waitEnds \/ reap
  BY <1>3 DEF waitEnds, reap
<1>4. CASE (\E p \in Proc, q \in Child : fork(p, q)) \/ (\E p \in Proc : setsid(p))
           \/ (\E p \in Proc : closeOutput(p)) \/ (\E p \in Proc : exit(p))
  BY <1>4 DEF fork, setsid, closeOutput, exit
<1>5. CASE planError
  BY <1>5, Results DEF planError
<1>6. CASE openCapturedProcessIO
  BY <1>6, Results DEF openCapturedProcessIO
<1>7. CASE failedProcessStartResult
  BY <1>7, Results DEF failedProcessStartResult
<1>8. CASE killCapturedProcessGroup
  BY <1>8, ErrUpdate DEF killCapturedProcessGroup
<1>9. CASE waitForCapturedProcessResult
  BY <1>9, ExitCode DEF waitForCapturedProcessResult
<1>10. CASE runCapturedPlan
  <2>1. CASE result' = Denied
    BY <1>10, <2>1, Results DEF runCapturedPlan
  <2>2. CASE result' = [result EXCEPT !.denied = context = "expired"]
    BY <1>10, <2>2, DenialUpdate DEF runCapturedPlan
  <2> QED  BY <1>10, <2>1, <2>2 DEF runCapturedPlan
<1>11. CASE runCapturedToolWithRequest
  BY <1>11 DEF runCapturedToolWithRequest
<1>12. CASE UNCHANGED vars
  BY <1>12 DEF vars
<1> QED  BY <1>1, <1>2, <1>3, <1>4, <1>5, <1>6, <1>7, <1>8, <1>9, <1>10, <1>11,
       <1>12 DEF Next, Capture, Tool

\* The exit code is made of a result that says how the tool ended.
LEMMA ZeroSafe == Inv /\ [Next]_vars => ZeroMeansClean'
<1> SUFFICES ASSUME TypeOK, LeaderFirst, OpenByPlace, ResultSaysHow, ZeroMeansClean, [Next]_vars PROVE ZeroMeansClean'
  BY DEF Inv
<1> USE ChildAssumption DEF TypeOK, LeaderFirst, OpenByPlace, ResultSaysHow,
       ZeroMeansClean, BeforeStart, WithPlan, resources, tool, Proc, Running
<1>1. CASE Run \/ planError \/ buildCapturedSandboxPlan \/ prepareSandboxCgroup \/
           openCapturedProcessIO \/ startCapturedOSProcess \/
           failedProcessStartResult
  BY <1>1 DEF Run, planError, buildCapturedSandboxPlan, prepareSandboxCgroup,
     openCapturedProcessIO, startCapturedOSProcess, failedProcessStartResult
<1>2. CASE copyProcessOutput \/ copyError \/ Deadline
  BY <1>2 DEF copyProcessOutput, copyError, Deadline
<1>3. CASE waitEnds \/ killCapturedProcessGroup \/ reap
  BY <1>3 DEF waitEnds, killCapturedProcessGroup, reap
<1>4. CASE waitForCapturedProcessResult \/ runCapturedPlan
  BY <1>4 DEF waitForCapturedProcessResult, runCapturedPlan
<1>5. CASE (\E p \in Proc, q \in Child : fork(p, q)) \/ (\E p \in Proc : setsid(p))
           \/ (\E p \in Proc : closeOutput(p)) \/ (\E p \in Proc : exit(p))
  BY <1>5 DEF fork, setsid, closeOutput, exit
<1>6. CASE runCapturedToolWithRequest
  <2>1. PICK policy \in applyCapturePolicies : result' = [result EXCEPT !.policy = policy]
    BY <1>6 DEF runCapturedToolWithRequest
  <2>2. /\ result'.exit = result.exit /\ result'.denied = result.denied
        /\ result'.policy = policy
    BY <2>1, PolicyUpdate DEF applyCapturePolicies
  <2>3. PICK seen \in Parsed(result) :
          ret' = IF capturedResultBlocks(result', seen) /\ result.exit = 0
                 THEN BlockedExitCode ELSE result.exit
    BY <1>6 DEF runCapturedToolWithRequest
  <2>4. ret' = 0 =>
          /\ result.exit = 0 /\ seen # "error"
          /\ policy \in {"none", "record"}
    BY <2>2, <2>3 DEF capturedResultBlocks, BlockedExitCode, applyCapturePolicies
  <2>5. result.exit = 0 /\ seen # "error" =>
          /\ ~result.denied /\ (report # "error" \/ copied = "cut")
          /\ status = 0 /\ context # "expired"
    BY <1>6, <2>3 DEF Parsed, runCapturedToolWithRequest
  <2> QED  BY <1>6, <2>2, <2>4, <2>5 DEF runCapturedToolWithRequest
<1>7. CASE UNCHANGED vars
  BY <1>7 DEF vars
<1> QED  BY <1>1, <1>2, <1>3, <1>4, <1>5, <1>6, <1>7 DEF Next, Capture, Tool

\* Every reachable state is as Inv says.
LEMMA Invariance == Spec => []Inv
<1>1. Inv /\ [Next]_vars => Inv'
  BY TypeSafe, LeaderSafe, CopiersSafe, OpenSafe, TempSafe, StuckSafe,
     ResultSafe, ZeroSafe DEF Inv
<1> QED  BY InitInv, <1>1, PTL DEF Spec

\* The state of a capture is always well typed.
THEOREM TypeCorrect == Spec => []TypeOK
<1>1. Inv => TypeOK
  BY DEF Inv
<1> QED  BY Invariance, <1>1, PTL

\* Exit code 0 of a tool that ran means that it ended with 0 and in time, with
\* nothing denied, blocked or reported, whatever processes it started.
THEOREM ZeroMeansCleanHolds == Spec => []ZeroMeansClean
<1>1. Inv => ZeroMeansClean
  BY DEF Inv
<1> QED  BY Invariance, <1>1, PTL

\* The temp directory of a sandboxed tool outlives the leader and everybody whose
\* output is still copied.
THEOREM TempOutlivesToolHolds == Spec => []TempOutlivesTool
<1>1. Inv => TempOutlivesTool
  BY DEF Inv, TypeOK, LeaderFirst, CopiersSawTheEnd, TempByPlace, WithPlan,
     TempOutlivesTool, Holders, Running, sandboxCacheEnv
<1> QED  BY Invariance, <1>1, PTL

\* Run returns with the plan closed and the cgroup and the temp directory given up,
\* on every path; a cgroup stays only for a process that the tool started.
THEOREM ReleasedOnReturnHolds == Spec => []ReleasedOnReturn
<1>1. Inv => ReleasedOnReturn
  BY DEF Inv, OpenByPlace, TempByPlace, StuckForChild, ReleasedOnReturn
<1> QED  BY Invariance, <1>1, PTL
=============================================================================
