---------------------------- MODULE GeminiChecks ----------------------------
(***************************************************************************)
(* The AI code review of the git hooks                                     *)
(* (go/internal/hookrunnercli: gemini.go, gemini_execute.go, gemini_api.go,*)
(* gemini_filter.go, gemini_report.go).                                    *)
(*                                                                         *)
(* A run sends every batch of every check to the model: one goroutine per  *)
(* batch, a semaphore that bounds the calls in flight, retries with        *)
(* backoff, a response cache on disk that all runs of a repository share,  *)
(* a collector that fills in the outcomes as they arrive, and an exit code *)
(* from the outcomes.  An answer of the model is what it means for the     *)
(* commit: critical (a CRITICAL violation in the diff), clean (anything    *)
(* else that parses) or malformed (text that does not parse).              *)
(***************************************************************************)
EXTENDS Integers, FiniteSets

CONSTANTS Run,          \* hook processes of one repository
          Job,          \* the batches
          CheckOf,      \* the check each batch belongs to
          Concurrency,  \* max_concurrent_api_calls
          MaxRetries,   \* max_retries
          MaxFailures,  \* bound on requests that fail
          MaxExpiries   \* bound on cache entries that outlive their TTL

ASSUME JobAssumption == IsFiniteSet(Job) /\ DOMAIN CheckOf = Job
ASSUME ConcurrencyAssumption == Concurrency \in Nat \ {0}
ASSUME RetryAssumption == MaxRetries \in Nat
ASSUME BoundAssumption == MaxFailures \in Nat /\ MaxExpiries \in Nat

Check == {CheckOf[j] : j \in Job}
Answer == {"clean", "critical", "malformed"}
Outcome == {"clean", "critical", "error"}
NoEntry == [text |-> "none", expired |-> FALSE]

VARIABLES cache,     \* the response cache: per batch, what its file holds
          phase,     \* of a run: idle, running, closed (channel closed), done
          pc,        \* of a run's goroutine for a batch
          attempt,   \* its attempt in generateGeminiText
          text,      \* the answer it has, or "error"
          slots,     \* tokens in the run's semaphore
          results,   \* batches whose result is in the run's channel
          batches,   \* the collected outcome of each batch
          errors,    \* BatchErrors of each check
          completed, \* BatchesCompleted of each check
          exit,      \* exit code, -1 while running
          asked,     \* requests a goroutine sent
          failures, expiries

goroutine == <<pc, attempt, text, slots, results, asked>>
collector == <<phase, batches, errors, completed, exit>>
vars == <<cache, goroutine, collector, failures, expiries>>

Steps == {"ready", "read", "remove", "request", "backoff", "write", "send", "gone"}
InFlight(r) == {j \in Job : pc[r][j] \notin {"ready", "gone"}}

TypeOK ==
  /\ cache \in [Job -> [text : Answer, expired : BOOLEAN] \cup {NoEntry}]
  /\ phase \in [Run -> {"idle", "running", "closed", "done"}]
  /\ pc \in [Run -> [Job -> Steps]]
  /\ attempt \in [Run -> [Job -> Nat]]
  /\ text \in [Run -> [Job -> Answer \cup {"none", "error"}]]
  /\ slots \in [Run -> Int]
  /\ results \in [Run -> SUBSET Job]
  /\ batches \in [Run -> [Job -> Outcome \cup {"none"}]]
  /\ errors \in [Run -> [Check -> Nat]]
  /\ completed \in [Run -> [Check -> Nat]]
  /\ exit \in [Run -> -1..1]
  /\ asked \in [Run -> [Job -> Nat]]
  /\ failures \in Nat /\ expiries \in Nat

Init ==
  /\ cache = [j \in Job |-> NoEntry]
  /\ phase = [r \in Run |-> "idle"]
  /\ pc = [r \in Run |-> [j \in Job |-> "ready"]]
  /\ attempt = [r \in Run |-> [j \in Job |-> 0]]
  /\ text = [r \in Run |-> [j \in Job |-> "none"]]
  /\ slots = [r \in Run |-> 0]
  /\ results = [r \in Run |-> {}]
  /\ batches = [r \in Run |-> [j \in Job |-> "none"]]
  /\ errors = [r \in Run |-> [c \in Check |-> 0]]
  /\ completed = [r \in Run |-> [c \in Check |-> 0]]
  /\ exit = [r \in Run |-> -1]
  /\ asked = [r \in Run |-> [j \in Job |-> 0]]
  /\ failures = 0 /\ expiries = 0

-----------------------------------------------------------------------------
goTo(r, j, step) == pc' = [pc EXCEPT ![r][j] = step]
got(r, j, t) == text' = [text EXCEPT ![r][j] = t]

\* runGeminiCheck up to the start of the goroutines.
executeGeminiChecks(r) ==
  /\ phase[r] = "idle"
  /\ phase' = [phase EXCEPT ![r] = "running"]
  /\ UNCHANGED <<cache, goroutine, batches, errors, completed, exit, failures,
                 expiries>>

\* semaphore <- struct{}{}
acquireSlot(r, j) ==
  /\ phase[r] = "running" /\ pc[r][j] = "ready"
  /\ slots[r] < Concurrency
  /\ slots' = [slots EXCEPT ![r] = @ + 1]
  /\ goTo(r, j, "read")
  /\ UNCHANGED <<cache, collector, attempt, text, results, asked, failures, expiries>>

\* readGeminiCache: a hit, a miss, or an expired entry, which is then removed.
readGeminiCache(r, j) ==
  /\ pc[r][j] = "read"
  /\ \/ /\ cache[j] = NoEntry
        /\ goTo(r, j, "request") /\ UNCHANGED text
     \/ /\ cache[j] # NoEntry /\ ~cache[j].expired
        /\ got(r, j, cache[j].text) /\ goTo(r, j, "send")
     \/ /\ cache[j].expired
        /\ goTo(r, j, "remove") /\ UNCHANGED text
  /\ UNCHANGED <<cache, collector, attempt, slots, results, asked, failures, expiries>>

\* os.Remove of the file that was expired when it was read.
removeExpired(r, j) ==
  /\ pc[r][j] = "remove"
  /\ cache' = [cache EXCEPT ![j] = NoEntry]
  /\ goTo(r, j, "request")
  /\ UNCHANGED <<collector, attempt, text, slots, results, asked, failures, expiries>>

\* The loop of generateGeminiText after a retryable error.
retryOrFail(r, j) ==
  IF attempt[r][j] < MaxRetries
  THEN goTo(r, j, "backoff") /\ UNCHANGED text
  ELSE got(r, j, "error") /\ goTo(r, j, "send")

\* generateGeminiTextAttempt: the answer, a retryable error (transport, timeout,
\* a retryable status) or one that is not (another status, no text).
generateGeminiTextAttempt(r, j) ==
  /\ pc[r][j] = "request"
  /\ asked' = [asked EXCEPT ![r][j] = @ + 1]
  /\ \/ \E t \in Answer :
          got(r, j, t) /\ goTo(r, j, "write") /\ UNCHANGED failures
     \/ /\ failures < MaxFailures /\ failures' = failures + 1
        /\ \/ retryOrFail(r, j)
           \/ got(r, j, "error") /\ goTo(r, j, "send")
  /\ UNCHANGED <<cache, collector, attempt, slots, results, expiries>>

\* The backoff timer fires; the context of the hook is never cancelled.
backoff(r, j) ==
  /\ pc[r][j] = "backoff"
  /\ attempt' = [attempt EXCEPT ![r][j] = @ + 1]
  /\ goTo(r, j, "request")
  /\ UNCHANGED <<cache, collector, text, slots, results, asked, failures, expiries>>

\* writeGeminiCache renames a complete file over the entry, whatever the text is;
\* a failure is a warning.
writeGeminiCache(r, j) ==
  /\ pc[r][j] = "write"
  /\ \/ /\ cache' = [cache EXCEPT ![j] = [text |-> text[r][j], expired |-> FALSE]]
        /\ UNCHANGED failures
     \/ failures < MaxFailures /\ failures' = failures + 1 /\ UNCHANGED cache
  /\ goTo(r, j, "send")
  /\ UNCHANGED <<collector, attempt, text, slots, results, asked, expiries>>

\* The goroutine's result goes to the channel, which has room for all, and the
\* token goes back.
sendResult(r, j) ==
  /\ pc[r][j] = "send"
  /\ results' = [results EXCEPT ![r] = @ \cup {j}]
  /\ slots' = [slots EXCEPT ![r] = @ - 1]
  /\ goTo(r, j, "gone")
  /\ UNCHANGED <<cache, collector, attempt, text, asked, failures, expiries>>

\* parseGeminiResult within executeGeminiBatchJob.
parseGeminiResult(t) == IF t \in {"malformed", "error"} THEN "error" ELSE t

\* collectGeminiBatchResults, one receive.
collectGeminiBatchResults(r, j) ==
  /\ j \in results[r]
  /\ results' = [results EXCEPT ![r] = @ \ {j}]
  /\ LET o == parseGeminiResult(text[r][j])
         c == CheckOf[j]
     IN /\ batches' = [batches EXCEPT ![r][j] = o]
        /\ errors' = [errors EXCEPT ![r][c] = IF o = "error" THEN @ + 1 ELSE @]
        /\ completed' = [completed EXCEPT ![r][c] = IF o = "error" THEN @ ELSE @ + 1]
  /\ UNCHANGED <<cache, phase, exit, pc, attempt, text, slots, asked, failures,
                 expiries>>

\* Mutant: the channel is closed when no call is in flight.
MutantCloseWhenIdle(r) ==
  /\ phase[r] = "running"
  /\ slots[r] = 0 /\ \E j \in Job : pc[r][j] = "gone"
  /\ phase' = [phase EXCEPT ![r] = "closed"]
  /\ UNCHANGED <<cache, goroutine, batches, errors, completed, exit, failures,
                 expiries>>

\* waitGroup.Wait(); close(results)
closeResults(r) ==
  /\ phase[r] = "running"
  /\ \A j \in Job : pc[r][j] = "gone"
  /\ phase' = [phase EXCEPT ![r] = "closed"]
  /\ UNCHANGED <<cache, goroutine, batches, errors, completed, exit, failures,
                 expiries>>

\* Mutant: errors are looked at before criticals.
MutantErrorsFirst(r, c) ==
  IF errors[r][c] > 0
  THEN IF completed[r][c] = 0 THEN "ERROR" ELSE "WARN"
  ELSE IF \E j \in Job : CheckOf[j] = c /\ batches[r][j] = "critical"
  THEN "FAIL" ELSE "PASS"

\* geminiOutcomeStatus of a check, with hasBlockingCriticals.
geminiOutcomeStatus(r, c) ==
  CASE \E j \in Job : CheckOf[j] = c /\ batches[r][j] = "critical" -> "FAIL"
    [] OTHER -> IF errors[r][c] > 0 /\ completed[r][c] = 0 THEN "ERROR"
                ELSE IF errors[r][c] > 0 THEN "WARN" ELSE "PASS"

\* The range loop ends; summarizeGeminiOutcomes and geminiOutcomeExitCode.
geminiOutcomeExitCode(r) ==
  /\ phase[r] = "closed" /\ results[r] = {}
  /\ exit' = [exit EXCEPT ![r] =
                IF \E c \in Check : geminiOutcomeStatus(r, c) \in {"FAIL", "ERROR"}
                THEN 1 ELSE 0]
  /\ phase' = [phase EXCEPT ![r] = "done"]
  /\ UNCHANGED <<cache, goroutine, batches, errors, completed, failures, expiries>>

\* Time passes: an entry becomes older than its TTL.
Expire ==
  /\ expiries < MaxExpiries /\ expiries' = expiries + 1
  /\ \E j \in Job : /\ cache[j] # NoEntry /\ ~cache[j].expired
                    /\ cache' = [cache EXCEPT ![j].expired = TRUE]
  /\ UNCHANGED <<goroutine, collector, failures>>

jobStep(r, j) ==
  \/ acquireSlot(r, j) \/ readGeminiCache(r, j) \/ removeExpired(r, j)
  \/ generateGeminiTextAttempt(r, j) \/ backoff(r, j) \/ writeGeminiCache(r, j)
  \/ sendResult(r, j) \/ collectGeminiBatchResults(r, j)
runStep(r) ==
  executeGeminiChecks(r) \/ closeResults(r) \/ geminiOutcomeExitCode(r)

\* The reviews are over.  Every other step brings a goroutine, a run or a bound
\* forward, so a state without a step is one where goroutines wait for ever.
AllDone == (\A r \in Run : phase[r] = "done") /\ UNCHANGED vars

Next ==
  \/ \E r \in Run : runStep(r)
  \/ \E r \in Run, j \in Job : jobStep(r, j)
  \/ Expire \/ AllDone

Spec == Init /\ [][Next]_vars

-----------------------------------------------------------------------------

\* The collector misses nothing: when a run ends every batch has an outcome, the
\* one its goroutine had, and each check's counters add up to its batches.
NoLostBatch ==
  \A r \in Run : phase[r] = "done" =>
    /\ \A j \in Job : batches[r][j] = parseGeminiResult(text[r][j])
    /\ \A c \in Check : errors[r][c] + completed[r][c]
                          = Cardinality({j \in Job : CheckOf[j] = c})

\* A run lets the commit through only if no batch was answered with a critical
\* violation and every check has a batch that was reviewed, whatever other runs
\* did to the cache in between; and it stops the commit for no other reason.
VerdictFollowsAnswers ==
  \A r \in Run : phase[r] = "done" =>
    (exit[r] = 1 <=>
       \/ \E j \in Job : text[r][j] = "critical"
       \/ \E c \in Check : \A j \in Job :
            CheckOf[j] = c => text[r][j] \in {"malformed", "error"})

\* How a batch travels: through its goroutine, the channel and the collector, in
\* this order, with one answer.
BatchFlow ==
  \A r \in Run, j \in Job :
    /\ pc[r][j] = "write" => text[r][j] \in Answer
    /\ pc[r][j] \in {"send", "gone"} => text[r][j] # "none"
    /\ pc[r][j] = "gone" <=> (j \in results[r] \/ batches[r][j] # "none")
    /\ j \in results[r] => batches[r][j] = "none"
    /\ batches[r][j] # "none" => batches[r][j] = parseGeminiResult(text[r][j])

\* The channel is closed behind the last goroutine and drained before the end.
ClosedBehindAll ==
  \A r \in Run :
    /\ phase[r] \in {"closed", "done"} => \A j \in Job : pc[r][j] = "gone"
    /\ phase[r] = "done" => results[r] = {}

\* A check's counters tell whether it has failed and reviewed batches.
CountersTell ==
  \A r \in Run, c \in Check :
    /\ errors[r][c] = 0 <=>
         \A j \in Job : CheckOf[j] = c => batches[r][j] # "error"
    /\ completed[r][c] = 0 <=>
         \A j \in Job : CheckOf[j] = c => batches[r][j] \in {"none", "error"}
=============================================================================
