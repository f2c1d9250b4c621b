---------------------------- MODULE GitHookProofs ----------------------------
(***************************************************************************)
(* The two halves of a git hook that decide whether git goes on.           *)
(*                                                                         *)
(* The model's review (GeminiChecks): its exit code follows the answers    *)
(* the batches got and no batch is lost, for any number of runs, batches,  *)
(* checks, retries and tokens, and whatever the runs do to the cache they  *)
(* share.                                                                  *)
(*                                                                         *)
(* The hooks around it (GitHookGroups): what is committed or pushed was    *)
(* formatted and checked, for any files, groups, commands and refs, and    *)
(* whatever the author does meanwhile.                                     *)
(***************************************************************************)
EXTENDS GeminiChecks, GitHookGroups, FiniteSetTheorems, TLAPS

-----------------------------------------------------------------------------
(* The review                                                              *)

\* The inductive invariant: the verdict only follows from the counters and the
\* collected outcomes, so it needs what they say and how a batch gets there.
IInv == TypeOK /\ BatchFlow /\ ClosedBehindAll /\ CountersTell /\ VerdictFollowsAnswers

\* parseGeminiResult keeps what it can read and makes the rest an error.
LEMMA ParsedIsOutcome ==
  ASSUME NEW t \in Answer \cup {"error"}
  PROVE  /\ parseGeminiResult(t) \in Outcome
         /\ parseGeminiResult(t) = "error" <=> t \in {"malformed", "error"}
         /\ parseGeminiResult(t) = "critical" <=> t = "critical"
  BY DEF parseGeminiResult, Answer, Outcome

\* A review starts with nothing collected and nothing decided.
LEMMA InitIInv == Init => IInv
<1> SUFFICES ASSUME Init PROVE IInv
  OBVIOUS
<1>1. TypeOK
  <2>1. cache \in [Job -> [text : Answer, expired : BOOLEAN] \cup {NoEntry}]
    BY DEF Init
  <2>2. /\ phase \in [Run -> {"idle", "running", "closed", "done"}]
        /\ pc \in [Run -> [Job -> Steps]]
        /\ text \in [Run -> [Job -> Answer \cup {"none", "error"}]]
        /\ results \in [Run -> SUBSET Job]
        /\ batches \in [Run -> [Job -> Outcome \cup {"none"}]]
    BY DEF Init, Steps
  <2>3. /\ attempt \in [Run -> [Job -> Nat]]
        /\ slots \in [Run -> Int]
        /\ errors \in [Run -> [Check -> Nat]]
        /\ completed \in [Run -> [Check -> Nat]]
        /\ exit \in [Run -> -1..1]
        /\ asked \in [Run -> [Job -> Nat]]
        /\ failures \in Nat /\ expiries \in Nat
    BY DEF Init
  <2>4. QED
    BY <2>1, <2>2, <2>3 DEF TypeOK
<1>2. BatchFlow
  BY DEF Init, BatchFlow
<1>3. ClosedBehindAll
  BY DEF Init, ClosedBehindAll
<1>4. CountersTell
  BY DEF Init, CountersTell
<1>5. VerdictFollowsAnswers
  BY DEF Init, VerdictFollowsAnswers
<1>6. QED
  BY <1>1, <1>2, <1>3, <1>4, <1>5 DEF IInv

\* A goroutine's own steps leave the collector and the channel alone.
LEMMA GoroutineStep ==
  ASSUME IInv, NEW r \in Run, NEW j \in Job,
         NEW step \in Steps \ {"gone", "ready"},
         NEW t \in Answer \cup {"none", "error"},
         pc[r][j] # "gone",
         phase[r] = "running" \/ pc[r][j] # "ready",
         pc' = [pc EXCEPT ![r][j] = step],
         text' = [text EXCEPT ![r][j] = t],
         step = "write" => t \in Answer,
         step = "send" => t # "none",
         UNCHANGED <<collector, results>>
  PROVE  /\ pc' \in [Run -> [Job -> Steps]]
         /\ text' \in [Run -> [Job -> Answer \cup {"none", "error"}]]
         /\ BatchFlow' /\ ClosedBehindAll' /\ CountersTell'
         /\ VerdictFollowsAnswers'
<1>1. /\ pc' \in [Run -> [Job -> Steps]]
      /\ text' \in [Run -> [Job -> Answer \cup {"none", "error"}]]
      /\ phase \in [Run -> {"idle", "running", "closed", "done"}]
      /\ pc \in [Run -> [Job -> Steps]]
      /\ text \in [Run -> [Job -> Answer \cup {"none", "error"}]]
  BY DEF IInv, TypeOK
<1>2. \A q \in Run, k \in Job :
        /\ (q # r \/ k # j) => pc'[q][k] = pc[q][k] /\ text'[q][k] = text[q][k]
        /\ pc'[r][j] = step /\ text'[r][j] = t
  BY <1>1
<1>3. /\ phase' = phase /\ batches' = batches /\ errors' = errors
      /\ completed' = completed /\ exit' = exit /\ results' = results
  BY DEF collector
<1>4. j \notin results[r] /\ batches[r][j] = "none" /\ phase[r] \notin {"closed", "done"}
  BY DEF IInv, BatchFlow, ClosedBehindAll
<1>5. BatchFlow'
  BY <1>2, <1>3, <1>4 DEF IInv, BatchFlow, parseGeminiResult, Steps
<1>6. ClosedBehindAll'
  BY <1>2, <1>3, <1>4 DEF IInv, ClosedBehindAll
<1>7. CountersTell'
  BY <1>3 DEF IInv, CountersTell
<1>8. VerdictFollowsAnswers'
  BY <1>2, <1>3, <1>4 DEF IInv, VerdictFollowsAnswers
<1>9. QED
  BY <1>1, <1>5, <1>6, <1>7, <1>8

\* The steps of a goroutine before its result is ready.
LEMMA JobStepIInv ==
  ASSUME IInv, NEW r \in Run, NEW j \in Job,
         \/ acquireSlot(r, j) \/ readGeminiCache(r, j) \/ removeExpired(r, j)
         \/ generateGeminiTextAttempt(r, j) \/ backoff(r, j) \/ writeGeminiCache(r, j)
  PROVE  IInv'
<1> USE DEF goTo, got, goroutine
<1>t. TypeOK
  BY DEF IInv
<1>0. /\ text[r][j] \in Answer \cup {"none", "error"}
      /\ text = [text EXCEPT ![r][j] = text[r][j]]
      /\ pc[r][j] \in Steps
      /\ cache[j] # NoEntry => cache[j].text \in Answer
  BY <1>t DEF TypeOK
<1>1. CASE acquireSlot(r, j)
  <2>1. /\ pc' = [pc EXCEPT ![r][j] = "read"] /\ UNCHANGED <<collector,
                                                             results>>
        /\ text' = [text EXCEPT ![r][j] = text[r][j]]
        /\ pc[r][j] = "ready" /\ phase[r] = "running"
    BY <1>0, <1>1 DEF acquireSlot
  <2>2. /\ pc' \in [Run -> [Job -> Steps]]
        /\ text' \in [Run -> [Job -> Answer \cup {"none", "error"}]]
        /\ BatchFlow' /\ ClosedBehindAll' /\ CountersTell' /\ VerdictFollowsAnswers'
    BY <1>0, <2>1, GoroutineStep DEF Steps
  <2>3. slots' \in [Run -> Int]
    BY <1>t, <1>1 DEF TypeOK, acquireSlot
  <2>4. TypeOK'
    BY <1>t, <1>1, <2>2, <2>3 DEF TypeOK, acquireSlot, collector
  <2>5. QED
    BY <2>2, <2>4 DEF IInv
<1>2. CASE readGeminiCache(r, j)
  <2>1. PICK step \in {"request", "send", "remove"},
             t \in Answer \cup {"none", "error"} :
          /\ pc' = [pc EXCEPT ![r][j] = step] /\ UNCHANGED <<collector,
                                                             results>>
          /\ text' = [text EXCEPT ![r][j] = t]
          /\ step = "send" => t # "none"
          /\ pc[r][j] = "read"
    <3>1. CASE cache[j] # NoEntry /\ ~cache[j].expired /\ pc' = [pc EXCEPT ![r][j] = "send"]
                 /\ text' = [text EXCEPT ![r][j] = cache[j].text]
      <4>1. cache[j].text \in Answer /\ cache[j].text # "none"
        BY <1>0, <3>1 DEF Answer
      <4>2. QED
        BY <1>2, <3>1, <4>1 DEF readGeminiCache
    <3>2. CASE pc' = [pc EXCEPT ![r][j] = "request"] /\ UNCHANGED text
      BY <1>0, <1>2, <3>2 DEF readGeminiCache
    <3>3. CASE pc' = [pc EXCEPT ![r][j] = "remove"] /\ UNCHANGED text
      BY <1>0, <1>2, <3>3 DEF readGeminiCache
    <3>4. QED
      BY <1>2, <3>1, <3>2, <3>3 DEF readGeminiCache
  <2>2. /\ pc' \in [Run -> [Job -> Steps]]
        /\ text' \in [Run -> [Job -> Answer \cup {"none", "error"}]]
        /\ BatchFlow' /\ ClosedBehindAll' /\ CountersTell' /\ VerdictFollowsAnswers'
    BY <2>1, GoroutineStep DEF Steps
  <2>3. TypeOK'
    BY <1>t, <1>2, <2>2 DEF TypeOK, readGeminiCache, collector
  <2>4. QED
    BY <2>2, <2>3 DEF IInv
<1>3. CASE removeExpired(r, j)
  <2>1. /\ pc' = [pc EXCEPT ![r][j] = "request"] /\ UNCHANGED <<collector,
                                                                results>>
        /\ text' = [text EXCEPT ![r][j] = text[r][j]]
        /\ pc[r][j] = "remove"
    BY <1>0, <1>3 DEF removeExpired
  <2>2. /\ pc' \in [Run -> [Job -> Steps]]
        /\ text' \in [Run -> [Job -> Answer \cup {"none", "error"}]]
        /\ BatchFlow' /\ ClosedBehindAll' /\ CountersTell' /\ VerdictFollowsAnswers'
    BY <1>0, <2>1, GoroutineStep DEF Steps
  <2>3. cache' \in [Job -> [text : Answer, expired : BOOLEAN] \cup {NoEntry}]
    BY <1>t, <1>3 DEF TypeOK, removeExpired
  <2>4. TypeOK'
    BY <1>t, <1>3, <2>2, <2>3 DEF TypeOK, removeExpired, collector
  <2>5. QED
    BY <2>2, <2>4 DEF IInv
<1>4. CASE generateGeminiTextAttempt(r, j)
  <2>1. PICK step \in {"write", "backoff", "send"},
             t \in Answer \cup {"none", "error"} :
          /\ pc' = [pc EXCEPT ![r][j] = step] /\ UNCHANGED <<collector,
                                                             results>>
          /\ text' = [text EXCEPT ![r][j] = t]
          /\ step = "write" => t \in Answer
          /\ step = "send" => t # "none"
          /\ pc[r][j] = "request"
    <3>1. CASE \E t \in Answer : /\ text' = [text EXCEPT ![r][j] = t]
                                 /\ pc' = [pc EXCEPT ![r][j] = "write"]
      BY <1>4, <3>1 DEF generateGeminiTextAttempt
    <3>2. CASE pc' = [pc EXCEPT ![r][j] = "backoff"] /\ UNCHANGED text
      BY <1>0, <1>4, <3>2 DEF generateGeminiTextAttempt
    <3>3. CASE text' = [text EXCEPT ![r][j] = "error"] /\ pc' = [pc EXCEPT ![r][j] = "send"]
      BY <1>4, <3>3 DEF generateGeminiTextAttempt
    <3>4. QED
      BY <1>4, <3>1, <3>2, <3>3 DEF generateGeminiTextAttempt, retryOrFail
  <2>2. /\ pc' \in [Run -> [Job -> Steps]]
        /\ text' \in [Run -> [Job -> Answer \cup {"none", "error"}]]
        /\ BatchFlow' /\ ClosedBehindAll' /\ CountersTell' /\ VerdictFollowsAnswers'
    BY <2>1, GoroutineStep DEF Steps
  <2>3. asked' \in [Run -> [Job -> Nat]] /\ failures' \in Nat
    BY <1>t, <1>4 DEF TypeOK, generateGeminiTextAttempt
  <2>4. TypeOK'
    BY <1>t, <1>4, <2>2, <2>3 DEF TypeOK, generateGeminiTextAttempt, collector
  <2>5. QED
    BY <2>2, <2>4 DEF IInv
<1>5. CASE backoff(r, j)
  <2>1. /\ pc' = [pc EXCEPT ![r][j] = "request"] /\ UNCHANGED <<collector,
                                                                results>>
        /\ text' = [text EXCEPT ![r][j] = text[r][j]]
        /\ pc[r][j] = "backoff"
    BY <1>0, <1>5 DEF backoff
  <2>2. /\ pc' \in [Run -> [Job -> Steps]]
        /\ text' \in [Run -> [Job -> Answer \cup {"none", "error"}]]
        /\ BatchFlow' /\ ClosedBehindAll' /\ CountersTell' /\ VerdictFollowsAnswers'
    BY <1>0, <2>1, GoroutineStep DEF Steps
  <2>3. attempt' \in [Run -> [Job -> Nat]]
    BY <1>t, <1>5 DEF TypeOK, backoff
  <2>4. TypeOK'
    BY <1>t, <1>5, <2>2, <2>3 DEF TypeOK, backoff, collector
  <2>5. QED
    BY <2>2, <2>4 DEF IInv
<1>6. CASE writeGeminiCache(r, j)
  <2>1. /\ pc' = [pc EXCEPT ![r][j] = "send"] /\ UNCHANGED <<collector,
                                                             results>>
        /\ text' = [text EXCEPT ![r][j] = text[r][j]]
        /\ pc[r][j] = "write"
    BY <1>0, <1>6 DEF writeGeminiCache
  <2>2. text[r][j] \in Answer /\ text[r][j] # "none"
    BY <2>1 DEF IInv, BatchFlow, Answer
  <2>3. /\ pc' \in [Run -> [Job -> Steps]]
        /\ text' \in [Run -> [Job -> Answer \cup {"none", "error"}]]
        /\ BatchFlow' /\ ClosedBehindAll' /\ CountersTell' /\ VerdictFollowsAnswers'
    BY <1>0, <2>1, <2>2, GoroutineStep DEF Steps
  <2>4. /\ cache' \in [Job -> [text : Answer, expired : BOOLEAN] \cup {NoEntry}]
        /\ failures' \in Nat
    <3>1. CASE /\ cache' = [cache EXCEPT ![j] = [text |-> text[r][j], expired |-> FALSE]]
               /\ UNCHANGED failures
      <4>1. [text |-> text[r][j], expired |-> FALSE] \in
              [text : Answer, expired : BOOLEAN] \cup {NoEntry}
        BY <2>2
      <4> DEFINE e == [text |-> text[r][j], expired |-> FALSE]
      <4> HIDE DEF e
      <4>2. QED
        BY <1>t, <3>1, <4>1 DEF TypeOK, e
    <3>2. CASE UNCHANGED cache /\ failures' = failures + 1
      BY <1>t, <3>2 DEF TypeOK
    <3>3. QED
      BY <1>6, <3>1, <3>2 DEF writeGeminiCache
  <2>5. TypeOK'
    BY <1>t, <1>6, <2>3, <2>4 DEF TypeOK, writeGeminiCache, collector
  <2>6. QED
    BY <2>3, <2>5 DEF IInv
<1>7. QED
  BY <1>1, <1>2, <1>3, <1>4, <1>5, <1>6

\* The result goes into the channel.
LEMMA SendIInv ==
  ASSUME IInv, NEW r \in Run, NEW j \in Job, sendResult(r, j)
  PROVE  IInv'
<1>t. TypeOK /\ BatchFlow /\ ClosedBehindAll
  BY DEF IInv
<1>1. /\ pc' = [pc EXCEPT ![r][j] = "gone"]
      /\ results' = [results EXCEPT ![r] = @ \cup {j}]
      /\ text' = text /\ batches' = batches /\ phase' = phase /\ exit' = exit
      /\ errors' = errors /\ completed' = completed
      /\ pc[r][j] = "send"
  BY DEF sendResult, goTo, collector
<1>2. /\ pc' \in [Run -> [Job -> Steps]] /\ results' \in [Run -> SUBSET Job]
      /\ slots' \in [Run -> Int]
  BY <1>t, <1>1 DEF TypeOK, sendResult, Steps
<1>3. TypeOK'
  BY <1>t, <1>1, <1>2 DEF TypeOK, sendResult, collector
<1>4. /\ \A q \in Run, k \in Job :
           (q # r \/ k # j) => /\ pc'[q][k] = pc[q][k]
                               /\ k \in results'[q] <=> k \in results[q]
      /\ pc'[r][j] = "gone" /\ j \in results'[r]
  BY <1>t, <1>1 DEF TypeOK
<1>5. /\ batches[r][j] = "none" /\ text[r][j] # "none"
      /\ phase[r] \notin {"closed", "done"}
  BY <1>t, <1>1 DEF BatchFlow, ClosedBehindAll
<1>6. BatchFlow'
  BY <1>t, <1>1, <1>4, <1>5 DEF BatchFlow, parseGeminiResult
<1>7. ClosedBehindAll'
  <2> SUFFICES ASSUME NEW q \in Run
               PROVE  /\ phase[q] \in {"closed", "done"} =>
                           \A k \in Job : pc'[q][k] = "gone"
                      /\ phase[q] = "done" => results'[q] = {}
    BY <1>1 DEF ClosedBehindAll
  <2>1. CASE q = r
    BY <1>5, <2>1
  <2>2. CASE q # r
    <3>1. results'[q] = results[q]
      BY <1>t, <1>1, <2>2 DEF TypeOK
    <3>2. QED
      BY <1>t, <1>4, <2>2, <3>1 DEF ClosedBehindAll
  <2>3. QED
    BY <2>1, <2>2
<1>8. CountersTell'
  BY <1>1 DEF IInv, CountersTell
<1>9. VerdictFollowsAnswers'
  BY <1>1 DEF IInv, VerdictFollowsAnswers
<1>10. QED
  BY <1>3, <1>6, <1>7, <1>8, <1>9 DEF IInv

\* The collector takes it out and counts it.
LEMMA CollectIInv ==
  ASSUME IInv, NEW r \in Run, NEW j \in Job, collectGeminiBatchResults(r, j)
  PROVE  IInv'
<1> DEFINE o == parseGeminiResult(text[r][j])
           c == CheckOf[j]
<1>t. TypeOK /\ BatchFlow /\ ClosedBehindAll /\ CountersTell
  BY DEF IInv
<1>1. /\ results' = [results EXCEPT ![r] = @ \ {j}]
      /\ batches' = [batches EXCEPT ![r][j] = o]
      /\ errors' = [errors EXCEPT ![r][c] = IF o = "error" THEN @ + 1 ELSE @]
      /\ completed' = [completed EXCEPT ![r][c] = IF o = "error" THEN @ ELSE @ + 1]
      /\ text' = text /\ pc' = pc /\ phase' = phase /\ exit' = exit
      /\ j \in results[r]
  BY DEF collectGeminiBatchResults
<1>2. /\ pc[r][j] = "gone" /\ batches[r][j] = "none" /\ phase[r] # "done"
      /\ text[r][j] \in Answer \cup {"error"}
  BY <1>t, <1>1 DEF BatchFlow, ClosedBehindAll, TypeOK
<1>3. o \in Outcome /\ c \in Check
  BY <1>2, ParsedIsOutcome DEF Check
<1> HIDE DEF o, c
<1>4. /\ results' \in [Run -> SUBSET Job]
      /\ batches' \in [Run -> [Job -> Outcome \cup {"none"}]]
  BY <1>t, <1>1, <1>3 DEF TypeOK
<1>5. errors' \in [Run -> [Check -> Nat]] /\ completed' \in [Run -> [Check -> Nat]]
  BY <1>t, <1>1, <1>3 DEF TypeOK
<1>6. TypeOK'
  BY <1>t, <1>1, <1>4, <1>5 DEF TypeOK, collectGeminiBatchResults
<1>7. /\ \A q \in Run, k \in Job :
           (q # r \/ k # j) => /\ batches'[q][k] = batches[q][k]
                               /\ k \in results'[q] <=> k \in results[q]
      /\ batches'[r][j] = o /\ j \notin results'[r]
  BY <1>t, <1>1 DEF TypeOK
<1>8. BatchFlow'
  BY <1>t, <1>1, <1>2, <1>3, <1>7 DEF BatchFlow, Outcome, o, parseGeminiResult
<1>9. ClosedBehindAll'
  <2>1. \A q \in Run : results[q] = {} => results'[q] = {}
    BY <1>t, <1>1 DEF TypeOK
  <2>2. QED
    BY <1>t, <1>1, <2>1 DEF ClosedBehindAll
<1>10. CountersTell'
  <2> SUFFICES ASSUME NEW q \in Run, NEW d \in Check
               PROVE  /\ errors'[q][d] = 0 <=>
                           \A k \in Job : CheckOf[k] = d => batches'[q][k] # "error"
                      /\ completed'[q][d] = 0 <=>
                           \A k \in Job : CheckOf[k] = d =>
                              batches'[q][k] \in {"none", "error"}
    BY DEF CountersTell
  <2>0. errors[q][d] \in Nat /\ completed[q][d] \in Nat
    BY <1>t DEF TypeOK
  <2>1. CASE q = r /\ d = c
    <3>1. /\ errors'[q][d] = IF o = "error" THEN errors[q][d] + 1 ELSE errors[q][d]
          /\ completed'[q][d] = IF o = "error" THEN completed[q][d]
                                ELSE completed[q][d] + 1
      BY <1>t, <1>1, <1>3, <2>1 DEF TypeOK
    <3>2. CASE o = "error"
      <4>1. errors'[q][d] # 0 /\ completed'[q][d] = completed[q][d]
        BY <2>0, <3>1, <3>2
      <4>2. QED
        BY <1>t, <1>2, <1>7, <2>1, <3>2, <4>1 DEF CountersTell, c
    <3>3. CASE o # "error"
      <4>1. completed'[q][d] # 0 /\ errors'[q][d] = errors[q][d]
        BY <2>0, <3>1, <3>3
      <4>2. o \notin {"none", "error"}
        BY <1>3, <3>3 DEF Outcome
      <4>3. QED
        BY <1>t, <1>2, <1>7, <2>1, <3>3, <4>1, <4>2 DEF CountersTell, c
    <3>4. QED
      BY <3>2, <3>3
  <2>2. CASE q # r \/ d # c
    <3>1. errors'[q][d] = errors[q][d] /\ completed'[q][d] = completed[q][d]
      BY <1>t, <1>1, <1>3, <2>2 DEF TypeOK
    <3>2. \A k \in Job : CheckOf[k] = d => batches'[q][k] = batches[q][k]
      BY <1>7, <2>2 DEF c
    <3>3. QED
      BY <1>t, <3>1, <3>2 DEF CountersTell
  <2>3. QED
    BY <2>1, <2>2
<1>11. VerdictFollowsAnswers'
  BY <1>1 DEF IInv, VerdictFollowsAnswers
<1>12. QED
  BY <1>6, <1>8, <1>9, <1>10, <1>11 DEF IInv

\* The end of the run: what the counters say is what the answers were.
LEMMA ExitIInv ==
  ASSUME IInv, NEW r \in Run, geminiOutcomeExitCode(r)
  PROVE  IInv'
<1>t. TypeOK /\ BatchFlow /\ ClosedBehindAll /\ CountersTell
  BY DEF IInv
<1>1. /\ phase' = [phase EXCEPT ![r] = "done"]
      /\ exit' = [exit EXCEPT ![r] =
                    IF \E c \in Check : geminiOutcomeStatus(r, c) \in {"FAIL", "ERROR"}
                    THEN 1 ELSE 0]
      /\ pc' = pc /\ text' = text /\ results' = results /\ batches' = batches
      /\ errors' = errors /\ completed' = completed
      /\ phase[r] = "closed" /\ results[r] = {}
  BY DEF geminiOutcomeExitCode, goroutine
<1>2. /\ phase' \in [Run -> {"idle", "running", "closed", "done"}]
      /\ exit' \in [Run -> -1..1]
  BY <1>t, <1>1 DEF TypeOK
<1>3. TypeOK'
  BY <1>t, <1>1, <1>2 DEF TypeOK, geminiOutcomeExitCode, goroutine
<1>4. BatchFlow' /\ CountersTell'
  BY <1>t, <1>1 DEF BatchFlow, CountersTell
<1>5. ClosedBehindAll'
  BY <1>t, <1>1 DEF ClosedBehindAll, TypeOK
<1>6. \A j \in Job : /\ batches[r][j] = "error" <=> text[r][j] \in {"malformed", "error"}
                     /\ batches[r][j] = "critical" <=> text[r][j] = "critical"
                     /\ batches[r][j] # "none"
  <2> SUFFICES ASSUME NEW j \in Job
               PROVE  /\ batches[r][j] = "error" <=> text[r][j] \in {"malformed", "error"}
                      /\ batches[r][j] = "critical" <=> text[r][j] = "critical"
                      /\ batches[r][j] # "none"
    OBVIOUS
  <2>1. batches[r][j] # "none" /\ text[r][j] # "none"
    BY <1>t, <1>1 DEF ClosedBehindAll, BatchFlow
  <2>2. text[r][j] \in Answer \cup {"error"}
    BY <1>t, <2>1 DEF TypeOK
  <2>3. batches[r][j] = parseGeminiResult(text[r][j])
    BY <1>t, <2>1 DEF BatchFlow
  <2>4. QED
    BY <2>1, <2>2, <2>3, ParsedIsOutcome
<1>7. \A c \in Check : errors[r][c] > 0 /\ completed[r][c] = 0 <=>
        \A j \in Job : CheckOf[j] = c => text[r][j] \in {"malformed", "error"}
  <2> SUFFICES ASSUME NEW c \in Check
               PROVE  errors[r][c] > 0 /\ completed[r][c] = 0 <=>
                        \A j \in Job : CheckOf[j] = c =>
                           text[r][j] \in {"malformed", "error"}
    OBVIOUS
  <2>1. PICK i \in Job : CheckOf[i] = c
    BY DEF Check
  <2>2. errors[r][c] > 0 <=> errors[r][c] # 0
    BY <1>t DEF TypeOK
  <2>3. /\ errors[r][c] = 0 <=>
             \A j \in Job : CheckOf[j] = c => batches[r][j] # "error"
        /\ completed[r][c] = 0 <=>
             \A j \in Job : CheckOf[j] = c => batches[r][j] \in {"none", "error"}
    BY <1>t DEF CountersTell
  <2>4. QED
    BY <1>6, <2>1, <2>2, <2>3
<1>8. \A c \in Check : geminiOutcomeStatus(r, c) \in {"FAIL", "ERROR"} <=>
        \/ \E j \in Job : CheckOf[j] = c /\ text[r][j] = "critical"
        \/ \A j \in Job : CheckOf[j] = c => text[r][j] \in {"malformed", "error"}
  BY <1>6, <1>7 DEF geminiOutcomeStatus
<1>9. (\E c \in Check : geminiOutcomeStatus(r, c) \in {"FAIL", "ERROR"}) <=>
        \/ \E j \in Job : text[r][j] = "critical"
        \/ \E c \in Check : \A j \in Job :
             CheckOf[j] = c => text[r][j] \in {"malformed", "error"}
  BY <1>8 DEF Check
<1>10. VerdictFollowsAnswers'
  <2> SUFFICES ASSUME NEW q \in Run, phase'[q] = "done"
               PROVE  exit'[q] = 1 <=>
                        \/ \E j \in Job : text'[q][j] = "critical"
                        \/ \E c \in Check : \A j \in Job :
                             CheckOf[j] = c => text'[q][j] \in {"malformed", "error"}
    BY DEF VerdictFollowsAnswers
  <2>1. CASE q = r
    <3>1. exit'[q] = IF \E c \in Check : geminiOutcomeStatus(r, c) \in {"FAIL", "ERROR"}
                     THEN 1 ELSE 0
      BY <1>t, <1>1, <2>1 DEF TypeOK
    <3>2. QED
      BY <1>1, <1>9, <2>1, <3>1
  <2>2. CASE q # r
    <3>1. phase[q] = "done" /\ exit'[q] = exit[q]
      BY <1>t, <1>1, <2>2 DEF TypeOK
    <3>2. QED
      BY <1>1, <3>1 DEF IInv, VerdictFollowsAnswers
  <2>3. QED
    BY <2>1, <2>2
<1>11. QED
  BY <1>3, <1>4, <1>5, <1>10 DEF IInv

\* Starting a review and closing its channel.
LEMMA PhaseIInv ==
  ASSUME IInv, NEW r \in Run, executeGeminiChecks(r) \/ closeResults(r)
  PROVE  IInv'
<1>t. TypeOK /\ BatchFlow /\ ClosedBehindAll /\ CountersTell
  BY DEF IInv
<1>1. PICK ph \in {"running", "closed"} :
        /\ phase' = [phase EXCEPT ![r] = ph]
        /\ ph = "closed" => \A j \in Job : pc[r][j] = "gone"
        /\ UNCHANGED <<cache, goroutine, batches, errors, completed, exit,
                       failures, expiries>>
  BY DEF executeGeminiChecks, closeResults
<1>2. /\ pc' = pc /\ text' = text /\ results' = results /\ batches' = batches
      /\ errors' = errors /\ completed' = completed /\ exit' = exit
  BY <1>1 DEF goroutine
<1>3. TypeOK'
  BY <1>t, <1>1 DEF TypeOK, goroutine
<1>4. BatchFlow' /\ CountersTell'
  BY <1>t, <1>2 DEF BatchFlow, CountersTell
<1>5. \A q \in Run : /\ phase'[q] = "done" => phase[q] = "done"
                     /\ phase'[q] = "closed" => phase[q] = "closed" \/ (q = r /\ ph = "closed")
  BY <1>t, <1>1 DEF TypeOK
<1>6. ClosedBehindAll'
  BY <1>t, <1>1, <1>2, <1>5 DEF ClosedBehindAll
<1>7. VerdictFollowsAnswers'
  BY <1>2, <1>5 DEF IInv, VerdictFollowsAnswers
<1>8. QED
  BY <1>3, <1>4, <1>6, <1>7 DEF IInv

\* An entry gets too old, or nothing happens.
LEMMA IdleIInv ==
  ASSUME IInv, Expire \/ UNCHANGED vars
  PROVE  IInv'
<1>t. TypeOK
  BY DEF IInv
<1>1. UNCHANGED <<goroutine, collector>>
  BY DEF Expire, vars
<1>2. cache' \in [Job -> [text : Answer, expired : BOOLEAN] \cup {NoEntry}]
  <2>1. CASE Expire
    <3>1. PICK j \in Job : /\ cache[j] # NoEntry
                          /\ cache' = [cache EXCEPT ![j].expired = TRUE]
      BY <2>1 DEF Expire
    <3>2. cache[j] \in [text : Answer, expired : BOOLEAN]
      BY <1>t, <3>1 DEF TypeOK
    <3>3. [cache[j] EXCEPT !.expired = TRUE] \in [text : Answer, expired : BOOLEAN]
      BY <3>2
    <3> DEFINE e == [cache[j] EXCEPT !.expired = TRUE]
    <3>4. cache' = [cache EXCEPT ![j] = e]
      BY <3>1
    <3> HIDE DEF e
    <3>5. QED
      BY <1>t, <3>3, <3>4 DEF TypeOK, e
  <2>2. CASE UNCHANGED vars
    BY <1>t, <2>2 DEF TypeOK, vars
  <2>3. QED
    BY <2>1, <2>2
<1>3. failures' \in Nat /\ expiries' \in Nat
  BY <1>t DEF TypeOK, Expire, vars
<1>4. TypeOK'
  BY <1>t, <1>1, <1>2, <1>3 DEF TypeOK, goroutine, collector
<1>5. BatchFlow' /\ ClosedBehindAll' /\ CountersTell' /\ VerdictFollowsAnswers'
  BY <1>1 DEF IInv, BatchFlow, ClosedBehindAll, CountersTell, VerdictFollowsAnswers,
              goroutine, collector, parseGeminiResult
<1>6. QED
  BY <1>4, <1>5 DEF IInv

\* The invariant holds in every reachable state.
THEOREM Invariance == Spec => []IInv
<1>1. IInv /\ [Next]_vars => IInv'
  <2> SUFFICES ASSUME IInv, [Next]_vars PROVE IInv'
    OBVIOUS
  <2>1. CASE \E r \in Run : runStep(r)
    BY <2>1, ExitIInv, PhaseIInv DEF runStep
  <2>2. CASE \E r \in Run, j \in Job : jobStep(r, j)
    BY <2>2, JobStepIInv, SendIInv, CollectIInv DEF jobStep
  <2>3. CASE Expire \/ UNCHANGED vars
    BY <2>3, IdleIInv
  <2>4. QED
    BY <2>1, <2>2, <2>3 DEF Next, AllDone
<1>2. QED
  BY InitIInv, <1>1, PTL DEF Spec

\* Every variable of the review keeps its type.
THEOREM TypeCorrect == Spec => []TypeOK
<1>1. IInv => TypeOK
  BY DEF IInv
<1>2. QED
  BY <1>1, Invariance, PTL

\* A commit is stopped exactly for a critical answer or for a check without any
\* reviewed batch: no order of goroutines, cache reads, removals and writes of
\* concurrent runs, retries and failures changes that.
THEOREM VerdictFollowsAnswersHolds == Spec => []VerdictFollowsAnswers
<1>1. IInv => VerdictFollowsAnswers
  BY DEF IInv
<1>2. QED
  BY <1>1, Invariance, PTL

-----------------------------------------------------------------------------
(* No batch is lost: the counters are the numbers of the collected outcomes. *)

Failed(r, c) == {j \in Job : CheckOf[j] = c /\ batches[r][j] = "error"}
Reviewed(r, c) == {j \in Job : CheckOf[j] = c /\ batches[r][j] \in {"clean", "critical"}}

\* A counter is the number of batches behind it.
Counted ==
  \A r \in Run, c \in Check : /\ errors[r][c] = Cardinality(Failed(r, c))
                              /\ completed[r][c] = Cardinality(Reviewed(r, c))

\* A review starts at zero.
LEMMA InitCounted == Init => Counted
<1> SUFFICES ASSUME Init, NEW r \in Run, NEW c \in Check
             PROVE  /\ errors[r][c] = Cardinality(Failed(r, c))
                    /\ completed[r][c] = Cardinality(Reviewed(r, c))
  BY DEF Counted
<1>1. Failed(r, c) = {} /\ Reviewed(r, c) = {}
  BY DEF Init, Failed, Reviewed
<1> QED  BY <1>1, FS_EmptySet DEF Init

\* One receive moves one batch, which had no outcome, to one of the counts.
LEMMA CollectCounted ==
  ASSUME IInv, Counted, NEW r \in Run, NEW j \in Job, collectGeminiBatchResults(r, j)
  PROVE  Counted'
<1> DEFINE o == parseGeminiResult(text[r][j])
           d == CheckOf[j]
<1>1. /\ batches \in [Run -> [Job -> Outcome \cup {"none"}]]
      /\ errors \in [Run -> [Check -> Nat]]
      /\ completed \in [Run -> [Check -> Nat]]
      /\ d \in Check /\ j \in results[r] /\ batches[r][j] = "none"
  BY DEF IInv, TypeOK, BatchFlow, Check, collectGeminiBatchResults
<1>2. o \in Outcome
  <2>1. text[r][j] \in Answer \cup {"none", "error"} /\ text[r][j] # "none"
    BY <1>1 DEF IInv, TypeOK, BatchFlow, Steps
  <2> QED  BY <2>1, ParsedIsOutcome
<1>3. /\ batches' = [batches EXCEPT ![r][j] = o]
      /\ errors' = [errors EXCEPT ![r][d] = IF o = "error" THEN @ + 1 ELSE @]
      /\ completed' = [completed EXCEPT ![r][d] = IF o = "error" THEN @ ELSE @ + 1]
  BY DEF collectGeminiBatchResults
<1> HIDE DEF o
<1>4. SUFFICES ASSUME NEW q \in Run, NEW c \in Check
               PROVE  /\ errors'[q][c] = Cardinality(Failed(q, c)')
                      /\ completed'[q][c] = Cardinality(Reviewed(q, c)')
  BY DEF Counted, Failed, Reviewed
<1>5. /\ errors[q][c] = Cardinality(Failed(q, c))
      /\ completed[q][c] = Cardinality(Reviewed(q, c))
      /\ IsFiniteSet(Failed(q, c)) /\ IsFiniteSet(Reviewed(q, c))
  <2>1. IsFiniteSet(Failed(q, c)) /\ IsFiniteSet(Reviewed(q, c))
    BY JobAssumption, FS_Subset DEF Failed, Reviewed
  <2> QED  BY <2>1 DEF Counted
<1>6. CASE q # r \/ c # d
  <2>1. Failed(q, c)' = Failed(q, c) /\ Reviewed(q, c)' = Reviewed(q, c)
    BY <1>1, <1>3, <1>6 DEF Failed, Reviewed
  <2>2. errors'[q][c] = errors[q][c] /\ completed'[q][c] = completed[q][c]
    BY <1>1, <1>3, <1>6
  <2> QED  BY <1>5, <2>1, <2>2
<1>7. CASE q = r /\ c = d /\ o = "error"
  <2>1. Failed(q, c)' = Failed(q, c) \cup {j} /\ Reviewed(q, c)' = Reviewed(q, c)
    BY <1>1, <1>3, <1>7 DEF Failed, Reviewed
  <2>2. errors'[q][c] = errors[q][c] + 1 /\ completed'[q][c] = completed[q][c]
    BY <1>1, <1>3, <1>7
  <2>3. j \notin Failed(q, c)
    BY <1>1, <1>7 DEF Failed
  <2> QED  BY <1>5, <2>1, <2>2, <2>3, FS_AddElement
<1>8. CASE q = r /\ c = d /\ o # "error"
  <2>1. Failed(q, c)' = Failed(q, c) /\ Reviewed(q, c)' = Reviewed(q, c) \cup {j}
    BY <1>1, <1>2, <1>3, <1>8 DEF Failed, Reviewed, Outcome
  <2>2. errors'[q][c] = errors[q][c] /\ completed'[q][c] = completed[q][c] + 1
    BY <1>1, <1>3, <1>8
  <2>3. j \notin Reviewed(q, c)
    BY <1>1, <1>8 DEF Reviewed
  <2> QED  BY <1>5, <2>1, <2>2, <2>3, FS_AddElement
<1> QED  BY <1>6, <1>7, <1>8

\* Nothing else counts.
LEMMA OthersLeaveCounts ==
  ASSUME Counted, UNCHANGED <<batches, errors, completed>>
  PROVE  Counted'
BY DEF Counted, Failed, Reviewed

LEMMA CountedInvariance == Spec => []Counted
<1>1. IInv /\ Counted /\ [Next]_vars => Counted'
  <2> SUFFICES ASSUME IInv, Counted, [Next]_vars PROVE Counted'
    OBVIOUS
  <2>1. CASE \E r \in Run : runStep(r)
    BY <2>1, OthersLeaveCounts DEF runStep, executeGeminiChecks, closeResults,
       geminiOutcomeExitCode
  <2>2. ASSUME NEW r \in Run, NEW j \in Job, jobStep(r, j) PROVE Counted'
    BY <2>2, CollectCounted, OthersLeaveCounts DEF jobStep, acquireSlot,
       readGeminiCache, removeExpired, generateGeminiTextAttempt, backoff,
       writeGeminiCache, sendResult, collector
  <2>3. CASE Expire \/ UNCHANGED vars
    BY <2>3, OthersLeaveCounts DEF Expire, vars, collector
  <2> QED  BY <2>1, <2>2, <2>3 DEF Next, AllDone
<1> QED  BY InitCounted, Invariance, <1>1, PTL DEF Spec

\* When a run ends every batch has the outcome its goroutine had, and a check's
\* two counters add up to its batches, however the goroutines were scheduled.
THEOREM NoLostBatchHolds == Spec => []NoLostBatch
<1>1. IInv /\ Counted => NoLostBatch
  <2> SUFFICES ASSUME IInv, Counted, NEW r \in Run, phase[r] = "done"
               PROVE  /\ \A j \in Job : batches[r][j] = parseGeminiResult(text[r][j])
                      /\ \A c \in Check : errors[r][c] + completed[r][c]
                                            = Cardinality({j \in Job : CheckOf[j] = c})
    BY DEF NoLostBatch
  <2>1. \A j \in Job : /\ batches[r][j] = parseGeminiResult(text[r][j])
                       /\ batches[r][j] \in Outcome
    BY DEF IInv, TypeOK, BatchFlow, ClosedBehindAll
  <2>2. ASSUME NEW c \in Check
        PROVE  errors[r][c] + completed[r][c] = Cardinality({j \in Job : CheckOf[j] = c})
    <3>1. IsFiniteSet(Failed(r, c)) /\ IsFiniteSet(Reviewed(r, c))
      BY JobAssumption, FS_Subset DEF Failed, Reviewed
    <3>2. /\ Failed(r, c) \cup Reviewed(r, c) = {j \in Job : CheckOf[j] = c}
          /\ Failed(r, c) \cap Reviewed(r, c) = {}
      BY <2>1 DEF Failed, Reviewed, Outcome
    <3>3. errors[r][c] \in Nat /\ completed[r][c] \in Nat
      BY DEF IInv, TypeOK
    <3> QED  BY <3>1, <3>2, <3>3, FS_Union, FS_EmptySet DEF Counted
  <2> QED  BY <2>1, <2>2
<1> QED  BY Invariance, CountedInvariance, <1>1, PTL

-----------------------------------------------------------------------------
(* The hooks                                                               *)

\* Values the hook works with: languages that have formatters, contents, what it
\* keeps of a group, and its phases.
Langs == {"py", "go"}
Content == [v : Nat, done : Nat] \cup {Absent}
Record == [next : Nat, par : SUBSET Command, exit : {0, 1},
           state : {"off", "skipped", "run", "done"}]
Formatting == {"format", "text", "lanes", "restage"}
Checking == {"groups", "ai", "full"}
Over == {"skipped", "done"}

\* The types, and what the registry of groups promises.
HookTyped ==
  /\ RegistryIsSound
  /\ head \in [File -> Content] /\ index \in [File -> Content]
  /\ work \in [File -> Content] /\ snap \in [File -> Content \cup {Unread}]
  /\ foreign \in BOOLEAN
  /\ other \in [tree : [File -> Content], index : [File -> Content]]
  /\ edits \in Nat /\ clean \in BOOLEAN
  /\ files \subseteq File /\ needed \subseteq File
  /\ lane \in [Langs -> {"off", "1", "2", "3", "ok", "failed"}]
  /\ group \in [AllGroups -> Record]
  /\ verdict \in [Command -> {"none", "pass", "fail", "skip"}]
  /\ read \in [Command -> [File -> Content]]
  /\ status \in {0, 1} /\ mode \in {"none", "commit", "all", "push"}
  /\ at \in {"idle", "select", "end"} \cup Formatting \cup Checking

\* Formatters run between the fix of the text and the staging, and nowhere else.
LanesRest ==
  /\ at \in {"idle", "select", "format", "text"} => \A l \in Langs : lane[l] = "off"
  /\ at = "restage" => \A l \in Langs : lane[l] = "ok"
  /\ at \in Checking => \A l \in Langs : lane[l] \in {"ok", "off"}

\* Each phase belongs to the hooks that go through it.
ModeFits ==
  /\ at = "idle" => mode = "none"
  /\ at \in Formatting \cup {"ai"} => mode \in {"commit", "all"}
  /\ at \in {"select", "groups"} => mode # "none"
  /\ at = "full" => mode = "push"

\* Nothing is checked before the formatters are done.
NotChecked ==
  at \in {"idle", "select"} \cup Formatting =>
    /\ \A g \in AllGroups : group[g] = Idle
    /\ \A c \in Command : verdict[c] = "none"

\* Which groups have run when.
WhoRan ==
  /\ at = "groups" => \A g \in AllGroups \ Groups : group[g].state = "off"
  /\ at = "ai" => \A g \in Group : group[g].state \in Over /\ group[g].exit = 0
  /\ at = "full" \/ (at = "end" /\ status = 0 /\ mode = "push") =>
       \A g \in AllGroups : IF g \in PushGroup
                                THEN group[g].state \in Over /\ group[g].exit = 0
                                ELSE group[g].state = "off"
  /\ at = "end" /\ status = 0 /\ mode # "push" =>
       \A g \in AllGroups : group[g].state \in Over /\ group[g].exit = 0

\* The commands after the sequential prefix, and those that have run so far.
restOf(g) == {Commands[g][i] : i \in (seqEnd(g) + 1)..Len(Commands[g])}
ran(g) == {Commands[g][i] : i \in 1..(group[g].next - 1)}
            \cup IF group[g].next > seqEnd(g) THEN restOf(g) \ group[g].par ELSE {}

\* What a group's record tells: without a failure every command it has got to
\* returned, and a group that is done has got to all of them.
GroupTells(g) ==
  /\ group[g].state = "off" => group[g] = Idle
  /\ group[g].state = "skipped" => group[g].exit = 0
  /\ group[g].state \in {"run", "done"} =>
       /\ group[g].next \in 1..(seqEnd(g) + 1)
       /\ group[g].exit = 0 => \A c \in ran(g) : verdict[c] # "none"
       /\ group[g].state = "done" /\ group[g].exit = 0 =>
            group[g].next = seqEnd(g) + 1 /\ group[g].par = {}

\* A failed command shows in the exit code of its group.
FailTells ==
  \A c \in Command : verdict[c] = "fail" => \E g \in AllGroups : group[g].exit # 0

\* What was left out for want of files has none as long as nobody interferes.
SkipTells ==
  clean =>
    /\ \A c \in Command :
         verdict[c] = "skip" => Filter[c] # "any" /\ filtered(c) = {}
    /\ \A g \in AllGroups : group[g].state = "skipped" => ~matchesFiles(g)

\* What has returned read the selected files as they are, unless somebody interfered.
ReadTells ==
  clean => \A c \in Command : verdict[c] # "none" =>
             \A f \in existingFiles(filtered(c)) : read[c][f] = work[f]

\* What is committed anew from the index is among the files the hook selected.
StagedSelected ==
  mode = "commit" /\ (at \in Formatting \cup Checking \/ (at = "end" /\ status = 0)) =>
    \A f \in File : index[f] \notin {head[f], Absent} => f \in files

\* Every file of a pushed ref is among those a push checks.
NeededSelected ==
  mode = "push" /\ (at \in {"groups", "full"} \/ (at = "end" /\ status = 0)) =>
    needed \subseteq files

\* How far the formatters of a file's language have got.
Reached(f) ==
  LET l == Lang[f] IN
  /\ l = "py" => /\ lane[l] = "1" => work[f].done >= 1
                 /\ lane[l] = "2" => work[f].done >= 2
                 /\ lane[l] = "3" => work[f].done >= 3
                 /\ lane[l] = "ok" => work[f].done >= 4
  /\ l = "go" => /\ lane[l] = "1" => work[f].done >= 1
                 /\ lane[l] = "ok" => work[f].done >= 2

\* A selected file of an undisturbed commit, from its selection to the exit.
FileTells(f) ==
  /\ at \in Formatting => work[f] # Absent
  /\ at \in {"format", "text"} => index[f] = work[f]
  /\ at \in {"text", "lanes", "restage"} =>
       index[f] # Absent /\ snap[f] \in {index[f], Unread}
  /\ at \in {"lanes", "restage"} =>
       Reached(f) /\ (Lang[f] = "other" => work[f] = index[f])
  /\ at \in Checking \/ (at = "end" /\ status = 0) =>
       (snap[f] # Unread => index[f] = work[f] /\ formatted(f, index[f]))

\* ... for all of them that the hook sees.
CommitTells == mode = "commit" /\ clean => \A f \in files \ Unseen : FileTells(f)

\* The inductive invariant.
HookInv ==
  /\ HookTyped /\ LanesRest /\ ModeFits /\ NotChecked /\ WhoRan
  /\ (\A g \in AllGroups : GroupTells(g)) /\ FailTells /\ SkipTells
  /\ ReadTells /\ StagedSelected /\ NeededSelected /\ CommitTells

-----------------------------------------------------------------------------
\* A removed file is told apart from every content, and formatting does not remove.
LEMMA Contents ==
  ASSUME HookTyped
  PROVE  /\ Absent \in Content /\ Absent.done = 0 /\ Unread \notin Content
         /\ \A v \in Nat : Raw(v) \in Content
         /\ \A f \in File, v \in Nat : Neat(f, v) \in Content
         /\ \A c \in Content : c # Absent <=> c.v \in Nat
         /\ \A c \in Content : c.done \in Nat
         /\ \A c \in Content, n \in Nat :
              /\ [c EXCEPT !.done = n].done = n
              /\ c # Absent => /\ [c EXCEPT !.done = n] \in Content
                                   /\ [c EXCEPT !.done = n] # Absent
<1>1. Absent \in Content /\ Absent.done = 0 /\ Absent.v = -1
  BY DEF Content, Absent
<1>2. \A v \in Nat : Raw(v) \in Content
  BY DEF Raw, Content
<1>3. \A f \in File, v \in Nat : Neat(f, v) \in Content
  <2> TAKE f \in File, v \in Nat
  <2>1. Formatters[Lang[f]] \in Nat
    <3>1. Lang[f] \in {"py", "go", "other"}
      BY DEF HookTyped, RegistryIsSound
    <3> QED  BY <3>1 DEF Formatters
  <2> QED  BY <2>1 DEF Neat, Content
<1>4. \A c \in [v : Nat, done : Nat] : c # Absent /\ c.v \in Nat /\ c.done \in Nat
  BY DEF Absent
<1>5. \A c \in [v : Nat, done : Nat], n \in Nat :
        [c EXCEPT !.done = n] \in [v : Nat, done : Nat] /\ [c EXCEPT !.done = n].done = n
  OBVIOUS
<1>6. \A n \in Nat : [Absent EXCEPT !.done = n].done = n
  BY DEF Absent
<1>7. Content = [v : Nat, done : Nat] \cup {Absent} /\ -1 \notin Nat
  BY DEF Content
<1>11. Unread \notin Content
  BY <1>1, <1>7 DEF Unread, Absent
<1> HIDE DEF Content
<1>8. \A c \in Content : c # Absent <=> c.v \in Nat
  BY <1>1, <1>4, <1>7
<1>9. \A c \in Content : c.done \in Nat
  BY <1>1, <1>4, <1>7
<1>10. \A c \in Content, n \in Nat : 
              /\ [c EXCEPT !.done = n].done = n
              /\ c # Absent => /\ [c EXCEPT !.done = n] \in Content
                                   /\ [c EXCEPT !.done = n] # Absent
  BY <1>4, <1>5, <1>6, <1>7
<1> QED  BY <1>1, <1>2, <1>3, <1>8, <1>9, <1>10, <1>11

\* A group that has not been started.
LEMMA IdleRecord ==
  /\ Idle \in Record /\ Idle.state = "off" /\ Idle.exit = 0 /\ Idle.next = 1
  /\ Idle.par = {}
BY DEF Idle, Record

\* Steps that run no command leave what the groups tell.
LEMMA ToldStays ==
  ASSUME \A g \in AllGroups : GroupTells(g), FailTells, UNCHANGED <<group,
                                                                    verdict>>
  PROVE  (\A g \in AllGroups : GroupTells(g))' /\ FailTells'
BY DEF GroupTells, FailTells, ran, restOf, seqEnd

\* ... and, if no selected file comes or goes, what was left out.
LEMMA LeftOutStays ==
  ASSUME SkipTells, HookTyped, UNCHANGED <<group, verdict, files>>, clean' => clean,
         clean' => \A f \in files : work'[f] = Absent <=> work[f] = Absent
  PROVE  SkipTells'
<1> SUFFICES ASSUME clean' PROVE SkipTells'
  BY DEF SkipTells
<1>1. \A c \in Command : filtered(c)' = filtered(c)
  BY DEF filtered, ofLanguage, existingFiles
<1>2. \A g \in AllGroups : matchesFiles(g)' <=> matchesFiles(g)
  <2>1. \A g \in AllGroups : CommandsOf(g) \subseteq Command
    BY DEF Command
  <2> QED  BY <1>1, <2>1 DEF matchesFiles
<1> QED  BY <1>1, <1>2 DEF SkipTells

\* ... and, if no selected file changes, what was read of them.
LEMMA ReadStays ==
  ASSUME ReadTells, HookTyped, UNCHANGED <<verdict, read, files>>, clean' => clean,
         \/ clean' => \A f \in files : work'[f] = work[f]
         \/ \A c \in Command : verdict[c] = "none"
  PROVE  ReadTells'
<1> SUFFICES ASSUME clean', NEW c \in Command, verdict[c] # "none",
                    NEW f \in existingFiles(filtered(c))'
             PROVE  read[c][f] = work'[f]
  BY DEF ReadTells
<1>1. f \in files /\ work'[f] = work[f]
  BY DEF filtered, ofLanguage, existingFiles
<1>2. f \in existingFiles(filtered(c))
  BY <1>1 DEF filtered, ofLanguage, existingFiles
<1> QED  BY <1>1, <1>2 DEF ReadTells

\* Where nothing has been checked there is nothing to tell.
LEMMA UncheckedTells ==
  ASSUME \A g \in AllGroups : group[g] = Idle,
         \A c \in Command : verdict[c] = "none"
  PROVE  (\A g \in AllGroups : GroupTells(g)) /\ FailTells /\ SkipTells /\ ReadTells
BY IdleRecord DEF GroupTells, FailTells, SkipTells, ReadTells

\* Before the first hook nothing is written, checked or read.
LEMMA HookInit == GitInit => HookInv
<1> SUFFICES ASSUME RegistryIsSound, GitInit PROVE HookInv
  BY RegistryAssumption
<1>1. \A f \in File : Neat(f, 0) \in Content
  <2> TAKE f \in File
  <2>1. Formatters[Lang[f]] \in Nat
    <3>1. Lang[f] \in {"py", "go", "other"}
      BY DEF RegistryIsSound
    <3> QED  BY <3>1 DEF Formatters
  <2> QED  BY <2>1 DEF Neat, Content
<1>2. HookTyped
  <2>1. Absent \in Content
    BY DEF Content
  <2> QED  BY <1>1, <2>1, IdleRecord DEF GitInit, HookTyped, Langs, Nothing
<1>3. (\A g \in AllGroups : GroupTells(g)) /\ FailTells /\ SkipTells /\ ReadTells
  BY UncheckedTells DEF GitInit
<1> QED  BY <1>2, <1>3 DEF GitInit, HookInv, LanesRest, ModeFits, NotChecked, WhoRan,
  StagedSelected, NeededSelected, CommitTells, FileTells, Langs, Formatting, Checking

-----------------------------------------------------------------------------
\* The author's edit: either nobody relies on the file, or it counts as interference.
LEMMA EditKeeps ==
  ASSUME HookInv, NEW f \in File, Edit(f)
  PROVE  HookInv'
<1> USE DEF HookInv
<1>1. /\ edits' = edits + 1
      /\ UNCHANGED <<head, index, foreign, other, runs, at, mode, files,
                     status, snap, lane, group, verdict, read, needed>>
      /\ clean' <=> clean /\ (f \notin files \/ at \in {"idle", "select"})
  BY DEF Edit, elsewhere, formatting, checking
<1>2. PICK c \in Content : work' = [work EXCEPT ![f] = c]
  <2>1. edits + 1 \in Nat
    BY DEF HookTyped
  <2>2. {Raw(edits + 1), Neat(f, edits + 1), Absent} \subseteq Content
    BY <2>1, Contents
  <2> QED  BY <2>2 DEF Edit
<1>3. HookTyped'
  <2>1. clean' \in BOOLEAN
    BY DEF Edit
  <2> QED  BY <1>1, <1>2, <2>1 DEF HookTyped, RegistryIsSound
<1>4. /\ LanesRest' /\ ModeFits' /\ NotChecked' /\ WhoRan'
      /\ StagedSelected' /\ NeededSelected'
  BY <1>1 DEF LanesRest, ModeFits, NotChecked, WhoRan,
    StagedSelected, NeededSelected, Groups
<1>5. (\A g \in AllGroups : GroupTells(g))' /\ FailTells'
  BY <1>1, ToldStays
<1>6. SkipTells' /\ ReadTells'
  <2>1. CASE at \in {"idle", "select"}
    BY <1>1, <2>1, UncheckedTells, IdleRecord DEF NotChecked, SkipTells, ReadTells
  <2>2. CASE at \notin {"idle", "select"}
    <3>1. clean' => clean /\ \A g \in files : work'[g] = work[g]
      BY <1>1, <1>2, <2>2 DEF HookTyped
    <3> QED  BY <1>1, <3>1, LeftOutStays, ReadStays
  <2> QED  BY <2>1, <2>2
<1>7. CommitTells'
  <2> SUFFICES ASSUME mode = "commit", clean', NEW g \in files \ Unseen PROVE FileTells(g)'
    BY <1>1 DEF CommitTells
  <2>1. clean /\ FileTells(g)
    BY <1>1 DEF CommitTells
  <2>2. CASE at \in {"idle", "select"}
    BY <1>1, <2>2 DEF FileTells, Formatting, Checking
  <2>3. CASE at \notin {"idle", "select"}
    <3>1. work'[g] = work[g]
      BY <1>1, <1>2, <2>3 DEF HookTyped
    <3> QED  BY <1>1, <2>1, <3>1 DEF FileTells, Reached, formatted
  <2> QED  BY <2>2, <2>3
<1> QED  BY <1>3, <1>4, <1>5, <1>6, <1>7

\* Staging is the author's only between hooks.
LEMMA AddKeeps ==
  ASSUME HookInv, NEW f \in File, Add(f)
  PROVE  HookInv'
<1> USE DEF HookInv
<1>1. /\ at = "idle" /\ index' = [index EXCEPT ![f] = work[f]]
      /\ UNCHANGED <<head, work, foreign, other, edits, at, mode, files,
                     status, snap, lane, group, verdict, read, needed, clean>>
  BY DEF Add, elsewhere, bounds, formatting, checking
<1>2. HookTyped'
  BY <1>1 DEF HookTyped, RegistryIsSound
<1>3. (\A g \in AllGroups : GroupTells(g))' /\ FailTells' /\ SkipTells' /\ ReadTells'
  BY <1>1, ToldStays, LeftOutStays, ReadStays
<1> QED  BY <1>1, <1>2, <1>3 DEF LanesRest, ModeFits, NotChecked, WhoRan,
  StagedSelected, NeededSelected, Groups, CommitTells, FileTells, Formatting, Checking

\* git starts a hook.
LEMMA StartKeeps ==
  ASSUME HookInv, NEW m \in {"commit", "all", "push"}, Start(m)
  PROVE  HookInv'
<1> USE DEF HookInv
<1>1. /\ at = "idle" /\ mode' = m
      /\ \/ at' = "select" /\ status' = 0
         \/ at' = "end" /\ status' = 1
      /\ \/ UNCHANGED <<foreign, other>>
         \/ foreign' = TRUE /\ other' \in OtherIndexes
      /\ UNCHANGED <<head, index, work, edits, files, snap, lane, group,
                     verdict, read, needed, clean>>
  BY DEF Start, elsewhere, formatting, checking
<1>2. HookTyped'
  <2>1. \A t \in [File -> Content], S \in SUBSET File : taking(t, S) \in [File -> Content]
    BY DEF HookTyped, taking
  <2>2. OtherIndexes \subseteq [tree : [File -> Content], index : [File -> Content]]
    <3>1. head \in [File -> Content] /\ index \in [File -> Content]
      BY DEF HookTyped
    <3>2. PICK T \in SUBSET File : T = {f \in File : index[f] # Absent}
      OBVIOUS
    <3>3. \A f \in T : {f} \in SUBSET File
      BY <3>2
    <3>4. OtherIndexes = {[tree |-> taking(index, T), index |-> taking(index, T)]} \cup
                         {[tree |-> taking(head, {f}), index |-> taking(index, {f})] : f \in T}
      BY <3>2 DEF OtherIndexes
    <3>5. /\ taking(index, T) \in [File -> Content]
          /\ \A f \in T : /\ taking(head, {f}) \in [File -> Content]
                          /\ taking(index, {f}) \in [File -> Content]
      BY <2>1, <3>1, <3>3
    <3> DEFINE Trees == [File -> Content]
    <3>6. \A x \in Trees, y \in Trees :
            [tree |-> x, index |-> y] \in [tree : Trees, index : Trees]
      OBVIOUS
    <3>7. /\ [tree |-> taking(index, T), index |-> taking(index, T)]
                \in [tree : Trees, index : Trees]
          /\ \A f \in T : [tree |-> taking(head, {f}), index |-> taking(index, {f})]
                           \in [tree : Trees, index : Trees]
      <4>1. /\ taking(index, T) \in Trees
            /\ \A f \in T : taking(head, {f}) \in Trees /\ taking(index, {f}) \in Trees
        BY <3>5
      <4> HIDE DEF Trees
      <4> QED  BY <3>6, <4>1
    <3> HIDE DEF Trees
    <3>8. OtherIndexes \subseteq [tree : Trees, index : Trees]
      BY <3>4, <3>7
    <3> QED  BY <3>8 DEF Trees
  <2> QED  BY <1>1, <2>2 DEF HookTyped, RegistryIsSound
<1>3. (\A g \in AllGroups : GroupTells(g))' /\ FailTells' /\ SkipTells' /\ ReadTells'
  BY <1>1, ToldStays, LeftOutStays, ReadStays
<1> QED  BY <1>1, <1>2, <1>3 DEF LanesRest, ModeFits, NotChecked, WhoRan,
  StagedSelected, NeededSelected, Groups, CommitTells, FileTells, Formatting, Checking

\* What a hook process kept is gone when git goes on.
LEMMA FinishKeeps ==
  ASSUME HookInv, Finish
  PROVE  HookInv'
<1> USE DEF HookInv
<1>1. /\ at' = "idle" /\ mode' = "none" /\ status' = 0 /\ files' = {} /\ needed' = {}
      /\ clean' = TRUE /\ snap' = head' /\ foreign' = FALSE
      /\ other' = [tree |-> head', index |-> head']
      /\ head' \in [File -> Content] /\ index' \in [File -> Content]
      /\ lane' = [l \in Langs |-> "off"]
      /\ group' = [g \in AllGroups |-> Idle]
      /\ verdict' = [c \in Command |-> "none"]
      /\ read' = [c \in Command |-> Nothing]
      /\ UNCHANGED <<work, edits>>
  BY DEF Finish, Forgotten, committed, bounds, HookTyped, Langs
<1>2. HookTyped'
  <2>1. Nothing \in [File -> Content]
    BY DEF Nothing, Content
  <2> QED  BY <1>1, <2>1, IdleRecord DEF HookTyped, RegistryIsSound
<1>3. (\A g \in AllGroups : GroupTells(g))' /\ FailTells' /\ SkipTells' /\ ReadTells'
  <2>1. /\ (\A g \in AllGroups : group[g] = Idle)'
        /\ (\A c \in Command : verdict[c] = "none")'
    BY <1>1
  <2> QED  BY <1>1, <2>1, IdleRecord DEF GroupTells, FailTells, SkipTells, ReadTells
<1> QED  BY <1>1, <1>2, <1>3 DEF LanesRest, ModeFits, NotChecked, WhoRan,
  StagedSelected, NeededSelected, Groups, CommitTells, FileTells, Formatting, Checking

\* An interrupted hook claims nothing.
LEMMA InterruptKeeps ==
  ASSUME HookInv, Interrupt
  PROVE  HookInv'
<1> USE DEF HookInv
<1>1. /\ at' = "end" /\ status' = 1
      /\ UNCHANGED <<head, index, work, foreign, other, edits, mode, files,
                     snap, lane, group, verdict, read, needed, clean>>
  BY DEF Interrupt, repo, elsewhere, bounds, formatting, checking
<1>2. HookTyped'
  BY <1>1 DEF HookTyped, RegistryIsSound
<1>3. (\A g \in AllGroups : GroupTells(g))' /\ FailTells' /\ SkipTells' /\ ReadTells'
  BY <1>1, ToldStays, LeftOutStays, ReadStays
<1> QED  BY <1>1, <1>2, <1>3 DEF LanesRest, ModeFits, NotChecked, WhoRan,
  StagedSelected, NeededSelected, Groups, CommitTells, FileTells, Formatting, Checking

-----------------------------------------------------------------------------
\* A step that ends the hook with an error, whatever it has written by then.
LEMMA FailKeeps ==
  ASSUME HookInv, HookTyped', at' = "end", status' = 1, UNCHANGED <<group,
                                                                    verdict>>,
         SkipTells', ReadTells'
  PROVE  HookInv'
BY ToldStays DEF HookInv, LanesRest, ModeFits, NotChecked, WhoRan,
  StagedSelected, NeededSelected, CommitTells, FileTells, Formatting, Checking

\* The staged files, of which the undisturbed ones are as in the worktree.
LEMMA SelectKeeps ==
  ASSUME HookInv, hookFilesForPreCommit
  PROVE  HookInv'
<1> USE DEF HookInv
<1>1. /\ at = "select" /\ mode \in {"commit", "all"}
      /\ UNCHANGED <<head, index, work, foreign, other, edits, mode, snap,
                     lane, group, verdict, read, needed>>
  BY DEF hookFilesForPreCommit, repo, elsewhere, bounds, formatting, checking
<1>2. /\ \A g \in AllGroups : group[g] = Idle
      /\ \A c \in Command : verdict[c] = "none"
  BY <1>1 DEF NotChecked
<1>3. (\A g \in AllGroups : GroupTells(g))' /\ FailTells' /\ SkipTells' /\ ReadTells'
  BY <1>1, <1>2, IdleRecord DEF GroupTells, FailTells, SkipTells, ReadTells
<1>4. CASE at' = "end" /\ status' = 1 /\ UNCHANGED <<files, clean>>
  <2>1. HookTyped'
    BY <1>1, <1>4 DEF HookTyped, RegistryIsSound
  <2> QED  BY <1>1, <1>3, <1>4, <2>1, FailKeeps
<1>5. CASE /\ at' = "format" /\ UNCHANGED status
           /\ files' = {f \in File : index[f] # Absent
                                     /\ (mode = "commit" => index[f] # head[f])}
           /\ clean' = \A f \in files' : work[f] = index[f]
  <2>1. HookTyped'
    <3>1. clean' \in BOOLEAN
      BY <1>5
    <3> QED  BY <1>1, <1>5, <3>1 DEF HookTyped, RegistryIsSound, Formatting
  <2>2. CommitTells'
    <3> SUFFICES ASSUME clean', NEW f \in files' PROVE FileTells(f)'
      BY DEF CommitTells
    <3>1. work'[f] = index'[f] /\ work'[f] # Absent
      BY <1>1, <1>5
    <3> QED  BY <1>5, <3>1 DEF FileTells, Checking
  <2>3. StagedSelected'
    BY <1>1, <1>5 DEF StagedSelected
  <2> QED  BY <1>1, <1>3, <1>5, <2>1, <2>2, <2>3 DEF LanesRest, ModeFits, NotChecked,
    WhoRan, NeededSelected, Formatting, Checking
<1> QED  BY <1>4, <1>5 DEF hookFilesForPreCommit, fail

\* The union over the refs holds what every one of them needs.
LEMMA PushedKeeps ==
  ASSUME HookInv, pushedFiles
  PROVE  HookInv'
<1> USE DEF HookInv
<1>1. /\ at = "select" /\ mode = "push"
      /\ UNCHANGED <<head, index, work, foreign, other, edits, mode, snap,
                     lane, group, verdict, read, clean>>
  BY DEF pushedFiles, repo, elsewhere, bounds, formatting, checking
<1>2. /\ \A g \in AllGroups : group[g] = Idle
      /\ \A c \in Command : verdict[c] = "none"
  BY <1>1 DEF NotChecked
<1>3. (\A g \in AllGroups : GroupTells(g))' /\ FailTells' /\ SkipTells' /\ ReadTells'
  BY <1>1, <1>2, IdleRecord DEF GroupTells, FailTells, SkipTells, ReadTells
<1>4. PICK n : \E input \in [1..n -> Update] :
      \E names \in [1..n -> SUBSET File] :
       /\ \A i \in 1..n : names[i] \in diffNames(input[i])
       /\ \A f \in needed' : \E i \in 1..n : input[i].kind # "delete" /\ f \in input[i].changed
       /\ \/ /\ files' = pushedNames(input, names) /\ files' # {}
             /\ at' = "groups" /\ UNCHANGED status
          \/ /\ pushedNames(input, names) = {}
             /\ files' \in Changes \cup {{}}
             /\ at' = "groups" /\ UNCHANGED status
          \/ at' = "end" /\ status' = 1 /\ UNCHANGED files
  BY DEF pushedFiles, fail
<1>5. PICK input \in [1..n -> Update], names \in [1..n -> SUBSET File] :
       /\ \A i \in 1..n : names[i] \in diffNames(input[i])
       /\ \A f \in needed' : \E i \in 1..n : input[i].kind # "delete" /\ f \in input[i].changed
       /\ \/ /\ files' = pushedNames(input, names) /\ files' # {}
             /\ at' = "groups" /\ UNCHANGED status
          \/ /\ pushedNames(input, names) = {}
             /\ files' \in Changes \cup {{}}
             /\ at' = "groups" /\ UNCHANGED status
          \/ at' = "end" /\ status' = 1 /\ UNCHANGED files
  BY <1>4
<1>6. \A i \in 1..n : input[i].changed \subseteq names[i] /\ input[i].changed \subseteq File
  <2> TAKE i \in 1..n
  <2>1. input[i].changed \in SUBSET File
    BY DEF Update, HookTyped, RegistryIsSound
  <2>2. names[i] \in diffNames(input[i])
    BY <1>5
  <2> QED  BY <2>1, <2>2 DEF diffNames
<1>7. /\ needed' \subseteq pushedNames(input, names) /\ needed' \subseteq File
      /\ pushedNames(input, names) \subseteq File
  BY <1>5, <1>6 DEF pushedNames
<1>8. CASE at' = "end" /\ status' = 1 /\ UNCHANGED files
  <2>1. HookTyped'
    BY <1>1, <1>7, <1>8 DEF HookTyped, RegistryIsSound
  <2> QED  BY <1>1, <1>3, <1>8, <2>1, FailKeeps
<1>9. CASE /\ files' \subseteq File /\ needed' \subseteq files'
           /\ at' = "groups" /\ UNCHANGED status
  <2>1. HookTyped'
    BY <1>1, <1>7, <1>9 DEF HookTyped, RegistryIsSound, Checking
  <2> QED  BY <1>1, <1>2, <1>3, <1>9, <2>1, IdleRecord DEF LanesRest, ModeFits, NotChecked,
    WhoRan, StagedSelected, NeededSelected, CommitTells, Formatting, Checking, Langs
<1>10. Changes \subseteq SUBSET File
  BY DEF HookTyped, RegistryIsSound
<1> QED  BY <1>5, <1>7, <1>8, <1>9, <1>10

-----------------------------------------------------------------------------
\* What a formatter leaves behind that was given the files S.
Stepped(S, step, ok) ==
  /\ work' \in [File -> Content]
  /\ \A f \in File \ S : work'[f] = work[f]
  /\ \A f \in File : /\ work'[f] = Absent <=> work[f] = Absent
                     /\ work'[f].done >= work[f].done
  /\ ok => \A f \in S : work'[f].done >= step

\* A formatter changes only files that are there, they stay there, and what was
\* formatted stays formatted; when it succeeds, all of them have got its step.
LEMMA Formatted ==
  ASSUME HookTyped, NEW S \in SUBSET File, \A f \in S : work[f] # Absent,
         NEW step \in Nat, NEW ok \in BOOLEAN, work' \in Worktrees(S, step, ok)
  PROVE  Stepped(S, step, ok)
<1>1. PICK T \in SUBSET S :
        /\ work' = [f \in File |-> IF f \in T /\ work[f].done < step
                                   THEN [work[f] EXCEPT !.done = step] ELSE work[f]]
        /\ ok => T = S
  BY DEF Worktrees
<1>2. ASSUME NEW f \in File
      PROVE  /\ work'[f] \in Content
             /\ f \notin T => work'[f] = work[f]
             /\ work'[f] = Absent <=> work[f] = Absent
             /\ work'[f].done >= work[f].done
             /\ f \in T => work'[f].done >= step
  <2>1. work[f] \in Content /\ work[f].done \in Nat
    BY Contents DEF HookTyped
  <2>2. CASE f \in T /\ work[f].done < step
    <3>1. work'[f] = [work[f] EXCEPT !.done = step] /\ work[f] # Absent
      BY <1>1, <2>2
    <3>2. work'[f] \in Content /\ work'[f] # Absent /\ work'[f].done = step
      BY <2>1, <3>1, Contents
    <3> QED  BY <2>1, <2>2, <3>1, <3>2
  <2>3. CASE ~(f \in T /\ work[f].done < step)
    <3>1. work'[f] = work[f]
      BY <1>1, <2>3
    <3> QED  BY <2>1, <2>3, <3>1
  <2> QED  BY <2>2, <2>3
<1>3. work' = [f \in File |-> work'[f]]
  BY <1>1
<1> QED  BY <1>1, <1>2, <1>3 DEF Stepped

\* The snapshot is the staged content of an undisturbed file; a commit without
\* Python and Go files has nothing to format.
LEMMA FormatGroupKeeps ==
  ASSUME HookInv, runFormatGroup
  PROVE  HookInv'
<1> USE DEF HookInv
<1>1. /\ at = "format"
      /\ snap' \in [File -> Content \cup {Unread}]
      /\ \A f \in File : snap'[f] \in {work[f], Unread}
      /\ at' = IF formatGroupFiles = {} THEN "groups" ELSE "text"
      /\ UNCHANGED <<head, index, work, foreign, other, edits, mode, files,
                     status, lane, group, verdict, read, needed, clean>>
  <2>1. PICK S \in SUBSET formatGroupFiles :
          snap' = [f \in File |-> IF f \in S THEN Unread ELSE work[f]]
    BY DEF runFormatGroup
  <2>2. /\ snap' \in [File -> Content \cup {Unread}]
        /\ \A f \in File : snap'[f] \in {work[f], Unread}
    BY <2>1 DEF HookTyped
  <2> QED  BY <2>2 DEF runFormatGroup, repo, elsewhere, bounds, checking
<1>2. HookTyped'
  BY <1>1 DEF HookTyped, RegistryIsSound, Formatting, Checking
<1>3. (\A g \in AllGroups : GroupTells(g))' /\ FailTells' /\ SkipTells' /\ ReadTells'
  BY <1>1, ToldStays, LeftOutStays, ReadStays
<1>4. CommitTells'
  <2> SUFFICES ASSUME mode = "commit", clean, NEW f \in files \ Unseen PROVE FileTells(f)'
    BY <1>1 DEF CommitTells
  <2>1. work[f] # Absent /\ index[f] = work[f] /\ f \in File
    BY <1>1 DEF CommitTells, FileTells, Formatting, HookTyped
  <2>2. CASE formatGroupFiles = {}
    <3>1. f \in File /\ Lang[f] = "other" /\ work[f].done \in Nat
      BY <2>1, <2>2, Contents DEF HookTyped, RegistryIsSound, formatGroupFiles,
         existingFiles
    <3>2. formatted(f, index[f])
      BY <2>1, <3>1 DEF formatted, Formatters
    <3> QED  BY <1>1, <2>1, <2>2, <3>2 DEF FileTells, formatted, Formatting
  <2>3. CASE formatGroupFiles # {}
    BY <1>1, <2>1, <2>3 DEF FileTells, Checking, HookTyped
  <2> QED  BY <2>2, <2>3
<1> QED  BY <1>1, <1>2, <1>3, <1>4, IdleRecord DEF LanesRest, ModeFits, NotChecked, WhoRan,
  StagedSelected, NeededSelected, Formatting, Checking

\* The first formatter, over all files before the lanes start.
LEMMA FixTextKeeps ==
  ASSUME HookInv, fixText
  PROVE  HookInv'
<1> USE DEF HookInv
<1>1. /\ at = "text"
      /\ UNCHANGED <<head, index, foreign, other, edits, mode, files, snap,
                     group, verdict, read, needed, clean>>
  BY DEF fixText, elsewhere, bounds, checking
<1>2. PICK ok \in BOOLEAN :
        /\ work' \in Worktrees(selected, 1, ok)
        /\ IF ok THEN /\ at' = "lanes" /\ lane' = [l \in Langs |-> "1"] /\ UNCHANGED status
                 ELSE at' = "end" /\ status' = 1 /\ UNCHANGED lane
  BY DEF fixText, fail, Langs
<1>3. selected \in SUBSET File /\ \A f \in selected : work[f] # Absent
  BY DEF HookTyped, selected, formatGroupFiles, existingFiles
<1>4. /\ work' \in [File -> Content]
      /\ \A f \in File \ selected : work'[f] = work[f]
      /\ \A f \in File : work'[f] = Absent <=> work[f] = Absent
      /\ ok => \A f \in selected : work'[f].done >= 1
  <2>1. HookTyped
    OBVIOUS
  <2> HIDE DEF HookInv
  <2>2. Stepped(selected, 1, ok)
    BY <1>2, <1>3, <2>1, Formatted
  <2> QED  BY <2>2 DEF Stepped
<1>5. HookTyped'
  BY <1>1, <1>2, <1>4 DEF HookTyped, RegistryIsSound, Formatting
<1>6. (\A g \in AllGroups : GroupTells(g))' /\ FailTells' /\ SkipTells' /\ ReadTells'
  <2>1. \A c \in Command : verdict[c] = "none"
    BY <1>1 DEF NotChecked, Formatting
  <2> QED  BY <1>1, <1>4, <2>1, ToldStays, LeftOutStays, ReadStays DEF HookTyped
<1>7. CASE ~ok
  BY <1>1, <1>2, <1>5, <1>6, <1>7, FailKeeps
<1>8. CASE ok
  <2>1. CommitTells'
    <3> SUFFICES ASSUME mode = "commit", clean, NEW f \in files \ Unseen PROVE FileTells(f)'
      BY <1>1 DEF CommitTells
    <3>1. /\ f \in File /\ work[f] # Absent /\ index[f] # Absent /\ index[f] = work[f]
          /\ snap[f] \in {index[f], Unread}
      BY <1>1 DEF CommitTells, FileTells, Formatting, HookTyped
    <3>2. Lang[f] # "other" => f \in selected
      BY <3>1 DEF selected, formatGroupFiles, existingFiles, Unread, Absent
    <3>3. Lang[f] = "other" => f \notin selected
      BY DEF selected, formatGroupFiles
    <3>4. Reached(f)'
      BY <1>2, <1>4, <1>8, <3>2 DEF Reached, Langs
    <3> QED  BY <1>1, <1>2, <1>4, <1>8, <3>1, <3>3, <3>4 DEF FileTells, Checking
  <2> QED  BY <1>1, <1>2, <1>5, <1>6, <1>8, <2>1 DEF LanesRest, ModeFits, NotChecked, WhoRan,
    StagedSelected, NeededSelected, Formatting, Checking
<1> QED  BY <1>7, <1>8

\* A step of a lane writes the files of its own language only.
LEMMA FormatterKeeps ==
  ASSUME HookInv, NEW l, NEW place, NEW step, NEW next,
         runFormatter(l, place, step, next),
         \/ l = "py" /\ place = "1" /\ step = 2 /\ next = "2"
         \/ l = "py" /\ place = "2" /\ step = 3 /\ next = "3"
         \/ l = "py" /\ place = "3" /\ step = 4 /\ next = "ok"
         \/ l = "go" /\ place = "1" /\ step = 2 /\ next = "ok"
  PROVE  HookInv'
<1> USE DEF HookInv
<1>1. /\ lane[l] = place
      /\ UNCHANGED <<head, index, foreign, other, edits, at, mode, files,
                     status, snap, group, verdict, read, needed, clean>>
  BY DEF runFormatter, elsewhere, bounds, checking
<1>2. l \in Langs /\ step \in Nat
  BY DEF Langs
<1>3. at = "lanes"
  BY <1>1, <1>2 DEF runFormatter, LanesRest, HookTyped, Formatting, Checking
<1> DEFINE S == ofLanguage(selected, l)
<1>4. /\ S \in SUBSET File /\ \A f \in S : work[f] # Absent
      /\ \A f \in S : Lang[f] = l
  BY DEF HookTyped, selected, formatGroupFiles, existingFiles, ofLanguage
<1>5. \/ S = {} /\ lane' = [lane EXCEPT ![l] = next] /\ UNCHANGED work
      \/ \E ok \in BOOLEAN :
           /\ work' \in Worktrees(S, step, ok)
           /\ lane' = [lane EXCEPT ![l] = IF ok THEN next ELSE "failed"]
  BY DEF runFormatter
<1> HIDE DEF S
<1>6. /\ work' \in [File -> Content]
      /\ \A f \in File \ S : work'[f] = work[f]
      /\ \A f \in File : /\ work'[f] = Absent <=> work[f] = Absent
                         /\ work'[f].done >= work[f].done
      /\ \/ /\ lane' = [lane EXCEPT ![l] = next]
            /\ \A f \in S : work'[f].done >= step
         \/ lane' = [lane EXCEPT ![l] = "failed"]
  <2>1. CASE S = {} /\ lane' = [lane EXCEPT ![l] = next] /\ UNCHANGED work
    <3>1. \A f \in File : work[f].done \in Nat
      BY Contents DEF HookTyped
    <3> QED  BY <2>1, <3>1 DEF HookTyped
  <2>2. ASSUME NEW ok \in BOOLEAN, work' \in Worktrees(S, step, ok),
               lane' = [lane EXCEPT ![l] = IF ok THEN next ELSE "failed"]
        PROVE  <1>6
    <3>1. HookTyped
      OBVIOUS
    <3> HIDE DEF HookInv
    <3>2. Stepped(S, step, ok)
      BY <1>2, <1>4, <2>2, <3>1, Formatted
    <3> QED  BY <2>2, <3>2 DEF Stepped
  <2> QED  BY <1>5, <2>1, <2>2
<1>7. HookTyped'
  <2>1. lane' \in [Langs -> {"off", "1", "2", "3", "ok", "failed"}]
    BY <1>2, <1>6 DEF HookTyped
  <2>2. work' \in [File -> Content]
    BY <1>6
  <2> QED  BY <1>1, <2>1, <2>2 DEF HookTyped, RegistryIsSound
<1>8. (\A g \in AllGroups : GroupTells(g))' /\ FailTells' /\ SkipTells' /\ ReadTells'
  <2>1. \A c \in Command : verdict[c] = "none"
    BY <1>3 DEF NotChecked, Formatting
  <2> QED  BY <1>1, <1>6, <2>1, ToldStays, LeftOutStays, ReadStays DEF HookTyped
<1>9. CommitTells'
  <2> SUFFICES ASSUME mode = "commit", clean, NEW f \in files \ Unseen PROVE FileTells(f)'
    BY <1>1 DEF CommitTells
  <2>1. /\ f \in File /\ work[f] # Absent /\ index[f] # Absent
        /\ snap[f] \in {index[f], Unread}
        /\ Reached(f) /\ (Lang[f] = "other" => work[f] = index[f])
    BY <1>3 DEF CommitTells, FileTells, Formatting, HookTyped
  <2>2. Lang[f] = l => f \in S
    BY <1>2, <2>1 DEF S, selected, formatGroupFiles, existingFiles,
         ofLanguage, Langs, Unread, Absent
  <2>3. f \in S => Lang[f] = l
    BY <1>4
  <2>4. work[f].done \in Nat /\ work'[f].done \in Nat
    BY <1>6, <2>1, Contents DEF HookTyped
  <2>5. Reached(f)'
    <3>1. CASE Lang[f] # l
      <4>1. work'[f] = work[f]
        BY <1>6, <2>1, <2>3, <3>1
      <4>2. Lang[f] \in Langs => lane'[Lang[f]] = lane[Lang[f]]
        BY <1>2, <1>6, <3>1 DEF HookTyped
      <4> QED  BY <2>1, <4>1, <4>2 DEF Reached, Langs
    <3>2. CASE Lang[f] = l
      <4>1. /\ lane'[l] = next /\ work'[f].done >= step
            \/ lane'[l] = "failed"
        BY <1>2, <1>6, <2>2, <3>2 DEF HookTyped
      <4> QED  BY <2>4, <3>2, <4>1 DEF Reached
    <3> QED  BY <3>1, <3>2
  <2>6. Lang[f] = "other" => work'[f] = index[f]
    BY <1>2, <1>6, <2>1, <2>3 DEF Langs
  <2> QED  BY <1>1, <1>3, <1>6, <2>1, <2>5, <2>6 DEF FileTells, Checking
<1> QED  BY <1>1, <1>3, <1>7, <1>8, <1>9 DEF LanesRest, ModeFits, NotChecked, WhoRan,
  StagedSelected, NeededSelected, Formatting, Checking

\* The hook goes on when both lanes are done.
LEMMA FormatWaitKeeps ==
  ASSUME HookInv, formatWait
  PROVE  HookInv'
<1> USE DEF HookInv
<1>1. /\ at = "lanes"
      /\ UNCHANGED <<head, index, work, foreign, other, edits, mode, files,
                     snap, lane, group, verdict, read, needed, clean>>
      /\ \/ at' = "end" /\ status' = 1
         \/ /\ at' = "restage" /\ UNCHANGED status
            /\ \A l \in Langs : lane[l] = "ok"
  BY DEF formatWait, fail, repo, elsewhere, bounds, formatting, checking, Langs
<1>2. HookTyped'
  BY <1>1 DEF HookTyped, RegistryIsSound, Formatting
<1>3. (\A g \in AllGroups : GroupTells(g))' /\ FailTells' /\ SkipTells' /\ ReadTells'
  BY <1>1, ToldStays, LeftOutStays, ReadStays
<1>4. CASE at' = "end" /\ status' = 1
  BY <1>1, <1>2, <1>3, <1>4, FailKeeps
<1>5. CASE at' = "restage" /\ UNCHANGED status /\ \A l \in Langs : lane[l] = "ok"
  <2>1. CommitTells'
    BY <1>1, <1>5 DEF CommitTells, FileTells, Reached, Formatting, Checking
  <2> QED  BY <1>1, <1>2, <1>3, <1>5, <2>1 DEF LanesRest, ModeFits, NotChecked, WhoRan,
    StagedSelected, NeededSelected, Formatting, Checking
<1> QED  BY <1>1, <1>4, <1>5

\* Staging what changed makes the index equal to the formatted worktree.
LEMMA RestageKeeps ==
  ASSUME HookInv, restageFiles
  PROVE  HookInv'
<1> USE DEF HookInv
<1>1. PICK S \in SUBSET changedExistingFiles, changed \in SUBSET changedExistingFiles :
        /\ mode = "commit" => changed = changedExistingFiles \ S
        /\ snap' = [f \in File |-> IF f \in S THEN Unread ELSE snap[f]]
        /\ \/ at' = "end" /\ status' = 1 /\ UNCHANGED index
           \/ /\ at' = "groups" /\ UNCHANGED status
              /\ index' = [f \in File |-> IF f \in changed THEN work[f] ELSE index[f]]
  <2>1. PICK S \in IF mode = "commit" THEN SUBSET changedExistingFiles ELSE {{}} :
          LET changed == IF mode = "commit" THEN changedExistingFiles \ S ELSE {} IN
          /\ snap' = [f \in File |-> IF f \in S THEN Unread ELSE snap[f]]
          /\ \/ at' = "end" /\ status' = 1 /\ UNCHANGED index
             \/ /\ at' = "groups" /\ UNCHANGED status
                /\ index' = [f \in File |-> IF f \in changed THEN work[f] ELSE index[f]]
    BY DEF restageFiles, fail
  <2> DEFINE changed == IF mode = "commit" THEN changedExistingFiles \ S ELSE {}
  <2>2. S \in SUBSET changedExistingFiles /\ changed \in SUBSET changedExistingFiles
    BY <2>1
  <2>3. mode = "commit" => changed = changedExistingFiles \ S
    OBVIOUS
  <2> HIDE DEF changed
  <2> QED  BY <2>1, <2>2, <2>3 DEF changed
<1>2. /\ at = "restage"
      /\ UNCHANGED <<head, work, foreign, other, edits, mode, files, lane,
                     group, verdict, read, needed, clean>>
  BY DEF restageFiles, elsewhere, bounds, checking
<1>3. (\A g \in AllGroups : GroupTells(g))' /\ FailTells' /\ SkipTells' /\ ReadTells'
  BY <1>2, ToldStays, LeftOutStays, ReadStays
<1>4. /\ snap' \in [File -> Content \cup {Unread}]
      /\ \A f \in File : snap'[f] = IF f \in S THEN Unread ELSE snap[f]
      /\ changed \subseteq files
  BY <1>1 DEF HookTyped, changedExistingFiles, selected, formatGroupFiles, existingFiles
<1>5. CASE at' = "end" /\ status' = 1 /\ UNCHANGED index
  <2>1. HookTyped'
    BY <1>2, <1>4, <1>5 DEF HookTyped, RegistryIsSound
  <2> QED  BY <1>2, <1>3, <1>5, <2>1, FailKeeps
<1>6. CASE /\ at' = "groups" /\ UNCHANGED status
           /\ index' = [f \in File |-> IF f \in changed THEN work[f] ELSE index[f]]
  <2>1. HookTyped'
    BY <1>2, <1>4, <1>6 DEF HookTyped, RegistryIsSound, Checking
  <2>2. CommitTells'
    <3> SUFFICES ASSUME mode = "commit", clean, NEW f \in files \ Unseen, snap'[f] # Unread
                 PROVE  index'[f] = work[f] /\ formatted(f, work[f])
      BY <1>2, <1>6 DEF CommitTells, FileTells, Formatting, formatted
    <3>1. /\ f \in File /\ work[f] # Absent /\ index[f] # Absent
          /\ snap[f] \in {index[f], Unread}
          /\ Reached(f) /\ (Lang[f] = "other" => work[f] = index[f])
      BY <1>2 DEF CommitTells, FileTells, Formatting, HookTyped
    <3>2. snap[f] = index[f] /\ f \notin S /\ snap[f] # Unread
      BY <1>4, <3>1
    <3>3. Lang[f] # "other" => f \in selected
      BY <3>1, <3>2 DEF selected, formatGroupFiles, existingFiles
    <3>4. index'[f] = work[f]
      <4>1. CASE f \in changed
        BY <1>6, <3>1, <4>1
      <4>2. CASE f \notin changed
        <5>1. f \notin changedExistingFiles
          BY <1>1, <3>2, <4>2
        <5>2. Lang[f] # "other" => work[f] = snap[f]
          BY <1>4, <3>2, <3>3, <5>1 DEF changedExistingFiles
        <5> QED  BY <1>6, <3>1, <3>2, <4>2, <5>2
      <4> QED  BY <4>1, <4>2
    <3>5. formatted(f, work[f])
      <4>1. Lang[f] \in {"py", "go", "other"} /\ work[f].done \in Nat
        BY <3>1, Contents DEF HookTyped, RegistryIsSound
      <4>2. Lang[f] \in Langs => lane[Lang[f]] = "ok"
        BY <1>2 DEF LanesRest
      <4> QED  BY <3>1, <4>1, <4>2 DEF formatted, Formatters, Reached, Langs
    <3> QED  BY <3>4, <3>5
  <2>3. StagedSelected'
    <3>1. \A f \in File : index'[f] = index[f] \/ f \in files
      BY <1>4, <1>6
    <3> QED  BY <1>2, <3>1 DEF StagedSelected, Formatting
  <2> QED  BY <1>2, <1>3, <1>6, <2>1, <2>2, <2>3, IdleRecord DEF LanesRest, ModeFits,
    NotChecked, WhoRan, NeededSelected, Formatting, Checking
<1> QED  BY <1>1, <1>5, <1>6

-----------------------------------------------------------------------------
\* The commands of a group are its sequential prefix and the rest.
LEMMA SeqEnds ==
  ASSUME HookTyped, NEW g \in AllGroups
  PROVE  /\ Len(Commands[g]) \in Nat /\ seqEnd(g) \in 0..Len(Commands[g])
         /\ \A i \in 1..Len(Commands[g]) : Commands[g][i] \in Command
         /\ CommandsOf(g) = {Commands[g][i] : i \in 1..Len(Commands[g])}
         /\ ToSet(SubSeq(Commands[g], seqEnd(g) + 1, Len(Commands[g]))) = restOf(g)
         /\ restOf(g) \subseteq Command
<1>1. Commands[g] \in Seq(Command) /\ ParallelAfter[g] \in 0..Len(Commands[g])
  BY DEF HookTyped, RegistryIsSound
<1>2. Len(Commands[g]) \in Nat /\ seqEnd(g) \in 0..Len(Commands[g])
  BY <1>1 DEF seqEnd
<1>3. \A i \in 1..Len(Commands[g]) : Commands[g][i] \in Command
  BY <1>1
<1>4. CommandsOf(g) = {Commands[g][i] : i \in 1..Len(Commands[g])}
  BY <1>1 DEF CommandsOf, ToSet
<1>5. ToSet(SubSeq(Commands[g], seqEnd(g) + 1, Len(Commands[g]))) = restOf(g)
  <2> DEFINE s == Commands[g]
             n == seqEnd(g)
             t == SubSeq(s, n + 1, Len(s))
  <2>1. n \in 0..Len(s) /\ s \in Seq(Command)
    BY <1>1, <1>2
  <2> HIDE DEF n, s
  <2>2. Len(t) = Len(s) - n /\ \A i \in 1..Len(t) : t[i] = s[i + n]
    BY <2>1
  <2>3. DOMAIN t = 1..Len(t)
    BY <2>1
  <2> HIDE DEF t
  <2>4. {t[i] : i \in DOMAIN t} = {s[i] : i \in (n + 1)..Len(s)}
    <3>1. ASSUME NEW i \in 1..Len(t) PROVE i + n \in (n + 1)..Len(s) /\ t[i] = s[i + n]
      BY <2>1, <2>2, <3>1
    <3>2. ASSUME NEW i \in (n + 1)..Len(s) PROVE i - n \in 1..Len(t) /\ t[i - n] = s[i]
      <4>1. i - n \in 1..Len(t) /\ (i - n) + n = i
        BY <2>1, <2>2, <3>2
      <4> QED  BY <2>2, <4>1
    <3> QED  BY <2>3, <3>1, <3>2
  <2> QED  BY <2>4 DEF ToSet, t, s, n, restOf
<1>6. restOf(g) \subseteq Command
  BY <1>2, <1>3 DEF restOf
<1> QED  BY <1>2, <1>3, <1>4, <1>5, <1>6

\* Groups start, or are skipped for want of files.
LEMMA NamedGroupsKeep ==
  ASSUME HookInv, runNamedHookGroups
  PROVE  HookInv'
<1> USE DEF HookInv
<1>1. /\ at \in {"groups", "ai"} /\ \A g \in Groups : group[g].state = "off"
      /\ UNCHANGED <<head, index, work, foreign, other, edits, at, mode, files,
                     status, snap, lane, verdict, read, needed, clean>>
      /\ group' = [g \in AllGroups |->
                     IF g \notin Groups THEN group[g]
                     ELSE [group[g] EXCEPT !.state =
                             IF matchesFiles(g) THEN "run" ELSE "skipped"]]
  BY DEF runNamedHookGroups, repo, elsewhere, bounds, formatting
<1>2. ASSUME NEW g \in AllGroups
      PROVE  /\ group'[g] \in Record
             /\ g \notin Groups => group'[g] = group[g]
             /\ g \in Groups =>
                  /\ group[g].state = "off"
                  /\ group'[g].state = IF matchesFiles(g) THEN "run" ELSE "skipped"
             /\ group'[g].exit = group[g].exit
             /\ group'[g].next = group[g].next /\ group'[g].par = group[g].par
  BY <1>1 DEF HookTyped, Record
<1>3. HookTyped'
  BY <1>1, <1>2 DEF HookTyped, RegistryIsSound
<1>4. (\A g \in AllGroups : GroupTells(g))'
  <2> SUFFICES ASSUME NEW g \in AllGroups PROVE GroupTells(g)'
    OBVIOUS
  <2>1. GroupTells(g)
    OBVIOUS
  <2>2. CASE g \notin Groups
    BY <1>1, <1>2, <2>1, <2>2 DEF GroupTells, ran, restOf, seqEnd
  <2>3. CASE g \in Groups
    <3>1. group'[g].exit = 0 /\ group'[g].next = 1 /\ group'[g].par = {}
      BY <1>2, <2>1, <2>3, IdleRecord DEF GroupTells
    <3>2. group'[g].state \in {"run", "skipped"}
      BY <1>2, <2>3
    <3>3. CASE seqEnd(g) > 0
      <4>1. ran(g)' = {}
        BY <3>1, <3>3, SeqEnds DEF ran, seqEnd
      <4> QED  BY <3>1, <3>2, <3>3, <4>1, SeqEnds DEF GroupTells, seqEnd
    <3>4. CASE seqEnd(g) = 0
      <4>1. Len(Commands[g]) = 0
        BY <3>4, SeqEnds DEF seqEnd, HookTyped, RegistryIsSound
      <4>2. ran(g)' = {}
        BY <3>1, <3>4, <4>1 DEF ran, seqEnd, restOf
      <4> QED  BY <3>1, <3>2, <3>4, <4>2, SeqEnds DEF GroupTells, seqEnd
    <3> QED  BY <3>3, <3>4, SeqEnds
  <2> QED  BY <2>2, <2>3
<1>5. FailTells'
  BY <1>1, <1>2 DEF FailTells
<1>6. SkipTells'
  <2>1. \A c \in Command : filtered(c)' = filtered(c)
    BY <1>1 DEF filtered, ofLanguage, existingFiles
  <2>2. \A g \in AllGroups : matchesFiles(g)' <=> matchesFiles(g)
    <3>1. \A g \in AllGroups : CommandsOf(g) \subseteq Command
      BY DEF Command
    <3> QED  BY <2>1, <3>1 DEF matchesFiles
  <2> QED  BY <1>1, <1>2, <2>1, <2>2 DEF SkipTells
<1>7. Groups' = Groups
  BY <1>1 DEF Groups
<1>8. WhoRan'
  <2>1. CASE at = "groups"
    BY <1>1, <1>2, <1>7, <2>1 DEF WhoRan
  <2>2. CASE at = "ai"
    <3>1. \A g \in Group : g \notin Groups
      BY <2>2 DEF Groups, ModeFits, HookTyped, RegistryIsSound
    <3> QED  BY <1>1, <1>2, <2>2, <3>1 DEF WhoRan, AllGroups
  <2> QED  BY <1>1, <2>1, <2>2
<1>9. CommitTells' /\ ReadTells'
  BY <1>1, ReadStays DEF CommitTells, FileTells, Formatting, Checking, formatted
<1> QED  BY <1>1, <1>3, <1>4, <1>5, <1>6, <1>8, <1>9 DEF LanesRest, ModeFits, NotChecked,
  StagedSelected, NeededSelected, Formatting, Checking

\* What a command that returns leaves behind.
LEMMA Returned ==
  ASSUME HookTyped, NEW g, NEW c \in Command, NEW code \in {0, 1},
         runCommand(g, c, code)
  PROVE  /\ DOMAIN verdict' = Command
         /\ verdict'[c] \in {"pass", "fail", "skip"}
         /\ verdict'[c] = "fail" <=> code = 1
         /\ verdict'[c] = "skip" => Filter[c] # "any" /\ filtered(c) = {}
         /\ \A d \in Command \ {c} : verdict'[d] = verdict[d]
         /\ verdict' \in [Command -> {"none", "pass", "fail", "skip"}]
         /\ read' \in [Command -> [File -> Content]]
         /\ \A f \in existingFiles(filtered(c)) : read'[c][f] = work[f]
         /\ \A d \in Command \ {c} : read'[d] = read[d]
         /\ UNCHANGED <<head, index, work, foreign, other, edits, at, mode,
                        files, status, snap, lane, needed, clean>>
<1>1. /\ read' = [read EXCEPT ![c] = [f \in File |->
                     IF f \in existingFiles(filtered(c)) THEN work[f] ELSE Absent]]
      /\ existingFiles(filtered(c)) \subseteq File
  BY DEF runCommand, HookTyped, existingFiles, filtered, ofLanguage
<1>2. /\ read' \in [Command -> [File -> Content]]
      /\ \A f \in existingFiles(filtered(c)) : read'[c][f] = work[f]
      /\ \A d \in Command \ {c} : read'[d] = read[d]
  BY <1>1, Contents DEF HookTyped
<1> QED  BY <1>2 DEF runCommand, HookTyped, repo, elsewhere, bounds, formatting

\* A command of a group returns: r is the group's new record.
LEMMA CommandKeeps ==
  ASSUME HookInv, NEW g \in AllGroups, NEW c \in Command, NEW code \in {0, 1},
         runCommand(g, c, code), group[g].state = "run",
         NEW r \in Record, group' = [group EXCEPT ![g] = r], r.state \in {"run", "done"},
         r.exit = firstNonZeroExit(group[g].exit, code),
         GroupTells(g)'
  PROVE  HookInv'
<1> USE DEF HookInv
<1>1. /\ verdict'[c] \in {"pass", "fail", "skip"}
      /\ verdict'[c] = "fail" <=> code = 1
      /\ verdict'[c] = "skip" => Filter[c] # "any" /\ filtered(c) = {}
      /\ \A d \in Command \ {c} : verdict'[d] = verdict[d]
      /\ verdict' \in [Command -> {"none", "pass", "fail", "skip"}]
      /\ read' \in [Command -> [File -> Content]]
      /\ \A f \in existingFiles(filtered(c)) : read'[c][f] = work[f]
      /\ \A d \in Command \ {c} : read'[d] = read[d]
      /\ UNCHANGED <<head, index, work, foreign, other, edits, at, mode, files,
                     status, snap, lane, needed, clean>>
  BY Returned
<1>2. group'[g] = r /\ \A h \in AllGroups \ {g} : group'[h] = group[h]
  BY DEF HookTyped
<1>3. HookTyped'
  BY <1>1, <1>2 DEF HookTyped, RegistryIsSound
<1>4. at \in Checking \cup {"end"} /\ ~(at = "end" /\ status = 0)
  BY IdleRecord DEF NotChecked, WhoRan, HookTyped, Over
<1>5. (\A h \in AllGroups : GroupTells(h))'
  <2> SUFFICES ASSUME NEW h \in AllGroups, h # g PROVE GroupTells(h)'
    OBVIOUS
  <2>1. GroupTells(h) /\ group'[h] = group[h]
    BY <1>2
  <2>2. \A d \in Command : verdict[d] # "none" => verdict'[d] # "none"
    BY <1>1
  <2>3. group[h].state \in {"run", "done"} => ran(h) \subseteq Command
    BY <2>1, SeqEnds DEF ran, GroupTells
  <2> QED  BY <2>1, <2>2, <2>3 DEF GroupTells, ran, restOf, seqEnd
<1>6. FailTells'
  <2> SUFFICES ASSUME NEW d \in Command, verdict'[d] = "fail"
               PROVE  \E h \in AllGroups : group'[h].exit # 0
    BY DEF FailTells
  <2>1. CASE d = c
    <3>1. r.exit # 0
      BY <1>1, <2>1 DEF firstNonZeroExit
    <3> QED  BY <1>2, <3>1
  <2>2. CASE d # c
    <3>1. PICK h \in AllGroups : group[h].exit # 0
      BY <1>1, <2>2 DEF FailTells
    <3>2. group'[h].exit # 0
      BY <1>2, <3>1 DEF firstNonZeroExit
    <3> QED  BY <3>2
  <2> QED  BY <2>1, <2>2
<1>7. SkipTells'
  <2>1. \A d \in Command : filtered(d)' = filtered(d)
    BY <1>1 DEF filtered, ofLanguage, existingFiles
  <2>2. \A h \in AllGroups : matchesFiles(h)' <=> matchesFiles(h)
    <3>1. \A h \in AllGroups : CommandsOf(h) \subseteq Command
      BY DEF Command
    <3> QED  BY <2>1, <3>1 DEF matchesFiles
  <2> QED  BY <1>1, <1>2, <2>1, <2>2 DEF SkipTells
<1>8. WhoRan'
  <2>1. Groups' = Groups
    BY <1>1 DEF Groups
  <2> QED  BY <1>1, <1>2, <1>4, <2>1 DEF WhoRan, Over, Checking
<1>9. CommitTells'
  <2> SUFFICES ASSUME mode = "commit", clean, NEW f \in files \ Unseen PROVE FileTells(f)'
    BY <1>1 DEF CommitTells
  <2>1. FileTells(f)
    BY DEF CommitTells
  <2> QED  BY <1>1, <1>4, <2>1 DEF FileTells, Formatting, Checking, formatted
<1>10. ReadTells'
  <2> SUFFICES ASSUME clean, NEW d \in Command, verdict'[d] # "none",
                      NEW f \in existingFiles(filtered(d))'
               PROVE  read'[d][f] = work[f]
    BY <1>1 DEF ReadTells
  <2>1. f \in existingFiles(filtered(d))
    BY <1>1 DEF existingFiles, filtered, ofLanguage
  <2> QED  BY <1>1, <2>1 DEF ReadTells
<1> QED  BY <1>1, <1>3, <1>4, <1>5, <1>6, <1>7, <1>8, <1>9, <1>10 DEF LanesRest, ModeFits,
  NotChecked, StagedSelected, NeededSelected, Formatting, Checking

\* The next command of the prefix returns; the last one opens the rest.
LEMMA SequentialKeeps ==
  ASSUME HookInv, NEW g \in AllGroups, runSequential(g)
  PROVE  HookInv'
<1> USE DEF HookInv
<1>1. /\ group[g].state = "run" /\ group[g].next <= seqEnd(g)
      /\ group[g].next \in 1..(seqEnd(g) + 1) /\ group[g] \in Record
  BY DEF runSequential, GroupTells, HookTyped
<1> DEFINE n == group[g].next
           c == Commands[g][n]
<1>2. n \in 1..Len(Commands[g]) /\ c \in Command /\ n \in Nat
  BY <1>1, SeqEnds
<1>3. PICK code \in {0, 1} :
        /\ runCommand(g, c, code)
        /\ LET e == firstNonZeroExit(group[g].exit, code)
               last == n = seqEnd(g)
               rest == ToSet(SubSeq(Commands[g], seqEnd(g) + 1, Len(Commands[g])))
           IN  group' = [group EXCEPT ![g] =
                 [next |-> n + 1, exit |-> e,
                  par |-> IF last /\ ~(e # 0 /\ g = "ai") THEN rest ELSE {},
                  state |-> IF last /\ (rest = {} \/ (e # 0 /\ g = "ai"))
                            THEN "done" ELSE "run"]]
  BY DEF runSequential
<1> DEFINE e == firstNonZeroExit(group[g].exit, code)
           p == IF n = seqEnd(g) /\ ~(e # 0 /\ g = "ai") THEN restOf(g) ELSE {}
           s == IF n = seqEnd(g) /\ (restOf(g) = {} \/ (e # 0 /\ g = "ai"))
                THEN "done" ELSE "run"
           r == [next |-> n + 1, exit |-> e, par |-> p, state |-> s]
<1>4. group' = [group EXCEPT ![g] = r]
  BY <1>3, SeqEnds
<1>5. /\ e \in {0, 1} /\ (e = 0 => group[g].exit = 0 /\ code = 0)
  BY <1>1 DEF firstNonZeroExit, Record
<1>6. p \subseteq Command /\ s \in {"run", "done"}
  BY SeqEnds
<1> HIDE DEF e, p, s
<1>7. /\ r \in Record /\ r.next = n + 1 /\ r.exit = e /\ r.par = p /\ r.state = s
  BY <1>2, <1>5, <1>6 DEF Record
<1> HIDE DEF r
<1>8. group'[g] = r
  BY <1>4 DEF HookTyped
<1>9. GroupTells(g)'
  <2>1. r.next \in 1..(seqEnd(g) + 1)
    BY <1>1, <1>2, <1>7, SeqEnds
  <2>2. ASSUME e = 0, NEW d \in ran(g)' PROVE verdict'[d] # "none"
    <3>1. /\ verdict'[c] # "none" /\ \A x \in Command \ {c} : verdict'[x] = verdict[x]
      BY <1>2, <1>3, Returned
    <3>2. \A x \in ran(g) : verdict[x] # "none" /\ x \in Command
      <4>1. \A x \in ran(g) : verdict[x] # "none"
        BY <1>1, <1>5, <2>2 DEF GroupTells
      <4>2. n \in Nat /\ n - 1 <= Len(Commands[g]) /\ Len(Commands[g]) \in Nat
        BY <1>1, <1>2, SeqEnds
      <4>3. \A i \in 1..(n - 1) : Commands[g][i] \in Command
        BY <4>2, SeqEnds
      <4>4. restOf(g) \subseteq Command
        BY SeqEnds
      <4> QED  BY <1>2, <4>1, <4>3, <4>4 DEF ran
    <3>3. d \in ran(g) \cup {c}
      <4>1. ran(g)' = {Commands[g][i] : i \in 1..n}
                        \cup IF n + 1 > seqEnd(g) THEN restOf(g) \ p ELSE {}
        BY <1>2, <1>7, <1>8 DEF ran, restOf, seqEnd
      <4>2. n + 1 > seqEnd(g) => p = restOf(g)
        BY <1>1, <1>2, <2>2, SeqEnds DEF p
      <4>3. {Commands[g][i] : i \in 1..n} = {Commands[g][i] : i \in 1..(n - 1)} \cup {c}
        <5>1. 1..n = (1..(n - 1)) \cup {n}
          BY <1>2
        <5> QED  BY <5>1
      <4> QED  BY <2>2, <4>1, <4>2, <4>3 DEF ran
    <3> QED  BY <3>1, <3>2, <3>3
  <2>3. s = "done" /\ e = 0 => n + 1 = seqEnd(g) + 1 /\ p = {}
    BY DEF s, p
  <2> QED  BY <1>6, <1>7, <1>8, <2>1, <2>2, <2>3 DEF GroupTells, seqEnd
<1>10. r.exit = firstNonZeroExit(group[g].exit, code) /\ r.state \in {"run", "done"}
  BY <1>6, <1>7 DEF e
<1> HIDE DEF HookInv, c
<1> QED  BY <1>1, <1>2, <1>3, <1>4, <1>7, <1>9, <1>10, CommandKeeps

\* One of the commands that run at the same time returns.
LEMMA ParallelKeeps ==
  ASSUME HookInv, NEW g \in AllGroups, runParallel(g)
  PROVE  HookInv'
<1> USE DEF HookInv
<1>1. /\ group[g].state = "run" /\ group[g].next > seqEnd(g)
      /\ group[g].next \in 1..(seqEnd(g) + 1) /\ group[g] \in Record
      /\ seqEnd(g) \in Nat
  BY SeqEnds DEF runParallel, GroupTells, HookTyped
<1>2. PICK c \in group[g].par, code \in {0, 1} :
       /\ runCommand(g, c, code)
       /\ group' = [group EXCEPT ![g].par = @ \ {c},
                                 ![g].exit = firstNonZeroExit(@, code),
                                 ![g].state = IF group[g].par = {c} THEN "done" ELSE "run"]
  BY DEF runParallel
<1> DEFINE e == firstNonZeroExit(group[g].exit, code)
           p == group[g].par \ {c}
           s == IF group[g].par = {c} THEN "done" ELSE "run"
           r == [next |-> group[g].next, exit |-> e, par |-> p, state |-> s]
<1>3. /\ c \in Command /\ e \in {0, 1} /\ (e = 0 => group[g].exit = 0)
      /\ p \subseteq Command /\ s \in {"run", "done"}
  BY <1>1 DEF firstNonZeroExit, Record
<1>4. group' = [group EXCEPT ![g] = r]
  <2>1. DOMAIN group = AllGroups
    BY DEF HookTyped
  <2>2. [[[group[g] EXCEPT !.par = p] EXCEPT !.exit = e] EXCEPT !.state = s] = r
    <3>1. \A a \in Record, x \in SUBSET Command :
            [a EXCEPT !.par = x] = [next |-> a.next, par |-> x, exit |-> a.exit,
                                    state |-> a.state]
      BY DEF Record
    <3>2. \A a \in Record, x \in {0, 1} :
            [a EXCEPT !.exit = x] = [next |-> a.next, par |-> a.par, exit |-> x,
                                     state |-> a.state]
      BY DEF Record
    <3>3. \A a \in Record, x \in {"run", "done"} :
            [a EXCEPT !.state = x] = [next |-> a.next, par |-> a.par, exit |-> a.exit,
                                      state |-> x]
      BY DEF Record
    <3> DEFINE b == [group[g] EXCEPT !.par = p]
               d == [b EXCEPT !.exit = e]
    <3>4. b \in Record /\ b.next = group[g].next /\ b.par = p
      BY <1>1, <1>3, <3>1 DEF Record
    <3> HIDE DEF b
    <3>5. d \in Record /\ d.next = group[g].next /\ d.par = p /\ d.exit = e
      BY <1>3, <3>2, <3>4 DEF Record
    <3> HIDE DEF d
    <3>6. [d EXCEPT !.state = s] = r
      BY <1>3, <3>3, <3>5
    <3> QED  BY <3>6 DEF d, b
  <2>3. group' = [[[group EXCEPT ![g] = [group[g] EXCEPT !.par = p]]
                          EXCEPT ![g] = [[group[g] EXCEPT !.par = p] EXCEPT !.exit = e]]
                          EXCEPT ![g] = [[[group[g] EXCEPT !.par = p] EXCEPT !.exit = e]
                                           EXCEPT !.state = s]]
    BY <1>2, <2>1
  <2> QED  BY <2>1, <2>2, <2>3
<1>5. s = "done" => p = {}
  BY DEF s, p
<1> HIDE DEF e, s
<1>6. r \in Record /\ r.next = group[g].next /\ r.exit = e /\ r.par = p /\ r.state = s
  BY <1>1, <1>3 DEF Record
<1> HIDE DEF r
<1>7. group'[g] = r
  BY <1>4 DEF HookTyped
<1>8. GroupTells(g)'
  <2>1. ASSUME e = 0, NEW d \in ran(g)' PROVE verdict'[d] # "none"
    <3>1. /\ verdict'[c] # "none" /\ \A x \in Command \ {c} : verdict'[x] = verdict[x]
      BY <1>2, <1>3, Returned
    <3>2. \A x \in ran(g) : verdict[x] # "none" /\ x \in Command
      <4>1. \A x \in ran(g) : verdict[x] # "none"
        BY <1>1, <1>3, <2>1 DEF GroupTells
      <4>2. group[g].next - 1 = seqEnd(g) /\ seqEnd(g) \in 0..Len(Commands[g])
        BY <1>1, SeqEnds
      <4>3. \A i \in 1..(group[g].next - 1) : Commands[g][i] \in Command
        BY <4>2, SeqEnds
      <4>4. restOf(g) \subseteq Command
        BY SeqEnds
      <4> QED  BY <4>1, <4>3, <4>4 DEF ran
    <3>3. d \in ran(g) \cup {c}
      <4>1. ran(g)' = {Commands[g][i] : i \in 1..(group[g].next - 1)}
                        \cup (restOf(g) \ p)
        BY <1>1, <1>6, <1>7 DEF ran, restOf, seqEnd
      <4> QED  BY <1>1, <2>1, <4>1 DEF ran
    <3> QED  BY <3>1, <3>2, <3>3
  <2>2. group[g].next = seqEnd(g) + 1
    BY <1>1
  <2> QED  BY <1>1, <1>3, <1>5, <1>6, <1>7, <2>1, <2>2 DEF GroupTells, seqEnd
<1>9. r.exit = firstNonZeroExit(group[g].exit, code) /\ r.state \in {"run", "done"}
  BY <1>3, <1>6 DEF e
<1> HIDE DEF HookInv
<1> QED  BY <1>1, <1>2, <1>3, <1>4, <1>6, <1>8, <1>9, CommandKeeps

\* The hook goes on when no group it started is running.
LEMMA GroupWaitKeeps ==
  ASSUME HookInv, groupWait
  PROVE  HookInv'
<1> USE DEF HookInv
<1>1. /\ at \in {"groups", "ai"} /\ \A g \in Groups : group[g].state \in Over
      /\ UNCHANGED <<head, index, work, foreign, other, edits, mode, files,
                     snap, lane, group, verdict, read, needed, clean>>
      /\ \/ at' = "end" /\ status' = 1
         \/ /\ \A g \in Groups : group[g].exit = 0
            /\ \/ at = "ai" /\ at' = "end" /\ status' = 0
               \/ /\ at = "groups" /\ UNCHANGED status
                  /\ at' = IF mode = "push" THEN "full" ELSE "ai"
  BY DEF groupWait, fail, repo, elsewhere, bounds, formatting, checking, Over
<1>2. (\A g \in AllGroups : GroupTells(g))' /\ FailTells' /\ SkipTells' /\ ReadTells'
  BY <1>1, ToldStays, LeftOutStays, ReadStays
<1>3. HookTyped'
  BY <1>1 DEF HookTyped, RegistryIsSound, Checking
<1>4. CASE at' = "end" /\ status' = 1
  BY <1>1, <1>2, <1>3, <1>4, FailKeeps
<1>5. CASE /\ \A g \in Groups : group[g].exit = 0
           /\ at = "ai" /\ at' = "end" /\ status' = 0
  <2>1. "ai" \in Groups /\ mode \in {"commit", "all"}
    BY <1>5 DEF Groups, ModeFits
  <2>2. \A g \in AllGroups : group[g].state \in Over /\ group[g].exit = 0
    BY <1>1, <1>5, <2>1 DEF WhoRan, AllGroups
  <2>3. CommitTells'
    BY <1>1, <1>5 DEF CommitTells, FileTells, Formatting, Checking, formatted
  <2> QED  BY <1>1, <1>2, <1>3, <1>5, <2>1, <2>2, <2>3 DEF LanesRest, ModeFits, NotChecked,
    WhoRan, StagedSelected, NeededSelected, Formatting, Checking
<1>6. CASE /\ \A g \in Groups : group[g].exit = 0
           /\ at = "groups" /\ UNCHANGED status
           /\ at' = IF mode = "push" THEN "full" ELSE "ai"
  <2>1. Groups = IF mode = "push" THEN PushGroup ELSE Group
    BY <1>6 DEF Groups
  <2>2. WhoRan'
    BY <1>1, <1>6, <2>1 DEF WhoRan
  <2>3. CommitTells'
    BY <1>1, <1>6 DEF CommitTells, FileTells, Formatting, Checking, formatted
  <2> QED  BY <1>1, <1>2, <1>3, <1>6, <2>2, <2>3 DEF LanesRest, ModeFits, NotChecked,
    StagedSelected, NeededSelected, HookTyped, Formatting, Checking
<1> QED  BY <1>1, <1>4, <1>5, <1>6

\* The full check ends a push.
LEMMA FullCheckKeeps ==
  ASSUME HookInv, runGeminiCheck
  PROVE  HookInv'
<1> USE DEF HookInv
<1>1. /\ at = "full" /\ at' = "end" /\ status' \in {0, 1}
      /\ UNCHANGED <<head, index, work, foreign, other, edits, mode, files,
                     snap, lane, group, verdict, read, needed, clean>>
  BY DEF runGeminiCheck, fail, repo, elsewhere, bounds, formatting, checking
<1>2. (\A g \in AllGroups : GroupTells(g))' /\ FailTells' /\ SkipTells' /\ ReadTells'
  BY <1>1, ToldStays, LeftOutStays, ReadStays
<1>3. HookTyped'
  BY <1>1 DEF HookTyped, RegistryIsSound
<1> QED  BY <1>1, <1>2, <1>3 DEF LanesRest, ModeFits, NotChecked, WhoRan,
  StagedSelected, NeededSelected, CommitTells, FileTells, Formatting, Checking, formatted

\* Nothing happens.
LEMMA StutterKeeps == HookInv /\ UNCHANGED gitVars => HookInv'
<1> SUFFICES ASSUME HookInv, UNCHANGED gitVars PROVE HookInv'
  OBVIOUS
<1> USE DEF HookInv
<1>1. UNCHANGED <<head, index, work, foreign, other, edits, at, status, mode,
                  files, snap, lane, group, verdict, read, needed, clean>>
  BY DEF gitVars, repo, elsewhere, bounds, formatting, checking
<1>2. (\A g \in AllGroups : GroupTells(g))' /\ FailTells' /\ SkipTells' /\ ReadTells'
  BY <1>1, ToldStays, LeftOutStays, ReadStays
<1> QED  BY <1>1, <1>2 DEF HookTyped, RegistryIsSound, LanesRest, ModeFits, NotChecked,
  WhoRan, Groups, StagedSelected, NeededSelected, CommitTells, FileTells, Reached, formatted

\* The invariant is inductive.
LEMMA HookNext == HookInv /\ [GitNext]_gitVars => HookInv'
<1> SUFFICES ASSUME HookInv, [GitNext]_gitVars PROVE HookInv'
  OBVIOUS
<1>1. CASE runPyupgrade \/ runRuffFormat \/ runRuffAutofix \/ runGofmtWrite
  BY <1>1, FormatterKeeps DEF runPyupgrade, runRuffFormat, runRuffAutofix,
     runGofmtWrite
<1>2. CASE Hook
  BY <1>1, <1>2, SelectKeeps, PushedKeeps, FormatGroupKeeps, FixTextKeeps, FormatWaitKeeps,
     RestageKeeps, NamedGroupsKeep, SequentialKeeps, ParallelKeeps, GroupWaitKeeps,
     FullCheckKeeps DEF Hook
<1> QED  BY <1>2, EditKeeps, AddKeeps, StartKeeps, FinishKeeps, InterruptKeeps,
     StutterKeeps DEF GitNext

\* The invariant holds in every behaviour of the hooks.
LEMMA HookInvariance == GitSpec => []HookInv
BY HookInit, HookNext, PTL DEF GitSpec

-----------------------------------------------------------------------------
\* Every command of a group that is done and has not failed has returned.
LEMMA AllRan ==
  ASSUME HookInv, NEW g \in AllGroups, group[g].state = "done", group[g].exit = 0,
         NEW c \in CommandsOf(g)
  PROVE  verdict[c] # "none" /\ c \in Command
<1>1. /\ group[g].next = seqEnd(g) + 1 /\ group[g].par = {}
      /\ \A d \in ran(g) : verdict[d] # "none"
  BY DEF HookInv, GroupTells
<1>2. seqEnd(g) \in 0..Len(Commands[g]) /\ Len(Commands[g]) \in Nat
  BY SeqEnds DEF HookInv
<1>3. PICK i \in 1..Len(Commands[g]) : c = Commands[g][i]
  BY SeqEnds DEF HookInv
<1>4. c \in ran(g)
  <2>1. i \in 1..(group[g].next - 1) \/ i \in (seqEnd(g) + 1)..Len(Commands[g])
    BY <1>1, <1>2
  <2>2. group[g].next > seqEnd(g)
    BY <1>1, <1>2
  <2>3. i \in (seqEnd(g) + 1)..Len(Commands[g]) => c \in restOf(g)
    BY <1>3 DEF restOf
  <2> QED  BY <1>1, <1>3, <2>1, <2>2, <2>3 DEF ran
<1>5. c \in Command
  BY <1>3, SeqEnds DEF HookInv
<1> QED  BY <1>1, <1>4, <1>5

\* When a hook lets git go on no command has failed.
LEMMA NoneFailed ==
  ASSUME HookInv, NEW m \in {"commit", "all", "push"}, Accepted(m)
  PROVE  /\ \A g \in IF m = "push" THEN PushGroup ELSE AllGroups :
              group[g].state \in Over /\ group[g].exit = 0
         /\ \A c \in Command : verdict[c] # "fail"
<1>1. /\ at = "end" /\ status = 0 /\ mode = m
      /\ PushGroup \subseteq AllGroups
  BY DEF Accepted, HookInv, HookTyped, RegistryIsSound, AllGroups
<1>2. \A g \in AllGroups : group[g].exit = 0
  BY <1>1, IdleRecord DEF HookInv, WhoRan, GroupTells
<1> QED  BY <1>1, <1>2 DEF HookInv, WhoRan, FailTells

\* A hook that lets git go on has run every command that had something to look at,
\* and none of them failed (runHookGroupInProcess, firstNonZeroExit).
THEOREM ExitReflectsCommandsHolds == GitSpec => []ExitReflectsCommands
<1>1. HookInv => ExitReflectsCommands
  <2> SUFFICES ASSUME HookInv, NEW m \in {"commit", "all", "push"}, Accepted(m),
                      NEW g \in IF m = "push" THEN PushGroup ELSE AllGroups
               PROVE  /\ group[g].state = "done" =>
                           \A c \in CommandsOf(g) : verdict[c] \in {"pass", "skip"}
                      /\ group[g].state # "done" =>
                           group[g].state = "skipped" /\ (clean => ~matchesFiles(g))
    BY DEF ExitReflectsCommands
  <2>1. g \in AllGroups
    BY DEF HookInv, HookTyped, RegistryIsSound, AllGroups
  <2>2. /\ group[g].state \in Over /\ group[g].exit = 0
        /\ \A c \in Command : verdict[c] # "fail"
    BY NoneFailed
  <2>3. ASSUME group[g].state = "done", NEW c \in CommandsOf(g)
        PROVE  verdict[c] \in {"pass", "skip"}
    <3>1. verdict[c] # "none" /\ c \in Command
      BY <2>1, <2>2, <2>3, AllRan
    <3> QED  BY <2>2, <3>1 DEF HookInv, HookTyped
  <2> QED  BY <2>1, <2>2, <2>3 DEF HookInv, SkipTells, Over
<1> QED  BY HookInvariance, <1>1, PTL

\* When a hook lets git go on, every command for a selected file that is there read
\* the file as it is, unless somebody interfered, and passed.
LEMMA LookedAt ==
  ASSUME HookInv, NEW m \in {"commit", "all", "push"}, Accepted(m), clean,
         NEW g \in IF m = "push" THEN PushGroup ELSE AllGroups, NEW c \in CommandsOf(g),
         NEW f \in existingFiles(files), looksAt(c, f)
  PROVE  verdict[c] = "pass" /\ read[c][f] = work[f]
<1>1. g \in AllGroups /\ CommandsOf(g) \subseteq Command /\ c \in Command
  BY DEF HookInv, HookTyped, RegistryIsSound, AllGroups, Command
<1>2. group[g].state \in Over /\ group[g].exit = 0 /\ verdict[c] # "fail"
  BY <1>1, NoneFailed
<1>3. f \in filtered(c) /\ f \in existingFiles(filtered(c))
  BY DEF looksAt, filtered, ofLanguage, existingFiles
<1>4. group[g].state = "done"
  BY <1>1, <1>2, <1>3 DEF HookInv, SkipTells, matchesFiles, Over
<1>5. verdict[c] # "none"
  BY <1>1, <1>2, <1>4, AllRan
<1>6. verdict[c] # "skip"
  BY <1>1, <1>3 DEF HookInv, SkipTells
<1> QED  BY <1>1, <1>2, <1>3, <1>5, <1>6 DEF HookInv, HookTyped, ReadTells

\* A commit from the index that nobody disturbed commits formatted contents, and every
\* check read what is committed (runPreCommitHook, restageFiles).
THEOREM CleanCommitIsCheckedHolds == GitSpec => []CleanCommitIsChecked
<1>1. HookInv => CleanCommitIsChecked
  <2> SUFFICES ASSUME HookInv, Accepted("commit"), clean, ~foreign,
                      NEW f \in File \ Unseen, index[f] \notin {head[f], Absent},
                      snap[f] # Unread
               PROVE  /\ index[f] = work[f] /\ formatted(f, index[f])
                      /\ \A g \in AllGroups : \A c \in CommandsOf(g) :
                           looksAt(c, f) => read[c][f] = index[f]
    BY DEF CleanCommitIsChecked, committed
  <2>1. f \in files
    BY DEF HookInv, StagedSelected, Accepted
  <2>2. index[f] = work[f] /\ formatted(f, index[f])
    BY <2>1 DEF HookInv, CommitTells, FileTells, Accepted
  <2>3. f \in existingFiles(files)
    BY <2>1, <2>2 DEF existingFiles
  <2> QED  BY <2>2, <2>3, LookedAt
<1> QED  BY HookInvariance, <1>1, PTL

\* In a push that passes every command read the files of every ref it updates and
\* passed (pushedFilesWithDiffOptions).
THEOREM PushedIsCheckedHolds == GitSpec => []PushedIsChecked
<1>1. HookInv => PushedIsChecked
  <2> SUFFICES ASSUME HookInv, Accepted("push"), clean,
                      NEW f \in existingFiles(needed),
                      NEW g \in PushGroup, NEW c \in CommandsOf(g), looksAt(c, f)
               PROVE  verdict[c] = "pass" /\ read[c][f] = work[f]
    BY DEF PushedIsChecked
  <2>1. f \in existingFiles(files)
    BY DEF Accepted, HookInv, NeededSelected, existingFiles
  <2> QED  BY <2>1, LookedAt
<1> QED  BY HookInvariance, <1>1, PTL

\* Once a group has started, no step of the hook writes worktree or index: the
\* formatters are at rest by then (runFormatGroup waits for both lanes).
THEOREM ChecksSeeOneTreeHolds == GitSpec => ChecksSeeOneTree
<1>1. ASSUME HookInv, NEW g \in AllGroups, group[g].state # "off", Hook
      PROVE  UNCHANGED <<index, work>>
  <2>1. at \in Checking \cup {"end"}
    BY <1>1, IdleRecord DEF HookInv, NotChecked, HookTyped
  <2>2. ASSUME NEW l \in Langs, NEW place \in {"1", "2", "3"}, NEW step, NEW next,
               runFormatter(l, place, step, next)
        PROVE  FALSE
    <3>1. lane[l] = place /\ at \notin {"idle", "end"}
      BY <2>2 DEF runFormatter
    <3>2. lane[l] \in {"ok", "off"}
      BY <1>1, <2>1, <3>1 DEF HookInv, LanesRest
    <3> QED  BY <3>1, <3>2
  <2>3. ~(runPyupgrade \/ runRuffFormat \/ runRuffAutofix \/ runGofmtWrite)
    BY <2>2 DEF runPyupgrade, runRuffFormat, runRuffAutofix,
         runGofmtWrite, Langs
  <2> QED  BY <1>1, <2>1, <2>3 DEF Hook, hookFilesForPreCommit, pushedFiles,
     runFormatGroup, fixText, formatWait, restageFiles,
     runNamedHookGroups, runSequential, runParallel, runCommand,
     groupWait, runGeminiCheck, repo, elsewhere, Checking
<1>2. HookInv /\ [GitNext]_gitVars =>
        [(\E g \in AllGroups : group[g].state # "off") /\ Hook
           => UNCHANGED <<index, work>>]_gitVars
  BY <1>1
<1> QED  BY HookInvariance, <1>2, PTL DEF GitSpec, ChecksSeeOneTree
=============================================================================
