----------------------- MODULE InterceptConnectProofs -----------------------
(***************************************************************************)
(* Proofs about InterceptConnect, for any number of requests through one   *)
(* tunnel.                                                                 *)
(*                                                                         *)
(* The argument.  Serve's deferred Close runs after the listener's channel *)
(* is closed, since it waits for it, so only the connection's goroutine    *)
(* ever closes it, and that goroutine ends with the close (ListenerStage). *)
(* A tunnel leaves the blind path before anything is relayed if its host   *)
(* is to be intercepted under fail_closed (BlindStage).  And at each stage *)
(* of a request what was recorded of it, with what the recorder lost, is   *)
(* exactly what happened to it (Evidence): a request is finished by one    *)
(* last event, which is stored or lost (RecordFields), and the end of its  *)
(* context changes nothing of it (ResetEvidence).                          *)
(***************************************************************************)
EXTENDS InterceptConnect, SequenceTheorems, TLAPS

Place == {"new", "read", "build", "enforce", "out", "do", "response", "evaluate",
          "forward", "done"}
Mark == {"none", "eval_error"}
Body == {"none", "whole", "cut"}
AnswerKind == {"none", "sse", "plain"}
View == {"nothing", "421", "502", "403", "denial", "upstream"}
Req == [at : Place, body : Body, out : Verdict,
        sent : BOOLEAN, answer : AnswerKind,
        in : Verdict, mark : Mark, view : View,
        log : Seq(Event), lost : Nat, reset : BOOLEAN]

-----------------------------------------------------------------------------
(* The inductive invariant.                                                *)

Types ==
  /\ conf \in Config
  /\ pc \in {"connect", "ack", "dial", "relay", "accept", "acceptNext", "closeCheck",
             "close", "returned"}
  /\ ctx \in {"live", "cancelled"}
  /\ peer \in [Peer -> {"open", "closed"}] /\ eof \in [Peer -> BOOLEAN]
  /\ pipe \in [Peer -> {"off", "copy", "done"}]
  /\ tunnelLog \in Seq({"allow", "route_error"})
  /\ conn \in {"none", "handshake", "serving", "closeCheck", "close", "closed"}
  /\ done \in BOOLEAN /\ closes \in Nat
  /\ req \in [Stream -> Req]

\* Who may close the channel, and whether somebody has.
ListenerStage ==
  /\ pc \in {"connect", "ack", "dial", "relay", "accept"} => conn = "none"
  /\ conn # "closed" => closes = 0 /\ ~done
  /\ pc = "closeCheck" => done
  /\ pc # "close"
  /\ closes <= 1

\* A tunnel that must not be blind is not.
BlindStage ==
  intercept /\ ~conf.passthrough =>
    pc \notin {"dial", "relay"} /\ tunnelLog = <<>> /\ pipe["client"] = "off"

\* What the recorder keeps of one event, and of two.
Kept1(r, e) == \/ r.log = <<e>> /\ r.lost = 0
               \/ r.log = <<>> /\ r.lost = 1
Kept2(r, o, e) == \/ r.log = <<o, e>> /\ r.lost = 0
                  \/ r.log \in {<<o>>, <<e>>} /\ r.lost = 1
                  \/ r.log = <<>> /\ r.lost = 2

Says(e, pair) == e.about = pair[1] /\ e.decision = pair[2]

\* One event of a request that was refused, with nothing sent.
Refused(r) ==
  /\ ~r.sent /\ r.in = "none"
  /\ \E e \in Event : Kept1(r, e) /\ Says(e, LastEvent(r))

\* Two events of one that was sent, the second as the client saw its end.
Answered(r) ==
  /\ r.sent
  /\ \E o \in Event, e \in Event :
       /\ Kept2(r, o, e)
       /\ Says(o, <<"out", "allow">>) /\ Says(e, LastEvent(r))
       /\ r.in = "error" /\ e.about = "in" => e.mark = "eval_error"

LetOut(r) == \E o \in Event : Kept1(r, o) /\ Says(o, <<"out", "allow">>)

Fresh(r) == r.log = <<>> /\ r.lost = 0

\* What is recorded of a request at each of its stages.
Evidence(r) ==
  /\ r.at \in {"new", "read", "build", "enforce", "out"} => Fresh(r) /\ ~r.sent
  /\ r.at = "do" => LetOut(r) /\ ~r.sent
  /\ r.at \in {"response", "evaluate", "forward"} => LetOut(r) /\ r.sent
  /\ r.at \notin {"forward", "done"} => r.in = "none"
  /\ r.at \in {"out", "do", "response", "evaluate", "forward"} \/ r.sent =>
       r.out = "allow"
  /\ r.at = "forward" => (r.in = "error" => r.mark = "eval_error")
  /\ r.at = "done" => Refused(r) \/ Answered(r)

RequestStage == \A s \in Stream : Evidence(req[s])

Inv ==
  /\ Types
  /\ ListenerStage
  /\ BlindStage
  /\ RequestStage

-----------------------------------------------------------------------------
(* Steps of a request.                                                     *)

\* What setting one field of a request leaves as it was.
LEMMA AtField ==
  ASSUME NEW r \in Req, NEW v \in Place
  PROVE  LET u == [r EXCEPT !.at = v]
         IN  /\ u \in Req /\ u.at = v
             /\ u.out = r.out /\ u.sent = r.sent /\ u.in = r.in /\ u.mark = r.mark
             /\ u.view = r.view /\ u.log = r.log /\ u.lost = r.lost
BY DEF Req

LEMMA BodyField ==
  ASSUME NEW r \in Req, NEW v \in Body
  PROVE  LET u == [r EXCEPT !.body = v]
         IN  /\ u \in Req
             /\ u.at = r.at /\ u.out = r.out /\ u.sent = r.sent /\ u.in = r.in
             /\ u.mark = r.mark /\ u.view = r.view /\ u.log = r.log /\ u.lost = r.lost
BY DEF Req

LEMMA OutField ==
  ASSUME NEW r \in Req, NEW v \in Verdict
  PROVE  LET u == [r EXCEPT !.out = v]
         IN  /\ u \in Req /\ u.out = v
             /\ u.at = r.at /\ u.sent = r.sent /\ u.in = r.in /\ u.mark = r.mark
             /\ u.view = r.view /\ u.log = r.log /\ u.lost = r.lost
BY DEF Req

LEMMA SentField ==
  ASSUME NEW r \in Req, NEW v \in BOOLEAN
  PROVE  LET u == [r EXCEPT !.sent = v]
         IN  /\ u \in Req /\ u.sent = v
             /\ u.at = r.at /\ u.out = r.out /\ u.in = r.in /\ u.mark = r.mark
             /\ u.view = r.view /\ u.log = r.log /\ u.lost = r.lost
BY DEF Req

LEMMA AnswerField ==
  ASSUME NEW r \in Req, NEW v \in AnswerKind
  PROVE  LET u == [r EXCEPT !.answer = v]
         IN  /\ u \in Req
             /\ u.at = r.at /\ u.out = r.out /\ u.sent = r.sent /\ u.in = r.in
             /\ u.mark = r.mark /\ u.view = r.view /\ u.log = r.log /\ u.lost = r.lost
BY DEF Req

LEMMA InField ==
  ASSUME NEW r \in Req, NEW v \in Verdict
  PROVE  LET u == [r EXCEPT !.in = v]
         IN  /\ u \in Req /\ u.in = v
             /\ u.at = r.at /\ u.out = r.out /\ u.sent = r.sent /\ u.mark = r.mark
             /\ u.view = r.view /\ u.log = r.log /\ u.lost = r.lost
BY DEF Req

LEMMA MarkField ==
  ASSUME NEW r \in Req, NEW v \in Mark
  PROVE  LET u == [r EXCEPT !.mark = v]
         IN  /\ u \in Req /\ u.mark = v
             /\ u.at = r.at /\ u.out = r.out /\ u.sent = r.sent /\ u.in = r.in
             /\ u.view = r.view /\ u.log = r.log /\ u.lost = r.lost
BY DEF Req

LEMMA ViewField ==
  ASSUME NEW r \in Req, NEW v \in View
  PROVE  LET u == [r EXCEPT !.view = v]
         IN  /\ u \in Req /\ u.view = v
             /\ u.at = r.at /\ u.out = r.out /\ u.sent = r.sent /\ u.in = r.in
             /\ u.mark = r.mark /\ u.log = r.log /\ u.lost = r.lost
BY DEF Req

LEMMA LogField ==
  ASSUME NEW r \in Req, NEW v \in Seq(Event)
  PROVE  LET u == [r EXCEPT !.log = v]
         IN  /\ u \in Req /\ u.log = v
             /\ u.at = r.at /\ u.out = r.out /\ u.sent = r.sent /\ u.in = r.in
             /\ u.mark = r.mark /\ u.view = r.view /\ u.lost = r.lost
BY DEF Req

LEMMA LostField ==
  ASSUME NEW r \in Req, NEW v \in Nat
  PROVE  LET u == [r EXCEPT !.lost = v]
         IN  /\ u \in Req /\ u.lost = v
             /\ u.at = r.at /\ u.out = r.out /\ u.sent = r.sent /\ u.in = r.in
             /\ u.mark = r.mark /\ u.view = r.view /\ u.log = r.log
BY DEF Req

LEMMA ResetField ==
  ASSUME NEW r \in Req, NEW v \in BOOLEAN
  PROVE  LET u == [r EXCEPT !.reset = v]
         IN  /\ u \in Req
             /\ u.at = r.at /\ u.out = r.out /\ u.sent = r.sent /\ u.in = r.in
             /\ u.mark = r.mark /\ u.view = r.view /\ u.log = r.log /\ u.lost = r.lost
BY DEF Req

\* An event is stored or lost; nothing else of the request changes.
LEMMA RecordFields ==
  ASSUME NEW r \in Req, NEW e \in Event, NEW u \in record(r, e)
  PROVE  /\ u \in Req /\ u.at = r.at /\ u.view = r.view
         /\ \/ u.log = Append(r.log, e) /\ u.lost = r.lost
            \/ u.log = r.log /\ u.lost = r.lost + 1
         /\ u.sent = r.sent /\ u.in = r.in /\ u.out = r.out
<1>1. CASE u = stored(r, e)
  <2> DEFINE l == Append(r.log, e)
  <2>1. l \in Seq(Event)
    BY DEF Req
  <2>2. u = [r EXCEPT !.log = l]
    BY <1>1 DEF stored
  <2> HIDE DEF l
  <2>3. /\ u \in Req /\ u.log = l /\ u.at = r.at /\ u.view = r.view
        /\ u.lost = r.lost /\ u.sent = r.sent /\ u.in = r.in /\ u.out = r.out
    BY <2>1, <2>2, LogField
  <2> QED  BY <2>3 DEF l
<1>2. CASE u = dropped(r)
  <2> DEFINE n == r.lost + 1
  <2>1. n \in Nat
    BY DEF Req
  <2>2. u = [r EXCEPT !.lost = n]
    BY <1>2 DEF dropped
  <2> HIDE DEF n
  <2>3. /\ u \in Req /\ u.lost = n /\ u.at = r.at /\ u.view = r.view
        /\ u.log = r.log /\ u.sent = r.sent /\ u.in = r.in /\ u.out = r.out
    BY <2>1, <2>2, LostField
  <2> QED  BY <2>3 DEF n
<1> QED  BY <1>1, <1>2 DEF record

\* A request is finished: it keeps what was sent and judged, and has one event more,
\* or has lost one more.
LEMMA FinishFields ==
  ASSUME NEW s, req[s] \in Req, NEW view \in View, NEW e \in Event,
         NEW u \in finish(s, view, e)
  PROVE  /\ u \in Req /\ u.at = "done" /\ u.view = view
         /\ \/ u.log = Append(req[s].log, e) /\ u.lost = req[s].lost
            \/ u.log = req[s].log /\ u.lost = req[s].lost + 1
         /\ u.sent = req[s].sent /\ u.in = req[s].in /\ u.out = req[s].out
<1> DEFINE r == req[s]
           r1 == [r EXCEPT !.at = "done"]
           r2 == [r1 EXCEPT !.view = view]
           r3 == [r2 EXCEPT !.body = "none"]
           r4 == [r3 EXCEPT !.answer = "none"]
           r5 == [r4 EXCEPT !.mark = "none"]
           r6 == [r5 EXCEPT !.reset = FALSE]
           Same(q) == /\ q \in Req /\ q.at = "done" /\ q.log = r.log /\ q.lost = r.lost
                      /\ q.sent = r.sent /\ q.in = r.in /\ q.out = r.out
<1>1. finish(s, view, e) = record(r6, e)
  BY DEF finish
<1>2. Same(r1)
  BY AtField DEF Place
<1> HIDE DEF r1
<1>3. Same(r2) /\ r2.view = view
  BY <1>2, ViewField
<1> HIDE DEF r2
<1>4. Same(r3) /\ r3.view = view
  BY <1>3, BodyField DEF Body
<1> HIDE DEF r3
<1>5. Same(r4) /\ r4.view = view
  BY <1>4, AnswerField DEF AnswerKind
<1> HIDE DEF r4
<1>6. Same(r5) /\ r5.view = view
  BY <1>5, MarkField DEF Mark
<1> HIDE DEF r5
<1>7. Same(r6) /\ r6.view = view
  BY <1>6, ResetField
<1> HIDE DEF r6
<1>8. u \in record(r6, e)
  BY <1>1
<1>9. /\ u \in Req /\ u.at = r6.at /\ u.view = r6.view
      /\ \/ u.log = Append(r6.log, e) /\ u.lost = r6.lost
         \/ u.log = r6.log /\ u.lost = r6.lost + 1
      /\ u.sent = r6.sent /\ u.in = r6.in /\ u.out = r6.out
  BY <1>7, <1>8, RecordFields
<1> QED  BY <1>7, <1>9

LEMMA EventFields ==
  ASSUME NEW about \in {"mismatch", "route", "out", "in"},
         NEW decision \in {"allow", "deny", "route_error"}, NEW mark \in Mark
  PROVE  /\ event(about, decision, mark) \in Event
         /\ event(about, decision, mark).about = about
         /\ event(about, decision, mark).decision = decision
         /\ event(about, decision, mark).mark = mark
BY DEF event, Event, Mark

\* Two events in a row.
LEMMA TwoEvents ==
  ASSUME NEW o \in Event, NEW e \in Event PROVE Append(<<o>>, e) = <<o, e>>
<1> DEFINE a == Append(<<o>>, e)
           b == <<o, e>>
<1>1. <<o>> \in Seq(Event) /\ Len(<<o>>) = 1
  OBVIOUS
<1>2. a \in Seq(Event) /\ Len(a) = 2 /\ a[1] = o /\ a[2] = e
  BY <1>1, AppendProperties
<1>3. b \in Seq(Event) /\ Len(b) = 2 /\ b[1] = o /\ b[2] = e
  OBVIOUS
<1> HIDE DEF a, b
<1>4. Len(a) = Len(b) /\ \A i \in 1..Len(a) : a[i] = b[i]
  BY <1>2, <1>3
<1>5. a = b
  BY <1>2, <1>3, <1>4, SeqEqual
<1> QED  BY <1>5 DEF a, b

\* The event that finishes a request belongs to what was done with it.
LEMMA RefusedEnds ==
  ASSUME NEW s, req[s] \in Req, Fresh(req[s]), ~req[s].sent, req[s].in = "none",
         NEW view \in {"421", "502", "403"}, NEW e \in Event,
         Says(e, CASE view = "421" -> <<"mismatch", "route_error">>
                   [] view = "502" -> <<"route", "route_error">>
                   [] OTHER -> <<"out", "deny">>),
         NEW r \in finish(s, view, e)
  PROVE  r \in Req /\ r.at = "done" /\ r.out = req[s].out /\ Refused(r)
<1>1. view \in View
  BY DEF View
<1>2. /\ r \in Req /\ r.at = "done" /\ r.view = view
      /\ \/ r.log = Append(req[s].log, e) /\ r.lost = req[s].lost
         \/ r.log = req[s].log /\ r.lost = req[s].lost + 1
      /\ r.sent = req[s].sent /\ r.in = req[s].in /\ r.out = req[s].out
  BY <1>1, FinishFields
<1>3. Append(<<>>, e) = <<e>>
  OBVIOUS
<1>4. Kept1(r, e)
  BY <1>2, <1>3 DEF Fresh, Kept1
<1>5. Says(e, LastEvent(r))
  BY <1>2 DEF LastEvent, Says
<1> QED  BY <1>2, <1>4, <1>5 DEF Refused

LEMMA AnsweredEnds ==
  ASSUME NEW q \in Req, NEW r \in Req, NEW e \in Event, LetOut(q), r.sent,
         \/ r.log = Append(q.log, e) /\ r.lost = q.lost
         \/ r.log = q.log /\ r.lost = q.lost + 1,
         Says(e, LastEvent(r)),
         r.in = "error" /\ e.about = "in" => e.mark = "eval_error"
  PROVE  Answered(r)
<1>1. PICK o \in Event : Kept1(q, o) /\ Says(o, <<"out", "allow">>)
  BY DEF LetOut
<1>2. Append(<<o>>, e) = <<o, e>>
  BY TwoEvents
<1>3. Append(<<>>, e) = <<e>>
  OBVIOUS
<1>4. Kept2(r, o, e)
  <2>1. CASE q.log = <<o>> /\ q.lost = 0
    BY <1>2, <2>1 DEF Kept2
  <2>2. CASE q.log = <<>> /\ q.lost = 1
    <3>1. CASE r.log = Append(q.log, e) /\ r.lost = q.lost
      <4>1. r.log = <<e>> /\ r.lost = 1
        BY <1>3, <2>2, <3>1
      <4> QED  BY <4>1 DEF Kept2
    <3>2. CASE r.log = q.log /\ r.lost = q.lost + 1
      <4>1. r.log = <<>> /\ r.lost = 2
        BY <2>2, <3>2
      <4> QED  BY <4>1 DEF Kept2
    <3> QED  BY <3>1, <3>2
  <2> QED  BY <1>1, <2>1, <2>2 DEF Kept1
<1> QED  BY <1>1, <1>4 DEF Answered

\* What is recorded of a request depends on these fields of it.
LEMMA SameEvidence ==
  ASSUME NEW q, NEW r, Evidence(q),
         r.at = q.at, r.out = q.out, r.sent = q.sent, r.in = q.in, r.mark = q.mark,
         r.view = q.view, r.log = q.log, r.lost = q.lost
  PROVE  Evidence(r)
<1>1. Fresh(r) = Fresh(q) /\ LetOut(r) = LetOut(q)
  BY DEF Fresh, LetOut, Kept1
<1>2. LastEvent(r) = LastEvent(q)
  BY DEF LastEvent
<1>3. Refused(q) => Refused(r)
  BY <1>2 DEF Refused, Kept1
<1>4. Answered(q) => Answered(r)
  BY <1>2 DEF Answered, Kept2
<1> QED  BY <1>1, <1>3, <1>4 DEF Evidence

\* What a request's step leaves is right if the step's own request is.
SetTo(s, r) == set(s, r) /\ r \in Req /\ Evidence(r)

LEMMA SetStep ==
  ASSUME Types, RequestStage, NEW s \in Stream, NEW r, SetTo(s, r)
  PROVE  req' \in [Stream -> Req] /\ RequestStage'
<1>1. req' = [req EXCEPT ![s] = r] /\ r \in Req /\ Evidence(r)
  BY DEF SetTo, set
<1>2. req' \in [Stream -> Req]
  BY <1>1 DEF Types
<1>3. ASSUME NEW t \in Stream PROVE Evidence(req[t])'
  <2>1. req'[t] = IF t = s THEN r ELSE req[t]
    BY <1>1 DEF Types
  <2>2. Evidence(req'[t])
    BY <1>1, <2>1 DEF RequestStage
  <2> QED  BY <2>2
<1> QED  BY <1>2, <1>3 DEF RequestStage

\* The end of a request's context changes nothing that is recorded of it.
LEMMA ResetEvidence ==
  ASSUME NEW q \in Req, Evidence(q)
  PROVE  [q EXCEPT !.reset = TRUE] \in Req /\ Evidence([q EXCEPT !.reset = TRUE])
<1> DEFINE r == [q EXCEPT !.reset = TRUE]
<1>1. /\ r \in Req /\ r.at = q.at /\ r.out = q.out /\ r.sent = q.sent
      /\ r.in = q.in /\ r.mark = q.mark /\ r.view = q.view /\ r.log = q.log
      /\ r.lost = q.lost
  BY ResetField
<1> HIDE DEF r
<1>2. Evidence(r)
  BY <1>1, SameEvidence
<1> QED  BY <1>1, <1>2 DEF r

LEMMA StepResetAll ==
  ASSUME Types, RequestStage, resetAll
  PROVE  req' \in [Stream -> Req] /\ RequestStage'
<1>1. ASSUME NEW s \in Stream PROVE req'[s] \in Req /\ Evidence(req'[s])
  <2>1. req[s] \in Req /\ Evidence(req[s])
    BY DEF Types, RequestStage
  <2>2. req'[s] = req[s] \/ req'[s] = [req[s] EXCEPT !.reset = TRUE]
    BY DEF resetAll
  <2> QED  BY <2>1, <2>2, ResetEvidence
<1>2. req' = [s \in Stream |-> req'[s]]
  BY DEF resetAll
<1>3. req' \in [Stream -> Req]
  BY <1>1, <1>2
<1> QED  BY <1>1, <1>3 DEF RequestStage

LEMMA StepRequestStage ==
  ASSUME Types, RequestStage, NEW s \in Stream, Request(s) \/ serveRequest(s) \/
         clientDo(s) \/ resetStream(s)
  PROVE  req' \in [Stream -> Req] /\ RequestStage'
<1>1. req[s] \in Req /\ Evidence(req[s])
  BY DEF Types, RequestStage
<1> SUFFICES \E r : SetTo(s, r)
  BY SetStep
<1> DEFINE u == req[s]
<1>3. ASSUME NEW place \in Place
      PROVE  /\ goto(s, place) \in Req /\ goto(s, place).at = place
             /\ goto(s, place).log = u.log /\ goto(s, place).lost = u.lost
             /\ goto(s, place).sent = u.sent /\ goto(s, place).mark = u.mark
             /\ goto(s, place).in = u.in /\ goto(s, place).out = u.out
  BY <1>1, AtField DEF goto
<1>2. ASSUME NEW place \in Place
      PROVE  /\ Fresh(u) => Fresh(goto(s, place))
             /\ LetOut(u) => LetOut(goto(s, place))
  BY <1>3 DEF Fresh, LetOut, Kept1
<1>4. ASSUME NEW r \in Req, r.at = "done", Refused(r)
      PROVE  Evidence(r)
  BY <1>4 DEF Evidence, Refused
<1>5. CASE serveRequest(s)
  <2>1. u.at = "new" /\ Fresh(u) /\ ~u.sent /\ u.in = "none"
    BY <1>1, <1>5 DEF serveRequest, Evidence
  <2>2. CASE set(s, goto(s, "read"))
    <3>1. "read" \in Place
      BY DEF Place
    <3> DEFINE r == goto(s, "read")
    <3>2. r \in Req /\ r.at = "read" /\ Fresh(r) /\ ~r.sent /\ r.in = "none"
      BY <1>2, <1>3, <2>1, <3>1
    <3> HIDE DEF r
    <3>3. Evidence(r)
      BY <3>2 DEF Evidence
    <3> QED  BY <2>2, <3>2, <3>3 DEF SetTo, r
  <2>3. ASSUME NEW r \in finish(s, "421", event("mismatch", "route_error", "none")),
               set(s, r)
        PROVE  SetTo(s, r)
    <3> DEFINE e == event("mismatch", "route_error", "none")
    <3>1. e \in Event /\ Says(e, <<"mismatch", "route_error">>)
      BY EventFields DEF Mark, Says
    <3> HIDE DEF e
    <3>2. r \in Req /\ r.at = "done" /\ Refused(r)
      BY <1>1, <2>1, <2>3, <3>1, RefusedEnds DEF e
    <3> QED  BY <1>4, <2>3, <3>2 DEF SetTo
  <2> QED  BY <1>5, <2>2, <2>3 DEF serveRequest
<1>6. CASE readBounded(s)
  <2>1. u.at = "read" /\ Fresh(u) /\ ~u.sent /\ u.in = "none"
    BY <1>1, <1>6 DEF readBounded, Evidence
  <2>2. PICK b \in {"whole", "cut"} : set(s, [goto(s, "build") EXCEPT !.body = b])
    BY <1>6 DEF readBounded
  <2> DEFINE q == goto(s, "build")
             r == [q EXCEPT !.body = b]
  <2>5. set(s, r)
    BY <2>2
  <2>6. q \in Req /\ q.at = "build" /\ Fresh(q) /\ q.sent = u.sent /\ q.in = u.in
    BY <1>2, <1>3, <2>1 DEF Place
  <2>7. b \in Body
    BY DEF Body
  <2> HIDE DEF q
  <2>3. /\ r \in Req /\ r.at = "build" /\ r.log = q.log /\ r.lost = q.lost
        /\ r.sent = u.sent /\ r.in = u.in
    BY <2>6, <2>7, BodyField
  <2> HIDE DEF r
  <2>4. Evidence(r)
    BY <2>1, <2>3, <2>6 DEF Evidence, Fresh
  <2> QED  BY <2>3, <2>4, <2>5 DEF SetTo
<1>7. CASE buildUpstreamRequest(s)
  <2>1. u.at = "build" /\ Fresh(u) /\ ~u.sent /\ u.in = "none"
    BY <1>1, <1>7 DEF buildUpstreamRequest, Evidence
  <2>2. CASE set(s, goto(s, "enforce"))
    <3>1. "enforce" \in Place
      BY DEF Place
    <3> DEFINE r == goto(s, "enforce")
    <3>2. r \in Req /\ r.at = "enforce" /\ Fresh(r) /\ ~r.sent /\ r.in = "none"
      BY <1>2, <1>3, <2>1, <3>1
    <3> HIDE DEF r
    <3>3. Evidence(r)
      BY <3>2 DEF Evidence
    <3> QED  BY <2>2, <3>2, <3>3 DEF SetTo, r
  <2>3. ASSUME NEW r \in routeError(s), set(s, r) PROVE SetTo(s, r)
    <3> DEFINE e == event("route", "route_error", "none")
    <3>1. e \in Event /\ Says(e, <<"route", "route_error">>)
      BY EventFields DEF Mark, Says
    <3>2. r \in finish(s, "502", e)
      BY <2>3 DEF routeError
    <3> HIDE DEF e
    <3>3. r \in Req /\ r.at = "done" /\ Refused(r)
      BY <1>1, <2>1, <3>1, <3>2, RefusedEnds
    <3> QED  BY <1>4, <2>3, <3>3 DEF SetTo
  <2> QED  BY <1>7, <2>2, <2>3 DEF buildUpstreamRequest
<1>8. CASE enforceOutbound(s)
  <2>1. u.at = "enforce" /\ Fresh(u) /\ ~u.sent /\ u.in = "none"
    BY <1>1, <1>8 DEF enforceOutbound, Evidence
  <2>7. PICK v \in evaluatorVerdicts :
          \E q \in IF v = "allow" THEN {goto(s, "out")}
                   ELSE finish(s, "403", event("out", "deny", "none")) :
            set(s, [q EXCEPT !.out = v])
    BY <1>8 DEF enforceOutbound
  <2>2. PICK q \in IF v = "allow" THEN {goto(s, "out")}
                   ELSE finish(s, "403", event("out", "deny", "none")) :
          set(s, [q EXCEPT !.out = v])
    BY <2>7
  <2>3. v \in Verdict
    BY DEF evaluatorVerdicts, Verdict
  <2> DEFINE r == [q EXCEPT !.out = v]
  <2>6. set(s, r)
    BY <2>2
  <2>4. CASE v = "allow"
    <3>1. q \in Req /\ q.at = "out" /\ Fresh(q) /\ ~q.sent /\ q.in = "none"
      BY <1>2, <1>3, <2>1, <2>2, <2>4 DEF Place
    <3>2. /\ r \in Req /\ r.at = "out" /\ r.log = q.log /\ r.lost = q.lost
          /\ ~r.sent /\ r.in = "none" /\ r.out = "allow"
      BY <2>3, <2>4, <3>1, OutField
    <3> HIDE DEF r
    <3>3. Evidence(r)
      BY <3>1, <3>2 DEF Evidence, Fresh
    <3> QED  BY <2>6, <3>2, <3>3 DEF SetTo
  <2>5. CASE v # "allow"
    <3> DEFINE e == event("out", "deny", "none")
    <3>1. e \in Event /\ Says(e, <<"out", "deny">>)
      BY EventFields DEF Mark, Says
    <3>2. q \in finish(s, "403", e)
      BY <2>2, <2>5
    <3> HIDE DEF e
    <3>3. q \in Req /\ q.at = "done" /\ Refused(q)
      BY <1>1, <2>1, <3>1, <3>2, RefusedEnds
    <3>4. /\ r \in Req /\ r.at = "done" /\ r.log = q.log /\ r.lost = q.lost
          /\ r.sent = q.sent /\ r.in = q.in /\ r.view = q.view
      BY <2>3, <3>3, OutField
    <3> HIDE DEF r
    <3>5. Refused(r)
      BY <3>3, <3>4 DEF Refused, Kept1, LastEvent
    <3> QED  BY <1>4, <2>6, <3>4, <3>5 DEF SetTo
  <2> QED  BY <2>4, <2>5
<1>9. CASE recordOutbound(s)
  <2>1. u.at = "out" /\ Fresh(u) /\ ~u.sent /\ u.in = "none" /\ u.out = "allow"
    BY <1>1, <1>9 DEF recordOutbound, Evidence
  <2> DEFINE o == event("out", "allow", "none")
             q == goto(s, "do")
  <2>2. PICK r \in record(q, o) : set(s, r)
    BY <1>9 DEF recordOutbound
  <2>3. o \in Event /\ Says(o, <<"out", "allow">>)
    BY EventFields DEF Mark, Says
  <2>4. Append(<<>>, o) = <<o>>
    BY <2>3
  <2> HIDE DEF o
  <2>5. /\ q \in Req /\ q.at = "do" /\ Fresh(q) /\ ~q.sent /\ q.in = "none"
        /\ q.out = "allow"
    BY <1>2, <1>3, <2>1 DEF Place
  <2> HIDE DEF q
  <2>6. /\ r \in Req /\ r.at = "do" /\ ~r.sent /\ r.in = "none" /\ r.out = "allow"
        /\ \/ r.log = Append(q.log, o) /\ r.lost = q.lost
           \/ r.log = q.log /\ r.lost = q.lost + 1
    BY <2>2, <2>3, <2>5, RecordFields
  <2>7. Kept1(r, o)
    BY <2>4, <2>5, <2>6 DEF Fresh, Kept1
  <2>8. Evidence(r)
    BY <2>3, <2>6, <2>7 DEF Evidence, LetOut
  <2> QED  BY <2>2, <2>6, <2>8 DEF SetTo
<1>10. CASE clientDo(s)
  <2>1. u.at = "do" /\ LetOut(u) /\ u.in = "none" /\ u.out = "allow"
    BY <1>1, <1>10 DEF clientDo, Evidence
  <2>2. PICK a \in {"sse", "plain"} :
          set(s, [goto(s, "response") EXCEPT !.sent = TRUE, !.answer = a])
    BY <1>10 DEF clientDo
  <2> DEFINE h == goto(s, "response")
             q == [h EXCEPT !.sent = TRUE]
             r == [q EXCEPT !.answer = a]
  <2>4. set(s, r)
    BY <2>2
  <2>7. h \in Req /\ h.at = "response" /\ LetOut(h) /\ h.in = u.in /\ h.out = u.out
    BY <1>2, <1>3, <2>1 DEF Place
  <2> HIDE DEF h
  <2>5. /\ q \in Req /\ q.at = "response" /\ q.log = h.log /\ q.lost = h.lost
        /\ q.sent /\ q.in = u.in /\ q.out = u.out
    BY <2>7, SentField
  <2>6. a \in AnswerKind
    BY DEF AnswerKind
  <2> HIDE DEF q
  <2>3. /\ r \in Req /\ r.at = "response" /\ r.log = h.log /\ r.lost = h.lost
        /\ r.sent /\ r.in = u.in /\ r.out = u.out
    BY <2>5, <2>6, AnswerField
  <2> HIDE DEF r
  <2>8. LetOut(r)
    BY <2>3, <2>7 DEF LetOut, Kept1
  <2>9. Evidence(r)
    BY <2>1, <2>3, <2>8 DEF Evidence
  <2> QED  BY <2>3, <2>4, <2>9 DEF SetTo
<1>11. CASE clientDoError(s)
  <2>1. u.at = "do" /\ LetOut(u) /\ u.in = "none" /\ u.out = "allow"
    BY <1>1, <1>11 DEF clientDoError, Evidence
  <2> DEFINE e == event("route", "route_error", "none")
  <2>2. PICK q \in finish(s, "502", e) : set(s, [q EXCEPT !.sent = TRUE])
    BY <1>11 DEF clientDoError, routeError
  <2> DEFINE r == [q EXCEPT !.sent = TRUE]
  <2>3. e \in Event /\ Says(e, <<"route", "route_error">>) /\ e.about = "route"
    BY EventFields DEF Mark, Says
  <2> HIDE DEF e
  <2>4. /\ q \in Req /\ q.at = "done" /\ q.view = "502" /\ q.in = "none"
        /\ q.out = "allow"
        /\ \/ q.log = Append(u.log, e) /\ q.lost = u.lost
           \/ q.log = u.log /\ q.lost = u.lost + 1
    BY <1>1, <2>1, <2>2, <2>3, FinishFields DEF View
  <2>5. set(s, r)
    BY <2>2
  <2>6. /\ r \in Req /\ r.at = "done" /\ r.view = "502" /\ r.in = "none"
        /\ r.out = "allow" /\ r.sent /\ r.log = q.log /\ r.lost = q.lost
    BY <2>4, SentField
  <2> HIDE DEF r
  <2>7. LastEvent(r) = <<"route", "route_error">>
    BY <2>6 DEF LastEvent
  <2>8. Answered(r)
    BY <1>1, <2>1, <2>3, <2>4, <2>6, <2>7, AnsweredEnds
  <2> QED  BY <2>5, <2>6, <2>8 DEF SetTo, Evidence
<1>12. CASE readResponse(s)
  <2>1. u.at = "response" /\ LetOut(u) /\ u.sent /\ u.in = "none" /\ u.out = "allow"
    BY <1>1, <1>12 DEF readResponse, Evidence
  <2> DEFINE r == goto(s, "evaluate")
  <2>2. /\ r \in Req /\ r.at = "evaluate" /\ LetOut(r) /\ r.sent /\ r.in = "none"
        /\ r.out = "allow"
    BY <1>2, <1>3, <2>1 DEF Place
  <2>3. set(s, r)
    BY <1>12 DEF readResponse
  <2> HIDE DEF r
  <2> QED  BY <2>2, <2>3 DEF SetTo, Evidence
<1>13. CASE evaluateInbound(s)
  <2>1. u.at = "evaluate" /\ LetOut(u) /\ u.sent /\ u.out = "allow"
    BY <1>1, <1>13 DEF evaluateInbound, Evidence
  <2>2. PICK v \in evaluatorVerdicts :
          set(s, [goto(s, "forward") EXCEPT
                    !.in = IF v = "error" /\ Cancelled(req[s]) THEN "cutOff" ELSE v,
                    !.mark = IF v = "error" /\ ~Cancelled(req[s]) THEN "eval_error"
                             ELSE "none"])
    BY <1>13 DEF evaluateInbound
  <2> DEFINE i == IF v = "error" /\ Cancelled(u) THEN "cutOff" ELSE v
             m == IF v = "error" /\ ~Cancelled(u) THEN "eval_error" ELSE "none"
             h == goto(s, "forward")
             q == [h EXCEPT !.in = i]
             r == [q EXCEPT !.mark = m]
  <2>3. m \in Mark /\ i \in Verdict /\ (i = "error" => m = "eval_error")
    BY DEF Mark, evaluatorVerdicts, Verdict
  <2>5. set(s, r)
    BY <2>2
  <2> HIDE DEF m, i
  <2>7. h \in Req /\ h.at = "forward" /\ LetOut(h) /\ h.sent /\ h.out = "allow"
    BY <1>2, <1>3, <2>1 DEF Place
  <2> HIDE DEF h
  <2>6. /\ q \in Req /\ q.at = "forward" /\ q.log = h.log /\ q.lost = h.lost
        /\ q.sent /\ q.in = i /\ q.out = "allow"
    BY <2>3, <2>7, InField
  <2> HIDE DEF q
  <2>4. /\ r \in Req /\ r.at = "forward" /\ r.log = h.log /\ r.lost = h.lost
        /\ r.sent /\ r.in = i /\ r.out = "allow" /\ r.mark = m
    BY <2>3, <2>6, MarkField
  <2> HIDE DEF r
  <2>8. LetOut(r)
    BY <2>4, <2>7 DEF LetOut, Kept1
  <2> QED  BY <2>3, <2>4, <2>5, <2>8 DEF SetTo, Evidence
<1>14. CASE forward(s)
  <2>1. /\ u.at = "forward" /\ LetOut(u) /\ u.sent /\ u.out = "allow" /\ u.mark \in Mark
        /\ u.in = "error" => u.mark = "eval_error"
    BY <1>1, <1>14 DEF forward, Evidence, Req
  <2>8. PICK view \in {"denial", "403", "upstream"}, d \in {"allow", "deny"} :
          /\ \E r \in finish(s, view, event("in", d, u.mark)) : set(s, r)
          /\ view = "upstream" <=> d = "allow"
    BY <1>14 DEF forward
  <2>2. PICK r \in finish(s, view, event("in", d, u.mark)) : set(s, r)
    BY <2>8
  <2> DEFINE e == event("in", d, u.mark)
  <2>3. e \in Event /\ Says(e, <<"in", d>>) /\ e.mark = u.mark
    BY <2>1, EventFields DEF Says
  <2>4. r \in finish(s, view, e)
    BY <2>2
  <2> HIDE DEF e
  <2>5. /\ r \in Req /\ r.at = "done" /\ r.view = view
        /\ \/ r.log = Append(u.log, e) /\ r.lost = u.lost
           \/ r.log = u.log /\ r.lost = u.lost + 1
        /\ r.in = u.in /\ r.out = "allow" /\ r.sent
    <3>1. view \in View
      BY DEF View
    <3> QED  BY <1>1, <2>1, <2>3, <2>4, <3>1, FinishFields
  <2>6. LastEvent(r) = <<"in", d>>
    BY <2>5, <2>8 DEF LastEvent
  <2>7. Answered(r)
    BY <1>1, <2>1, <2>3, <2>5, <2>6, AnsweredEnds
  <2> QED  BY <2>2, <2>5, <2>7 DEF SetTo, Evidence
<1>15. CASE resetStream(s)
  <2> DEFINE r == [u EXCEPT !.reset = TRUE]
  <2>1. r \in Req /\ Evidence(r)
    BY <1>1, ResetEvidence
  <2>2. set(s, r)
    BY <1>15 DEF resetStream, set
  <2> QED  BY <2>1, <2>2 DEF SetTo
<1> QED  BY <1>5, <1>6, <1>7, <1>8, <1>9, <1>10, <1>11, <1>12, <1>13, <1>14, <1>15
         DEF Request

\* A request step changes nothing but its request.
LEMMA RequestAlone ==
  ASSUME NEW s, Request(s) \/ serveRequest(s) \/ clientDo(s) \/ resetStream(s)
  PROVE  UNCHANGED others
BY DEF Request, serveRequest, readBounded, buildUpstreamRequest, enforceOutbound,
       recordOutbound, clientDo, clientDoError, readResponse, evaluateInbound, forward,
       resetStream, others

\* Outside of a request's steps its evidence stays.
LEMMA SameRequests ==
  ASSUME RequestStage, UNCHANGED req
  PROVE  RequestStage'
BY DEF RequestStage

-----------------------------------------------------------------------------
(* Every action keeps every part of the invariant.                         *)

\* Every variable keeps its type; requests do by their own steps.
LEMMA StepTypes == Inv /\ [Next]_vars => Types'
<1> SUFFICES ASSUME Types, RequestStage, [Next]_vars PROVE Types'
  BY DEF Inv
<1> USE DEF Types, Peer, blind, serve
<1>1. CASE handleConnect
  BY <1>1 DEF handleConnect, Return
<1>2. CASE canMintLeaf
  BY <1>2 DEF canMintLeaf, Return
<1>3. CASE blindTunnel
  <2>1. tunnelLog' \in Seq({"allow", "route_error"})
    <3>1. PICK d \in {"allow", "route_error"} :
            tunnelLog' \in {tunnelLog, Append(tunnelLog, d)}
      BY <1>3 DEF blindTunnel, recordBlind
    <3> QED  BY <3>1
  <2> QED  BY <1>3, <2>1 DEF blindTunnel, Return
<1>4. CASE waitRelay
  BY <1>4 DEF waitRelay, Return
<1>5. ASSUME NEW p \in Peer, pipeConn(p) PROVE Types'
  BY <1>5 DEF pipeConn, Other
<1>6. CASE Accept
  BY <1>6 DEF Accept
<1>7. CASE AcceptNext
  BY <1>7 DEF AcceptNext
<1>8. CASE serveClose
  <2>1. closes' \in Nat
    BY <1>8 DEF serveClose
  <2>2. done' \in BOOLEAN
    BY <1>8 DEF serveClose
  <2> QED  BY <1>8, <2>1, <2>2 DEF serveClose, Return
<1>9. CASE handshake
  BY <1>9 DEF handshake
<1>10. CASE noticeHangUp
  BY <1>10, StepResetAll DEF noticeHangUp
<1>11. CASE singleConnClose
  BY <1>11 DEF singleConnClose
<1>12. CASE listenerClose
  BY <1>12 DEF listenerClose
<1>13. CASE connEnds
  BY <1>13, StepResetAll DEF connEnds
<1>14. CASE Shutdown
  BY <1>14 DEF Shutdown
<1>15. ASSUME NEW p \in Peer, pipeWriteError(p) PROVE Types'
  BY <1>15 DEF pipeWriteError
<1>16. ASSUME NEW p \in Peer, hangUp(p) PROVE Types'
  BY <1>16 DEF hangUp
<1>17. ASSUME NEW s \in Stream, Request(s) \/ serveRequest(s) \/ clientDo(s) \/
           resetStream(s) PROVE Types'
  BY <1>17, RequestAlone, StepRequestStage DEF RequestStage, others
<1>18. CASE UNCHANGED vars
  BY <1>18 DEF vars
<1> QED  BY <1>1, <1>2, <1>3, <1>4, <1>5, <1>6, <1>7, <1>8, <1>9, <1>10, <1>11,
       <1>12, <1>13, <1>14, <1>15, <1>16, <1>17, <1>18 DEF Next, Handler, Connection

\* The channel is closed by the connection's goroutine alone.
LEMMA StepListenerStage == Inv /\ [Next]_vars => ListenerStage'
<1> SUFFICES ASSUME Types, ListenerStage, [Next]_vars PROVE ListenerStage'
  BY DEF Inv
<1> USE DEF Types, ListenerStage, blind, serve
<1>1. CASE handleConnect
  BY <1>1 DEF handleConnect, Return
<1>2. CASE canMintLeaf
  BY <1>2 DEF canMintLeaf, Return
<1>3. CASE blindTunnel
  BY <1>3 DEF blindTunnel, Return, recordBlind
<1>4. CASE waitRelay
  BY <1>4 DEF waitRelay, Return
<1>5. ASSUME NEW p \in Peer, pipeConn(p) PROVE ListenerStage'
  BY <1>5 DEF pipeConn, Other
<1>6. CASE Accept
  BY <1>6 DEF Accept
<1>7. CASE AcceptNext
  BY <1>7 DEF AcceptNext
<1>8. CASE serveClose
  BY <1>8 DEF serveClose, Return
<1>9. CASE handshake
  BY <1>9 DEF handshake
<1>10. CASE noticeHangUp
  BY <1>10 DEF noticeHangUp
<1>11. CASE singleConnClose
  BY <1>11 DEF singleConnClose
<1>12. CASE listenerClose
  BY <1>12 DEF listenerClose
<1>13. CASE connEnds
  BY <1>13 DEF connEnds
<1>14. CASE Shutdown
  BY <1>14 DEF Shutdown
<1>15. ASSUME NEW p \in Peer, pipeWriteError(p) PROVE ListenerStage'
  BY <1>15 DEF pipeWriteError
<1>16. ASSUME NEW p \in Peer, hangUp(p) PROVE ListenerStage'
  BY <1>16 DEF hangUp
<1>17. ASSUME NEW s \in Stream, Request(s) \/ serveRequest(s) \/ clientDo(s) \/
           resetStream(s) PROVE ListenerStage'
  BY <1>17, RequestAlone DEF others
<1>18. CASE UNCHANGED vars
  BY <1>18 DEF vars
<1> QED  BY <1>1, <1>2, <1>3, <1>4, <1>5, <1>6, <1>7, <1>8, <1>9, <1>10, <1>11,
       <1>12, <1>13, <1>14, <1>15, <1>16, <1>17, <1>18 DEF Next, Handler, Connection

\* Under fail_closed a host to be intercepted leaves the handler before the
\* dial.
LEMMA StepBlindStage == Inv /\ [Next]_vars => BlindStage'
<1> SUFFICES ASSUME Types, BlindStage, [Next]_vars PROVE BlindStage'
  BY DEF Inv
<1> USE DEF Types, BlindStage, intercept, Peer, Other, blind, serve
<1>1. CASE handleConnect
  BY <1>1 DEF handleConnect, Return
<1>2. CASE canMintLeaf
  BY <1>2 DEF canMintLeaf, Return
<1>3. CASE blindTunnel
  BY <1>3 DEF blindTunnel, Return, recordBlind
<1>4. CASE waitRelay
  BY <1>4 DEF waitRelay, Return
<1>5. ASSUME NEW p \in Peer, pipeConn(p) PROVE BlindStage'
  BY <1>5 DEF pipeConn, Other
<1>6. CASE Accept
  BY <1>6 DEF Accept
<1>7. CASE AcceptNext
  BY <1>7 DEF AcceptNext
<1>8. CASE serveClose
  BY <1>8 DEF serveClose, Return
<1>9. CASE handshake
  BY <1>9 DEF handshake
<1>10. CASE noticeHangUp
  BY <1>10 DEF noticeHangUp
<1>11. CASE singleConnClose
  BY <1>11 DEF singleConnClose
<1>12. CASE listenerClose
  BY <1>12 DEF listenerClose
<1>13. CASE connEnds
  BY <1>13 DEF connEnds
<1>14. CASE Shutdown
  BY <1>14 DEF Shutdown
<1>15. ASSUME NEW p \in Peer, pipeWriteError(p) PROVE BlindStage'
  BY <1>15 DEF pipeWriteError
<1>16. ASSUME NEW p \in Peer, hangUp(p) PROVE BlindStage'
  BY <1>16 DEF hangUp
<1>17. ASSUME NEW s \in Stream, Request(s) \/ serveRequest(s) \/ clientDo(s) \/
           resetStream(s) PROVE BlindStage'
  BY <1>17, RequestAlone DEF others
<1>18. CASE UNCHANGED vars
  BY <1>18 DEF vars
<1> QED  BY <1>1, <1>2, <1>3, <1>4, <1>5, <1>6, <1>7, <1>8, <1>9, <1>10, <1>11,
       <1>12, <1>13, <1>14, <1>15, <1>16, <1>17, <1>18 DEF Next, Handler, Connection

\* Requests are changed by their own steps.
LEMMA StepRequestStages == Inv /\ [Next]_vars => RequestStage'
<1> SUFFICES ASSUME Types, RequestStage, [Next]_vars PROVE RequestStage'
  BY DEF Inv
<1> USE DEF Types, blind, serve
<1>1. CASE handleConnect
  BY <1>1, SameRequests DEF handleConnect, Return
<1>2. CASE canMintLeaf
  BY <1>2, SameRequests DEF canMintLeaf, Return
<1>3. CASE blindTunnel
  BY <1>3, SameRequests DEF blindTunnel, Return, recordBlind
<1>4. CASE waitRelay
  BY <1>4, SameRequests DEF waitRelay, Return
<1>5. ASSUME NEW p \in Peer, pipeConn(p) PROVE RequestStage'
  BY <1>5, SameRequests DEF pipeConn, Other
<1>6. CASE Accept
  BY <1>6, SameRequests DEF Accept
<1>7. CASE AcceptNext
  BY <1>7, SameRequests DEF AcceptNext
<1>8. CASE serveClose
  BY <1>8, SameRequests DEF serveClose, Return
<1>9. CASE handshake
  BY <1>9, SameRequests DEF handshake
<1>10. CASE noticeHangUp
  BY <1>10, StepResetAll DEF noticeHangUp
<1>11. CASE singleConnClose
  BY <1>11, SameRequests DEF singleConnClose
<1>12. CASE listenerClose
  BY <1>12, SameRequests DEF listenerClose
<1>13. CASE connEnds
  BY <1>13, StepResetAll DEF connEnds
<1>14. CASE Shutdown
  BY <1>14, SameRequests DEF Shutdown
<1>15. ASSUME NEW p \in Peer, pipeWriteError(p) PROVE RequestStage'
  BY <1>15, SameRequests DEF pipeWriteError
<1>16. ASSUME NEW p \in Peer, hangUp(p) PROVE RequestStage'
  BY <1>16, SameRequests DEF hangUp
<1>17. ASSUME NEW s \in Stream, Request(s) \/ serveRequest(s) \/ clientDo(s) \/
           resetStream(s) PROVE RequestStage'
  BY <1>17, StepRequestStage
<1>18. CASE UNCHANGED vars
  BY <1>18, SameRequests DEF vars
<1> QED  BY <1>1, <1>2, <1>3, <1>4, <1>5, <1>6, <1>7, <1>8, <1>9, <1>10, <1>11,
       <1>12, <1>13, <1>14, <1>15, <1>16, <1>17, <1>18 DEF Next, Handler, Connection

-----------------------------------------------------------------------------
(* The theorems.                                                           *)

LEMMA InitInv == Init => Inv
<1> SUFFICES ASSUME Init PROVE Inv
  OBVIOUS
<1>1. NewRequest \in Req /\ Evidence(NewRequest)
  <2>1. <<>> \in Seq(Event)
    OBVIOUS
  <2>2. NewRequest \in Req
    BY <2>1 DEF NewRequest, Req, Place, Verdict, Mark, View, Body, AnswerKind
  <2>3. Evidence(NewRequest)
    BY DEF NewRequest, Evidence, Fresh
  <2> QED  BY <2>2, <2>3
<1>2. req \in [Stream -> Req] /\ RequestStage
  BY <1>1 DEF Init, RequestStage
<1>3. Types
  <2>1. tunnelLog \in Seq({"allow", "route_error"}) /\ closes \in Nat
    BY DEF Init
  <2> QED  BY <1>2, <2>1 DEF Init, Types
<1>4. ListenerStage /\ BlindStage
  BY DEF Init, ListenerStage, BlindStage, Peer
<1> QED  BY <1>2, <1>3, <1>4 DEF Inv

THEOREM Invariance == Spec => []Inv
<1>1. Inv /\ [Next]_vars => Inv'
  BY StepTypes, StepListenerStage, StepBlindStage, StepRequestStages DEF Inv
<1> QED  BY InitInv, <1>1, PTL DEF Spec

\* Every variable keeps its type in every behaviour.
THEOREM TypeCorrect == Spec => []TypeOK
<1>1. Types => TypeOK
  <2> SUFFICES ASSUME Types PROVE TypeOK
    OBVIOUS
  <2>1. ASSUME NEW s \in Stream
        PROVE  /\ req[s].at \in Place /\ req[s].out \in Verdict /\ req[s].in \in Verdict
               /\ req[s].lost \in Nat /\ req[s].reset \in BOOLEAN
               /\ \A i \in DOMAIN req[s].log : req[s].log[i] \in Event
    BY DEF Types, Req
  <2> QED  BY <2>1 DEF Types, TypeOK, Place
<1> QED  BY Invariance, <1>1, PTL DEF Inv

\* Neither the connection nor Serve's deferred Close closes the channel again.
THEOREM ChannelClosedOnceHolds == Spec => []ChannelClosedOnce
<1>1. ListenerStage => ChannelClosedOnce
  BY DEF ListenerStage, ChannelClosedOnce
<1> QED  BY Invariance, <1>1, PTL DEF Inv

\* Nothing reaches the upstream that was not allowed, and under fail_closed
\* nothing of a host to be intercepted is relayed blindly.
THEOREM JudgedBeforeUpstreamHolds == Spec => []JudgedBeforeUpstream
<1>1. Inv => JudgedBeforeUpstream
  BY DEF Inv, Types, RequestStage, Evidence, BlindStage, JudgedBeforeUpstream, Req
<1> QED  BY Invariance, <1>1, PTL

\* The events of a finished request are exactly what happened to it, but for those
\* that the recorder failed to store.
THEOREM EvidenceIsCompleteHolds == Spec => []EvidenceIsComplete
<1>1. Inv => EvidenceIsComplete
  <2> SUFFICES ASSUME Inv, NEW s \in Stream, req[s].at = "done"
               PROVE  LET r == req[s]
                      IN  /\ Len(r.log) + r.lost = Len(Told(r))
                          /\ r.lost = 0 => Decisions(s) = Told(r)
                          /\ \A i \in DOMAIN r.log :
                               /\ \E j \in DOMAIN Told(r) : Decisions(s)[i] = Told(r)[j]
                               /\ r.in = "error" /\ r.log[i].about = "in" =>
                                    r.log[i].mark = "eval_error"
    BY DEF EvidenceIsComplete
  <2> DEFINE r == req[s]
             Pair(e) == <<e.about, e.decision>>
  <2>1. Refused(r) \/ Answered(r)
    BY DEF Inv, RequestStage, Evidence
  <2>2. ASSUME NEW e, NEW l, Says(e, l), \E a, d : l = <<a, d>> PROVE Pair(e) = l
    BY <2>2 DEF Says
  <2>3. \E a, d : LastEvent(r) = <<a, d>>
    BY DEF LastEvent
  <2> DEFINE l == LastEvent(r)
  <2>4. Decisions(s) = [i \in DOMAIN r.log |-> Pair(r.log[i])]
    BY DEF Decisions
  <2>5. CASE Refused(r)
    <3>1. PICK e \in Event : Kept1(r, e) /\ Says(e, l)
      BY <2>5 DEF Refused
    <3>2. ~r.sent /\ r.in = "none"
      BY <2>5 DEF Refused
    <3>3. Pair(e) = l
      BY <2>2, <2>3, <3>1
    <3>4. Told(r) = <<l>>
      BY <3>2 DEF Told
    <3> HIDE DEF Pair, l
    <3>5. CASE r.log = <<e>> /\ r.lost = 0
      BY <2>4, <3>2, <3>3, <3>4, <3>5
    <3>6. CASE r.log = <<>> /\ r.lost = 1
      BY <2>4, <3>2, <3>3, <3>4, <3>6
    <3> QED  BY <3>1, <3>5, <3>6 DEF Kept1
  <2>6. CASE Answered(r)
    <3>1. PICK o \in Event, e \in Event :
            /\ Kept2(r, o, e)
            /\ Says(o, <<"out", "allow">>) /\ Says(e, l)
            /\ r.in = "error" /\ e.about = "in" => e.mark = "eval_error"
      BY <2>6 DEF Answered
    <3>2. Pair(o) = <<"out", "allow">> /\ Pair(e) = l /\ o.about # "in"
      BY <2>2, <2>3, <3>1 DEF Says
    <3> DEFINE f == <<"out", "allow">>
    <3>3. Told(r) = <<f, l>>
      BY <2>6 DEF Told, Answered
    <3>4. Pair(o) = f
      BY <3>2
    <3> HIDE DEF Pair, l, f
    <3>5. CASE r.log = <<o, e>> /\ r.lost = 0
      BY <2>4, <3>1, <3>2, <3>3, <3>4, <3>5
    <3>6. CASE r.log = <<o>> /\ r.lost = 1
      BY <2>4, <3>1, <3>2, <3>3, <3>4, <3>6
    <3>7. CASE r.log = <<e>> /\ r.lost = 1
      BY <2>4, <3>1, <3>2, <3>3, <3>4, <3>7
    <3>8. CASE r.log = <<>> /\ r.lost = 2
      BY <2>4, <3>1, <3>2, <3>3, <3>4, <3>8
    <3> QED  BY <3>1, <3>5, <3>6, <3>7, <3>8 DEF Kept2
  <2> QED  BY <2>1, <2>5, <2>6
<1> QED  BY Invariance, <1>1, PTL

==============================================================================
