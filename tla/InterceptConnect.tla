-------------------------- MODULE InterceptConnect --------------------------
(***************************************************************************)
(* One CONNECT tunnel through the intercepting proxy                       *)
(* (go/internal/agentproxy/intercept_connect.go, intercept_normalize.go,   *)
(* intercept_enforce.go).                                                  *)
(*                                                                         *)
(* The handler of a tunnel either relays bytes blindly between two peers   *)
(* or terminates TLS and serves what comes out of it with a server of its  *)
(* own, on a listener that yields one connection.  That server runs in     *)
(* goroutines of net/http: one for the connection, and with HTTP/2 one per *)
(* request, which outlive the connection.  Each request is judged before   *)
(* it leaves, its answer before it is forwarded, and both leave events.    *)
(***************************************************************************)
EXTENDS Integers, Sequences, FiniteSets, SequencesExt

CONSTANTS Stream    \* the requests a client may send through the tunnel

ASSUME StreamAssumption == IsFiniteSet(Stream)

VARIABLES conf,      \* of the proxy and of this tunnel
          pc,        \* the handler
          ctx,       \* the context of the tunnel: "live" or "cancelled"
          peer,      \* what the two ends did with their connection
          eof,       \* whether the proxy has shut its side towards them
          pipe,      \* the two copies of a blind tunnel
          tunnelLog, \* events of the tunnel itself
          conn,      \* the served connection's goroutine
          done,      \* whether the listener's channel is closed
          closes,    \* how often close(done) ran: a second one panics
          req        \* the requests

blind == <<peer, eof, pipe, tunnelLog>>
serve == <<conn, done, closes>>
vars == <<conf, pc, ctx, blind, serve, req>>

Peer == {"client", "upstream"}
Other(p) == IF p = "client" THEN "upstream" ELSE "client"

\* enabled, allowed: interception is on and the host is on the list; http2: what
\* ALPN negotiates.  The proxy has a recorder; no evaluator is one that allows.
Config == [enabled : BOOLEAN, allowed : BOOLEAN, passthrough : BOOLEAN,
           http2 : BOOLEAN]

\* An evaluator may fail, or be cut off by the end of the request's context.
Verdict == {"none", "allow", "deny", "error", "cutOff"}
Event == [about : {"mismatch", "route", "out", "in"},
          decision : {"allow", "deny", "route_error"},
          mark : {"none", "eval_error"}]
NewRequest == [at |-> "new", body |-> "none", out |-> "none", sent |-> FALSE,
               answer |-> "none", in |-> "none", mark |-> "none", view |-> "nothing",
               log |-> <<>>, lost |-> 0, reset |-> FALSE]

TypeOK ==
  /\ conf \in Config
  /\ pc \in {"connect", "ack", "dial", "relay", "accept", "acceptNext", "closeCheck",
             "close", "returned"}
  /\ ctx \in {"live", "cancelled"}
  /\ peer \in [Peer -> {"open", "closed"}] /\ eof \in [Peer -> BOOLEAN]
  /\ pipe \in [Peer -> {"off", "copy", "done"}]
  /\ tunnelLog \in Seq({"allow", "route_error"})
  /\ conn \in {"none", "handshake", "serving", "closeCheck", "close", "closed"}
  /\ done \in BOOLEAN /\ closes \in Nat
  /\ \A s \in Stream :
       /\ req[s].at \in {"new", "read", "build", "enforce", "out", "do", "response",
                         "evaluate", "forward", "done"}
       /\ req[s].out \in Verdict /\ req[s].in \in Verdict
       /\ req[s].lost \in Nat /\ req[s].reset \in BOOLEAN
       /\ \A i \in DOMAIN req[s].log : req[s].log[i] \in Event

Init ==
  /\ conf \in Config
  /\ pc = "connect" /\ ctx = "live"
  /\ peer = [p \in Peer |-> "open"] /\ eof = [p \in Peer |-> FALSE]
  /\ pipe = [p \in Peer |-> "off"] /\ tunnelLog = <<>>
  /\ conn = "none" /\ done = FALSE /\ closes = 0
  /\ req = [s \in Stream |-> NewRequest]

-----------------------------------------------------------------------------
(* The handler                                                             *)

intercept == conf.enabled /\ conf.allowed

\* handleConnect returns: the deferred close, and net/http cancels the context.
Return ==
  /\ pc' = "returned"
  /\ ctx' = "cancelled"
  /\ eof' = [p \in Peer |-> TRUE]

\* Hijack and the acknowledgement, each of which may fail.
handleConnect ==
  /\ pc = "connect"
  /\ \/ pc' = "ack" /\ UNCHANGED <<ctx, eof>>
     \/ Return
  /\ UNCHANGED <<conf, peer, pipe, tunnelLog, serve, req>>

\* canMintLeaf decides between interception and the on-error policy.
canMintLeaf ==
  /\ pc = "ack"
  /\ \/ intercept /\ pc' = "accept" /\ UNCHANGED <<ctx, eof>>
     \/ (intercept => conf.passthrough) /\ pc' = "dial" /\ UNCHANGED <<ctx, eof>>
     \/ intercept /\ ~conf.passthrough /\ Return
  /\ UNCHANGED <<conf, peer, pipe, tunnelLog, serve, req>>

\* Like every event, lost if the recorder fails.
recordBlind(decision) ==
  tunnelLog' \in {tunnelLog, Append(tunnelLog, decision)}

blindTunnel ==
  /\ pc = "dial"
  /\ \/ /\ recordBlind("allow")
        /\ pipe' = [p \in Peer |-> "copy"]
        /\ pc' = "relay"
        /\ UNCHANGED <<ctx, eof>>
     \/ recordBlind("route_error") /\ Return /\ UNCHANGED pipe
  /\ UNCHANGED <<conf, peer, serve, req>>

\* pipeConn from p: the copy ends with its source, and shuts the destination.
pipeConn(p) ==
  /\ pc = "relay" /\ pipe[p] = "copy" /\ peer[p] = "closed"
  /\ pipe' = [pipe EXCEPT ![p] = "done"]
  /\ eof' = [eof EXCEPT ![Other(p)] = TRUE]
  /\ UNCHANGED <<conf, pc, ctx, peer, tunnelLog, serve, req>>

\* ... or with a write, if the source still sends to a closed destination.
pipeWriteError(p) ==
  /\ pc = "relay" /\ pipe[p] = "copy" /\ peer[Other(p)] = "closed"
  /\ pipe' = [pipe EXCEPT ![p] = "done"]
  /\ UNCHANGED <<conf, pc, ctx, peer, eof, tunnelLog, serve, req>>

waitRelay ==
  /\ pc = "relay" /\ \A p \in Peer : pipe[p] = "done"
  /\ Return
  /\ UNCHANGED <<conf, peer, pipe, tunnelLog, serve, req>>

\* ServeTLS on the listener: Accept yields the connection once ...
Accept ==
  /\ pc = "accept"
  /\ conn' = "handshake"
  /\ pc' = "acceptNext"
  /\ UNCHANGED <<conf, ctx, blind, done, closes, req>>

\* Mutant: an exhausted listener does not wait.
MutantAcceptNextAtOnce ==
  /\ pc = "acceptNext"
  /\ pc' = "closeCheck"
  /\ UNCHANGED <<conf, ctx, blind, serve, req>>

\* ... then waits for the channel, and Serve's deferred Close runs.
AcceptNext ==
  /\ pc = "acceptNext"
  /\ done
  /\ pc' = "closeCheck"
  /\ UNCHANGED <<conf, ctx, blind, serve, req>>

\* listener.Close looks at the channel, and closes it in a second step if it was
\* open: by then it never is.
serveClose ==
  /\ pc \in {"closeCheck", "close"}
  /\ IF pc = "closeCheck" /\ ~done
     THEN pc' = "close" /\ UNCHANGED <<ctx, eof, done, closes>>
     ELSE /\ closes' = IF pc = "close" THEN closes + 1 ELSE closes
          /\ done' = TRUE
          /\ Return
  /\ UNCHANGED <<conf, peer, pipe, tunnelLog, conn, req>>

-----------------------------------------------------------------------------
(* The connection's goroutine in net/http                                  *)

Active == {s \in Stream : req[s].at \notin {"new", "done"}}

\* leafFor mints again; the handshake fails or times out as well.
handshake ==
  /\ conn = "handshake"
  /\ conn' \in {"serving", "closeCheck"}
  /\ UNCHANGED <<conf, pc, ctx, blind, done, closes, req>>

\* The contexts of the running requests end, each a child of the tunnel's.
resetAll ==
  req' = [s \in Stream |-> IF s \in Active THEN [req[s] EXCEPT !.reset = TRUE]
                                           ELSE req[s]]

\* The client is gone: the requests' contexts end.
noticeHangUp ==
  /\ conn = "serving" /\ peer["client"] = "closed"
  /\ \E s \in Active : ~req[s].reset
  /\ resetAll
  /\ UNCHANGED <<conf, pc, ctx, blind, serve>>

\* The client of an HTTP/2 connection gives one request up.
resetStream(s) ==
  /\ conn = "serving" /\ conf.http2
  /\ s \in Active /\ ~req[s].reset
  /\ req' = [req EXCEPT ![s].reset = TRUE]
  /\ UNCHANGED <<conf, pc, ctx, blind, serve>>

\* The connection ends; HTTP/1 waits for its request, HTTP/2 cancels its streams.
connEnds ==
  /\ conn = "serving"
  /\ conf.http2 \/ Active = {}
  /\ conn' = "closeCheck"
  /\ resetAll
  /\ UNCHANGED <<conf, pc, ctx, blind, done, closes>>

\* Mutant: closing the connection does not close the listener.
MutantCloseKeepsListener ==
  /\ conn = "closeCheck"
  /\ conn' = "closed"
  /\ eof' = [eof EXCEPT !["client"] = TRUE]
  /\ UNCHANGED <<conf, pc, ctx, peer, pipe, tunnelLog, done, closes, req>>

\* singleConn.Close, once, and through it listener.Close.
singleConnClose ==
  /\ conn = "closeCheck"
  /\ conn' = IF done THEN "closed" ELSE "close"
  /\ eof' = [eof EXCEPT !["client"] = TRUE]
  /\ UNCHANGED <<conf, pc, ctx, peer, pipe, tunnelLog, done, closes, req>>

listenerClose ==
  /\ conn = "close"
  /\ done' = TRUE /\ closes' = closes + 1
  /\ conn' = "closed"
  /\ UNCHANGED <<conf, pc, ctx, blind, req>>

-----------------------------------------------------------------------------
(* The requests                                                            *)

\* The context of a request.
Cancelled(r) == ctx = "cancelled" \/ r.reset

stored(r, e) == [r EXCEPT !.log = Append(@, e)]
dropped(r) == [r EXCEPT !.lost = @ + 1]

\* Mutant: the record is lost with the request's context.
MutantRecordWithRequestContext(r, e) ==
  IF Cancelled(r) THEN {r} ELSE {stored(r, e), dropped(r)}

\* record detaches from the context; the recorder stores the event, or fails or
\* takes longer than its five seconds, which nobody is told.
record(r, e) == {stored(r, e), dropped(r)}

event(about, decision, mark) == [about |-> about, decision |-> decision, mark |-> mark]
set(s, r) == req' = [req EXCEPT ![s] = r]
goto(s, place) == [req[s] EXCEPT !.at = place]
finish(s, view, e) ==
  record([req[s] EXCEPT !.at = "done", !.view = view, !.body = "none",
                        !.answer = "none", !.mark = "none", !.reset = FALSE], e)
routeError(s) == finish(s, "502", event("route", "route_error", "none"))

others == <<conf, pc, ctx, blind, serve>>

\* serveRequest starts, with an authority that is the tunnel's or is not.
serveRequest(s) ==
  /\ conn = "serving" /\ req[s].at = "new"
  /\ conf.http2 \/ Active = {}
  /\ \/ set(s, goto(s, "read"))
     \/ \E r \in finish(s, "421", event("mismatch", "route_error", "none")) : set(s, r)
  /\ UNCHANGED others

\* readBounded: a body over the limit is judged by its beginning, and so is one
\* that breaks off, whose error is dropped.
readBounded(s) ==
  /\ req[s].at = "read"
  /\ \E b \in {"whole", "cut"} : set(s, [goto(s, "build") EXCEPT !.body = b])
  /\ UNCHANGED others

buildUpstreamRequest(s) ==
  /\ req[s].at = "build"
  /\ \/ set(s, goto(s, "enforce"))
     \/ \E r \in routeError(s) : set(s, r)
  /\ UNCHANGED others

evaluatorVerdicts == {"allow", "deny", "error"}

\* Mutant: an evaluator that fails lets the request pass.
MutantEnforceFailsOpen(s) ==
  /\ req[s].at = "enforce"
  /\ \E v \in evaluatorVerdicts :
       \E r \in IF v # "deny" THEN {goto(s, "out")}
                ELSE finish(s, "403", event("out", "deny", "none")) :
         set(s, [r EXCEPT !.out = v])
  /\ UNCHANGED others

\* enforceOutbound fails closed.
enforceOutbound(s) ==
  /\ req[s].at = "enforce"
  /\ \E v \in evaluatorVerdicts :
       \E r \in IF v = "allow" THEN {goto(s, "out")}
                ELSE finish(s, "403", event("out", "deny", "none")) :
         set(s, [r EXCEPT !.out = v])
  /\ UNCHANGED others

recordOutbound(s) ==
  /\ req[s].at = "out"
  /\ \E r \in record(goto(s, "do"), event("out", "allow", "none")) : set(s, r)
  /\ UNCHANGED others

\* client.Do: an answer, or an error, which a body that broke off always is.
clientDo(s) ==
  /\ req[s].at = "do"
  /\ req[s].body # "cut"
  /\ \E a \in {"sse", "plain"} :
       set(s, [goto(s, "response") EXCEPT !.sent = TRUE, !.answer = a])
  /\ UNCHANGED others

clientDoError(s) ==
  /\ req[s].at = "do"
  /\ \E r \in routeError(s) : set(s, [r EXCEPT !.sent = TRUE])
  /\ UNCHANGED others

\* streamSSE and bufferAndForward read the answer, up to the limit or to an error:
\* what its event will say of the bytes is left out.
readResponse(s) ==
  /\ req[s].at = "response"
  /\ set(s, goto(s, "evaluate"))
  /\ UNCHANGED others

\* evaluateInbound fails open, and marks it unless the request's context ended.
evaluateInbound(s) ==
  /\ req[s].at = "evaluate"
  /\ \E v \in evaluatorVerdicts :
       set(s, [goto(s, "forward") EXCEPT
                 !.in = IF v = "error" /\ Cancelled(req[s]) THEN "cutOff" ELSE v,
                 !.mark = IF v = "error" /\ ~Cancelled(req[s]) THEN "eval_error"
                          ELSE "none"])
  /\ UNCHANGED others

\* The answer, or a denial in its place: a 403, or an event of the stream.
forward(s) ==
  /\ req[s].at = "forward"
  /\ \E r \in IF req[s].in = "deny"
              THEN finish(s, IF req[s].answer = "sse" THEN "denial" ELSE "403",
                          event("in", "deny", req[s].mark))
              ELSE finish(s, "upstream", event("in", "allow", req[s].mark)) :
       set(s, r)
  /\ UNCHANGED others

-----------------------------------------------------------------------------
(* The environment                                                         *)

hangUp(p) ==
  /\ peer[p] = "open" /\ (p = "upstream" => pipe[p] # "off")
  /\ peer' = [peer EXCEPT ![p] = "closed"]
  /\ UNCHANGED <<conf, pc, ctx, eof, pipe, tunnelLog, serve, req>>

\* The proxy is stopped: hijacked connections stay, their context ends.
Shutdown ==
  /\ ctx = "live"
  /\ ctx' = "cancelled"
  /\ UNCHANGED <<conf, pc, blind, serve, req>>

Handler ==
  \/ handleConnect \/ canMintLeaf \/ blindTunnel \/ waitRelay
  \/ \E p \in Peer : pipeConn(p)
  \/ Accept \/ AcceptNext \/ serveClose

Connection == handshake \/ noticeHangUp \/ singleConnClose \/ listenerClose

Request(s) ==
  \/ readBounded(s) \/ buildUpstreamRequest(s) \/ enforceOutbound(s)
  \/ recordOutbound(s) \/ clientDoError(s) \/ readResponse(s)
  \/ evaluateInbound(s) \/ forward(s)

Next ==
  \/ Handler \/ Connection \/ connEnds \/ Shutdown
  \/ \E p \in Peer : pipeWriteError(p) \/ hangUp(p)
  \/ \E s \in Stream : Request(s) \/ serveRequest(s) \/ clientDo(s) \/ resetStream(s)

\* Goroutines run on.  Reads and client.Do end at the latest when the client is
\* gone and the context with it; the server sees the end of a connection its
\* client closed; a peer that is sent EOF closes.
Gone(S) == peer["client"] = "closed" /\ \A s \in S : Cancelled(req[s])

Fairness ==
  /\ WF_vars(Handler) /\ WF_vars(Connection)
  /\ WF_vars(Gone(Active) /\ connEnds)
  /\ \A s \in Stream : WF_vars(Gone({s}) /\ Request(s))
  /\ \A p \in Peer : WF_vars(eof[p] /\ hangUp(p))

Spec == Init /\ [][Next]_vars /\ Fairness

-----------------------------------------------------------------------------
\* The listener's channel is closed at most once, though the connection's close
\* and Serve's deferred close both look first and close after: a second close
\* would take the whole proxy down with a panic.
ChannelClosedOnce == closes <= 1

\* Nothing reaches the upstream unjudged: a request leaves only after the
\* evaluator allowed it, an error counting as a denial, and under fail_closed a
\* host to be intercepted is never relayed blindly.
JudgedBeforeUpstream ==
  /\ \A s \in Stream : req[s].sent => req[s].out = "allow"
  /\ intercept /\ ~conf.passthrough => tunnelLog = <<>> /\ pipe["client"] = "off"

Decisions(s) ==
  [i \in DOMAIN req[s].log |-> <<req[s].log[i].about, req[s].log[i].decision>>]

\* What the last event of a finished request should say, by what its client saw.
LastEvent(r) ==
  CASE r.view = "421" -> <<"mismatch", "route_error">>
    [] r.view = "502" -> <<"route", "route_error">>
    [] r.view = "403" /\ ~r.sent -> <<"out", "deny">>
    [] r.view = "upstream" -> <<"in", "allow">>
    [] OTHER -> <<"in", "deny">>

Told(r) == IF r.sent THEN <<<<"out", "allow">>, LastEvent(r)>> ELSE <<LastEvent(r)>>

\* The evidence of a finished request is what happened to it, also when its client
\* hung up, reset it or closed the connection on the way: one event for a request
\* that was refused, two for one that was sent, saying what the client was shown.
\* Only the recorder's own failures cost events, each of them one, and those that
\* are left stay true; a judgement that failed is marked.
EvidenceIsComplete ==
  \A s \in Stream : LET r == req[s] IN r.at = "done" =>
    /\ Len(r.log) + r.lost = Len(Told(r))
    /\ r.lost = 0 => Decisions(s) = Told(r)
    /\ \A i \in DOMAIN r.log :
         /\ \E j \in DOMAIN Told(r) : Decisions(s)[i] = Told(r)[j]
         /\ r.in = "error" /\ r.log[i].about = "in" => r.log[i].mark = "eval_error"

\* One peer's hang-up ends the tunnel, whichever way it is served: the half-close
\* carries it to the other peer, the close of the connection to the listener.
TunnelReturns ==
  (\E p \in Peer : peer[p] = "closed") ~> pc = "returned"
=============================================================================
