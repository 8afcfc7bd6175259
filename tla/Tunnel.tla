------------------------------- MODULE Tunnel -------------------------------
(* The tunnel between the router (tunnel.Tunnel, registry.handle_tunnel_v2) and
   a node's agent (agent/tunnel.go): the router's requests as multiplexed
   streams over a WebSocket that the agent opens, with aborted callers, late
   answers, lost connections, revocation and new sessions.

   A WebSocket delivers frames in order until it is lost; each side notices the
   loss by itself.  `of` and `n` in a frame are the request and the piece of
   data it carries; both sides find their way by the stream id alone.  Every
   step is what runs between two awaits of the router, or one step of a
   goroutine of the agent between two locks or calls. *)
EXTENDS Integers, Sequences, FiniteSets

CONSTANTS
    Requests,      \* calls of TunnelRequest
    None,
    MaxConn,       \* sessions of the agent (bound)
    MaxLost,       \* connections that break or are revoked (bound)
    MaxChunks,     \* DATA frames per answer (bound)
    Window,        \* frames a connection holds before a writer blocks (bound)
    SidLimit       \* 0xFFFFFFFF in the code: next_id wraps here

ASSUME NoneAssumption == None \notin Requests
ASSUME BoundAssumption == /\ MaxConn \in Nat /\ MaxLost \in Nat /\ MaxChunks \in Nat
                          /\ Window \in Nat \ {0}
                          /\ SidLimit \in Nat \ {0}
\* No connection lives long enough to use a stream id again.
ASSUME IdsAssumption == IsFiniteSet(Requests) /\ Cardinality(Requests) <= SidLimit

VARIABLES
    wire,                            \* state of each WebSocket
    current, closed,                 \* router: node.tunnel; tunnels it has closed
    nextId, streams,                 \* router: Tunnel.next_id, Tunnel.streams
    call, inbox, cancels,            \* router: callers, their queues, spawned CANCELs
    session, running, handler,       \* agent: its session, Tunnel.streams, goroutines
    down, up                         \* frames to the agent, to the router

linkVars   == <<wire, current, closed, session>>
routerVars == <<nextId, streams>>
callVars   == <<call, inbox, cancels>>
agentVars  == <<running, handler>>
vars == <<linkVars, routerVars, callVars, agentVars, down, up>>

Conns == 1..MaxConn
MayLose == Cardinality({c \in Conns : wire[c] = "lost"}) < MaxLost
Sids == 1..SidLimit
CallStates == {"idle", "picked", "sending", "waiting", "expired", "reading", "closing",
               "complete", "failed", "left"}
Over == {"complete", "failed", "left"}
HandlerStates == {"none", "spawned", "calling", "streaming", "ending", "over"}
Frames == [t : {"REQ", "CANCEL", "REVOKED", "RESP", "DATA", "END", "ERR"},
           sid : Sids \cup {0}, of : Requests \cup {None}, n : Nat]
Frame(t, sid, r, n) == [t |-> t, sid |-> sid, of |-> r, n |-> n]

TypeOK ==
    /\ wire \in [Conns -> {"new", "up", "lost"}]
    /\ current \in Conns \cup {0} /\ session \in Conns \cup {0}
    /\ closed \in [Conns -> BOOLEAN] /\ nextId \in [Conns -> Sids]
    /\ streams \in [Conns -> [Sids -> Requests \cup {None}]]
    /\ call \in [Requests -> [st : CallStates, conn : Conns \cup {0},
                              sid : Sids \cup {0}, got : Nat]]
    /\ inbox \in [Requests -> Seq(Frames)]
    /\ cancels \subseteq Conns \X Sids
    /\ running \in [Sids -> Requests \cup {None}]
    /\ handler \in [Requests -> [st : HandlerStates, conn : Conns \cup {0},
                                 sid : Sids \cup {0}, sent : Nat, eof : BOOLEAN,
                                 cancelled : BOOLEAN]]
    /\ down \in [Conns -> Seq(Frames)] /\ up \in [Conns -> Seq(Frames)]

Init ==
    /\ wire = [c \in Conns |-> "new"] /\ closed = [c \in Conns |-> FALSE]
    /\ current = 0 /\ session = 0
    /\ nextId = [c \in Conns |-> 1]
    /\ streams = [c \in Conns |-> [s \in Sids |-> None]]
    /\ call = [r \in Requests |-> [st |-> "idle", conn |-> 0, sid |-> 0, got |-> 0]]
    /\ inbox = [r \in Requests |-> <<>>] /\ cancels = {}
    /\ running = [s \in Sids |-> None]
    /\ handler = [r \in Requests |-> [st |-> "none", conn |-> 0, sid |-> 0, sent |-> 0,
                                      eof |-> FALSE, cancelled |-> FALSE]]
    /\ down = [c \in Conns |-> <<>>] /\ up = [c \in Conns |-> <<>>]

\* A frame written to a lost connection goes nowhere; a full one blocks.
Written(channel, c, f) == IF wire[c] = "up" THEN [channel EXCEPT ![c] = Append(@, f)]
                          ELSE channel
ToAgent(c, f) == Len(down[c]) < Window /\ down' = Written(down, c, f) /\ UNCHANGED up
ToRouter(c, f) == Len(up[c]) < Window /\ up' = Written(up, c, f) /\ UNCHANGED down

----------------------------------------------------------------------------
(* The router's callers *)

CallIs(r, st) == call' = [call EXCEPT ![r].st = st]
\* The call ends; nobody holds its response and queue any more.
CallEnds(r, st) == /\ call' = [call EXCEPT ![r].st = st, ![r].conn = 0, ![r].sid = 0]
                   /\ inbox' = [inbox EXCEPT ![r] = <<>>]
Pop(r) == streams' = [streams EXCEPT ![call[r].conn][call[r].sid] = None]

\* nodes.nreq binds the call to the node's tunnel of this moment; the task that
\* opens the stream may run later (proxy._connect).
Pick(r) ==
    /\ call[r].st = "idle" /\ current # 0
    /\ call' = [call EXCEPT ![r].st = "picked", ![r].conn = current]
    /\ UNCHANGED <<linkVars, routerVars, inbox, cancels, agentVars, down, up>>

\* Mutant: the stream id does not move on.
OpenSameId(r) ==
    LET c == call[r].conn
    IN  /\ call[r].st = "picked"
        /\ call' = [call EXCEPT ![r].st = "sending", ![r].sid = nextId[c]]
        /\ streams' = [streams EXCEPT ![c][nextId[c]] = r]
        /\ UNCHANGED <<linkVars, nextId, inbox, cancels, agentVars, down, up>>

\* Tunnel.open up to the write of the REQ frame.
Open(r) ==
    LET c == call[r].conn
    IN  /\ call[r].st = "picked"
        /\ call' = [call EXCEPT ![r].st = "sending", ![r].sid = nextId[c]]
        /\ nextId' = [nextId EXCEPT ![c] = (@ % SidLimit) + 1]
        /\ streams' = [streams EXCEPT ![c][nextId[c]] = r]
        /\ UNCHANGED <<linkVars, inbox, cancels, agentVars, down, up>>

\* The REQ frame is written, or goes to a connection whose loss is not known yet.
Send(r) ==
    /\ call[r].st = "sending" /\ ~closed[call[r].conn]
    /\ ToAgent(call[r].conn, Frame("REQ", call[r].sid, r, 0))
    /\ CallIs(r, "waiting")
    /\ UNCHANGED <<linkVars, routerVars, inbox, cancels, agentVars>>

SendFails(r) ==
    /\ call[r].st = "sending" /\ wire[call[r].conn] = "lost"
    /\ Pop(r) /\ CallEnds(r, "failed")
    /\ UNCHANGED <<linkVars, nextId, cancels, agentVars, down, up>>

\* _open: the first frame of the answer must be its head.
ReadHead(r) ==
    LET f == Head(inbox[r])
    IN  /\ call[r].st = "waiting" /\ inbox[r] # <<>>
        /\ IF f.t = "RESP"
           THEN /\ CallIs(r, "reading") /\ UNCHANGED streams
                /\ inbox' = [inbox EXCEPT ![r] = Tail(@)]
           ELSE CallEnds(r, "failed") /\ Pop(r)
        /\ UNCHANGED <<linkVars, nextId, cancels, agentVars, down, up>>

\* No head by the deadline: the entry goes at once, then CANCEL is sent.
Expire(r) ==
    /\ call[r].st = "waiting" /\ inbox[r] = <<>>
    /\ Pop(r) /\ CallIs(r, "expired")
    /\ UNCHANGED <<linkVars, nextId, inbox, cancels, agentVars, down, up>>

\* TunnelResponse._next, and __aexit__ once the answer is over.
Read(r) ==
    LET f == Head(inbox[r])
    IN  /\ call[r].st = "reading" /\ inbox[r] # <<>>
        /\ IF f.t = "DATA"
           THEN /\ call' = [call EXCEPT ![r].got = @ + 1] /\ UNCHANGED streams
                /\ inbox' = [inbox EXCEPT ![r] = Tail(@)]
           ELSE CallEnds(r, IF f.t = "END" THEN "complete" ELSE "failed") /\ Pop(r)
        /\ UNCHANGED <<linkVars, nextId, cancels, agentVars, down, up>>

\* __aexit__ before the end of the answer (deadline, client gone, size limit):
\* CANCEL is sent first, the entry goes afterwards.
Leave(r) ==
    /\ call[r].st = "reading"
    /\ CallIs(r, "closing")
    /\ UNCHANGED <<linkVars, routerVars, inbox, cancels, agentVars, down, up>>

\* Tunnel.cancel ends for a caller that awaits it.
CancelSent(r) ==
    /\ call[r].st \in {"expired", "closing"}
    /\ ToAgent(call[r].conn, Frame("CANCEL", call[r].sid, None, 0))
    /\ CallEnds(r, "failed")
    /\ IF call[r].st = "closing" THEN Pop(r) ELSE UNCHANGED streams
    /\ UNCHANGED <<linkVars, nextId, cancels, agentVars>>

\* The caller's task is cancelled.  While it opens the stream, open cleans up
\* and spawns the CANCEL; while it sends CANCEL itself, nothing more happens.
Abort(r) ==
    LET c == call[r].conn
        s == call[r].sid
        opening == call[r].st \in {"sending", "waiting"}
    IN  /\ call[r].st \in {"picked", "sending", "waiting", "expired", "closing"}
        /\ CallEnds(r, IF call[r].st = "closing" THEN "left" ELSE "failed")
        /\ IF opening THEN Pop(r) ELSE UNCHANGED streams
        /\ cancels' = IF opening /\ streams[c][s] # None THEN cancels \cup {<<c, s>>}
                      ELSE cancels
        /\ UNCHANGED <<linkVars, nextId, agentVars, down, up>>

\* Mutant: CANCEL goes through the node's present tunnel, not the stream's own.
SendCancelThere(c, s) ==
    /\ <<c, s>> \in cancels /\ current # 0
    /\ cancels' = cancels \ {<<c, s>>}
    /\ ToAgent(current, Frame("CANCEL", s, None, 0))
    /\ UNCHANGED <<linkVars, routerVars, call, inbox, agentVars>>

\* A spawned Tunnel.cancel runs.
SendCancel(c, s) ==
    /\ <<c, s>> \in cancels
    /\ cancels' = cancels \ {<<c, s>>}
    /\ ToAgent(c, Frame("CANCEL", s, None, 0))
    /\ UNCHANGED <<linkVars, routerVars, call, inbox, agentVars>>

----------------------------------------------------------------------------
(* The router's side of the connection *)

\* Frames for callers that are over reach a queue nobody reads.
Queue(rs, f) == inbox' = [r \in Requests |-> IF r \in rs /\ call[r].st \notin Over
                                             THEN Append(inbox[r], f) ELSE inbox[r]]

\* Tunnel.dispatch of an answer frame.
Dispatch(c) ==
    LET f == Head(up[c])
        r == streams[c][f.sid]
    IN  /\ ~closed[c] /\ up[c] # <<>>
        /\ up' = [up EXCEPT ![c] = Tail(@)]
        /\ IF r = None THEN UNCHANGED <<inbox, streams>>
           ELSE /\ Queue({r}, f)
                /\ streams' = IF f.t \in {"END", "ERR"}
                              THEN [streams EXCEPT ![c][f.sid] = None] ELSE streams
        /\ UNCHANGED <<linkVars, nextId, call, cancels, agentVars, down>>

\* Mutants: streams end with END instead of ERR; callers are not told.
CloseAllEnds(c) ==
    /\ Queue({streams[c][s] : s \in Sids}, Frame("END", 0, None, 0))
    /\ streams' = [streams EXCEPT ![c] = [s \in Sids |-> None]]
CloseAllQuietly(c) ==
    /\ streams' = [streams EXCEPT ![c] = [s \in Sids |-> None]]
    /\ UNCHANGED inbox

\* Tunnel.close_all on c: every caller that waits gets an ERR.
CloseAll(c) ==
    /\ Queue({streams[c][s] : s \in Sids}, Frame("ERR", 0, None, 0))
    /\ streams' = [streams EXCEPT ![c] = [s \in Sids |-> None]]

\* The connection is found lost, or closed after a revocation: the finally of
\* handle_tunnel_v2 and the end of revoke_node.
RouterCloses(c) ==
    /\ wire[c] = "lost" \/ (wire[c] = "up" /\ current # c)
    /\ ~closed[c]
    /\ CloseAll(c)
    /\ closed' = [closed EXCEPT ![c] = TRUE]
    /\ wire' = [wire EXCEPT ![c] = "lost"]
    /\ current' = IF current = c THEN 0 ELSE current
    /\ up' = [up EXCEPT ![c] = <<>>]
    /\ UNCHANGED <<session, nextId, call, cancels, agentVars, down>>

\* revoke_node: the tunnel leaves the node, the agent is told.
Revoke(c) ==
    /\ current = c /\ MayLose
    /\ current' = 0
    /\ ToAgent(c, Frame("REVOKED", 0, None, 0))
    /\ UNCHANGED <<wire, closed, session, routerVars, callVars, agentVars>>

\* A new session: sign-in, then attach_tunnel replaces a tunnel that the router
\* still believes in.
Connect(c) ==
    /\ session = 0 /\ wire[c] = "new" /\ \A d \in 1..(c - 1) : wire[d] # "new"
    /\ session' = c /\ current' = c
    /\ wire' = [wire EXCEPT ![c] = "up"]
    /\ IF current = 0 THEN UNCHANGED <<inbox, streams, closed, up>>
       ELSE /\ CloseAll(current)
            /\ closed' = [closed EXCEPT ![current] = TRUE]
            /\ up' = [up EXCEPT ![current] = <<>>]
    /\ UNCHANGED <<nextId, call, cancels, agentVars, down>>

\* The connection breaks.  Neither side knows yet.
Lose(c) ==
    /\ wire[c] = "up" /\ MayLose
    /\ wire' = [wire EXCEPT ![c] = "lost"]
    /\ UNCHANGED <<current, closed, session, routerVars, callVars, agentVars, down, up>>

----------------------------------------------------------------------------
(* The agent *)

\* session: read the next frame.  A CANCEL reaches the stream registered under
\* its id at this moment.  A revocation ends the session, not the streams.
AgentReads(c) ==
    LET f == Head(down[c])
    IN  /\ session = c /\ down[c] # <<>>
        /\ \/ /\ f.t = "REQ"
              /\ handler' = [handler EXCEPT ![f.of].st = "spawned", ![f.of].conn = c,
                                            ![f.of].sid = f.sid]
              /\ down' = [down EXCEPT ![c] = Tail(@)]
              /\ UNCHANGED <<wire, session>>
           \/ /\ f.t = "CANCEL"
              /\ handler' = [r \in Requests |-> IF r = running[f.sid]
                                THEN [handler[r] EXCEPT !.cancelled = TRUE] ELSE handler[r]]
              /\ down' = [down EXCEPT ![c] = Tail(@)]
              /\ UNCHANGED <<wire, session>>
           \/ /\ f.t = "REVOKED"
              /\ session' = 0
              /\ wire' = [wire EXCEPT ![c] = "lost"]
              /\ down' = [down EXCEPT ![c] = <<>>]
              /\ UNCHANGED handler
        /\ UNCHANGED <<current, closed, routerVars, callVars, running, up>>

\* session: the read fails; cancelAll.
AgentLoses(c) ==
    /\ session = c /\ wire[c] = "lost"
    /\ session' = 0
    /\ handler' = [r \in Requests |-> IF \E s \in Sids : running[s] = r
                      THEN [handler[r] EXCEPT !.cancelled = TRUE] ELSE handler[r]]
    /\ running' = [s \in Sids |-> None]
    /\ down' = [down EXCEPT ![c] = <<>>]
    /\ UNCHANGED <<wire, current, closed, routerVars, callVars, up>>

HandlerIs(r, st) == handler' = [handler EXCEPT ![r].st = st]

\* handle: the goroutine has started and stores its cancel function.
Register(r) ==
    /\ handler[r].st = "spawned"
    /\ HandlerIs(r, "calling")
    /\ running' = [running EXCEPT ![handler[r].sid] = r]
    /\ UNCHANGED <<linkVars, routerVars, callVars, down, up>>

\* The service answers: head, data, end.
Responds(r) ==
    /\ handler[r].st = "calling"
    /\ HandlerIs(r, "streaming")
    /\ ToRouter(handler[r].conn, Frame("RESP", handler[r].sid, r, 0))
    /\ UNCHANGED <<linkVars, routerVars, callVars, running>>
Sends(r) ==
    /\ handler[r].st = "streaming" /\ handler[r].sent < MaxChunks
    /\ handler' = [handler EXCEPT ![r].sent = @ + 1]
    /\ ToRouter(handler[r].conn, Frame("DATA", handler[r].sid, r, handler[r].sent + 1))
    /\ UNCHANGED <<linkVars, routerVars, callVars, running>>
Ends(r) ==
    /\ handler[r].st = "streaming"
    /\ handler' = [handler EXCEPT ![r].st = "ending", ![r].eof = TRUE]
    /\ ToRouter(handler[r].conn, Frame("END", handler[r].sid, r, 0))
    /\ UNCHANGED <<linkVars, routerVars, callVars, running>>

\* Mutant: a failed request is not reported.
BreaksSilently(r) ==
    /\ handler[r].st \in {"calling", "streaming"}
    /\ HandlerIs(r, "ending")
    /\ UNCHANGED <<linkVars, routerVars, callVars, running, down, up>>

\* The service fails, or its request was cancelled: then no ERR is sent.
Breaks(r) ==
    /\ handler[r].st \in {"calling", "streaming"}
    /\ HandlerIs(r, "ending")
    /\ IF handler[r].cancelled THEN UNCHANGED <<down, up>>
       ELSE ToRouter(handler[r].conn, Frame("ERR", handler[r].sid, r, 0))
    /\ UNCHANGED <<linkVars, routerVars, callVars, running>>

\* A write fails because the connection is gone.
WriteFails(r) ==
    /\ handler[r].st \in {"calling", "streaming"} /\ wire[handler[r].conn] = "lost"
    /\ HandlerIs(r, "ending")
    /\ UNCHANGED <<linkVars, routerVars, callVars, running, down, up>>

\* The deferred cleanup deletes what is registered under the stream id.
Unregister(r) ==
    /\ handler[r].st = "ending"
    /\ handler' = [handler EXCEPT ![r] = [@ EXCEPT !.st = "over", !.conn = 0, !.sid = 0,
                                                   !.cancelled = FALSE]]
    /\ running' = [running EXCEPT ![handler[r].sid] = None]
    /\ UNCHANGED <<linkVars, routerVars, callVars, down, up>>

----------------------------------------------------------------------------
CallerStep(r) == Open(r) \/ Send(r) \/ SendFails(r) \/ ReadHead(r) \/ Read(r) \/ CancelSent(r)
CallerGone(r) == Expire(r) \/ Leave(r) \/ Abort(r)
HandlerStep(r) == \/ Register(r) \/ Responds(r) \/ Sends(r) \/ Ends(r) \/ Breaks(r)
                  \/ WriteFails(r) \/ Unregister(r)
LinkStep(c) == \/ Dispatch(c) \/ RouterCloses(c) \/ AgentReads(c) \/ AgentLoses(c)
               \/ \E s \in Sids : SendCancel(c, s)

\* Nothing is under way and every session of the bounded run has been used.
Quiescent ==
    /\ ~MayLose /\ \A c \in Conns : wire[c] # "new"
    /\ \A r \in Requests : call[r].st \in Over \cup {"idle"} /\ handler[r].st \in {"none", "over"}
    /\ UNCHANGED vars

Next == \/ \E r \in Requests : Pick(r) \/ CallerStep(r) \/ CallerGone(r) \/ HandlerStep(r)
        \/ \E c \in Conns : LinkStep(c) \/ Connect(c) \/ Lose(c) \/ Revoke(c)
        \/ Quiescent

Spec == Init /\ [][Next]_vars

\* The event loop and the goroutines run: something that can go on does.  The
\* service ends every answer, and both sides find a lost connection (ping every
\* 20 s, read deadline 90 s).  No caller has to time out or be cancelled.
Progress == \/ \E r \in Requests : CallerStep(r) \/ HandlerStep(r)
            \/ \E c \in Conns : LinkStep(c)
Fairness == WF_vars(Progress)
FairSpec == Spec /\ Fairness
----------------------------------------------------------------------------
(* Correctness *)

\* What the caller sees of its request, whatever carries it.
Phase(st) == IF st \in {"idle", "picked"} THEN "none"
             ELSE IF st \in {"sending", "waiting"} THEN "asked"
             ELSE IF st = "reading" THEN "answered"
             ELSE IF st = "complete" THEN "complete" ELSE "failed"
Carried(r) == INSTANCE Exchange WITH
    phase <- Phase(call[r].st), got <- call[r].got,
    made <- handler[r].sent, eof <- handler[r].eof

\* A caller gets exactly what the service sent for its own request, in order,
\* and success only for a whole answer: no frame of another stream, of an old
\* session with the same ids or of a broken answer is ever taken for its own.
\* This is Carried(r)!Spec of every request r, in a form that TLC checks.
CarriesExchange == /\ \A r \in Requests : Carried(r)!Init
                   /\ [][\A r \in Requests : Carried(r)!Step]_vars

\* Every queued frame is the caller's own, and the first it gets is the head of
\* the answer or an error: _open never meets an "unexpected frame".
OwnFramesFromTheHead ==
    \A r \in Requests :
        /\ \A i \in 1..Len(inbox[r]) : inbox[r][i].of \in {r, None}
        /\ call[r].st = "waiting" /\ inbox[r] # <<>> => Head(inbox[r]).t \in {"RESP", "ERR"}

\* The agent never stops the work of a caller that is still there on a living
\* connection: a CANCEL, a late cleanup or the end of an old session that meets
\* a reused stream id does not reach it.
NoWrongCancel ==
    \A r \in Requests :
        handler[r].cancelled /\ handler[r].st # "over" /\ wire[handler[r].conn] = "up"
            => call[r].st \notin {"sending", "waiting", "reading"}

\* Every call ends, with the answer or an error, although no caller has to time
\* out: no END or ERR gets lost between streams, queues and sessions.
EveryCallEnds == \A r \in Requests : call[r].st = "picked" ~> call[r].st \in Over

\* When a step of Progress can be taken, by the guards of its actions.
CallerCanGo(r) ==
    LET c == call[r].conn
    IN  \/ call[r].st = "picked"
        \/ call[r].st = "sending" /\ (wire[c] = "lost" \/ (~closed[c] /\ Len(down[c]) < Window))
        \/ call[r].st \in {"waiting", "reading"} /\ inbox[r] # <<>>
        \/ call[r].st \in {"expired", "closing"} /\ Len(down[c]) < Window
HandlerCanGo(r) ==
    LET c == handler[r].conn
    IN  \/ handler[r].st \in {"spawned", "ending"}
        \/ /\ handler[r].st \in {"calling", "streaming"}
           /\ handler[r].cancelled \/ wire[c] = "lost" \/ Len(up[c]) < Window
LinkCanGo(c) ==
    \/ ~closed[c] /\ (up[c] # <<>> \/ wire[c] = "lost" \/ (wire[c] = "up" /\ current # c))
    \/ session = c /\ (down[c] # <<>> \/ wire[c] = "lost")
    \/ Len(down[c]) < Window /\ \E s \in Sids : <<c, s>> \in cancels
CanGoOn == (\E r \in Requests : CallerCanGo(r) \/ HandlerCanGo(r)) \/ \E c \in Conns : LinkCanGo(c)

\* Where nothing can go on by itself, nothing is left behind: no caller waits, the
\* router has no stream, the agent has no request, however calls, aborts and
\* sessions were interleaved.
NothingLeftBehind ==
    CanGoOn \/
        /\ \A r \in Requests : /\ call[r].st \in Over \cup {"idle"}
                               /\ handler[r].st \in {"none", "over"}
        /\ \A c \in Conns, s \in Sids : streams[c][s] = None
        /\ \A s \in Sids : running[s] = None
=============================================================================
