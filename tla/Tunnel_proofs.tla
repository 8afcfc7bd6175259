----------------------------- MODULE Tunnel_proofs -----------------------------
(* Proofs about Tunnel, for any number of requests, connections, losses and pieces *)
(* of data: what the frames of a request and the two ends of its stream have to do *)
(* with one another, although every step finds its way by the stream id alone.     *)
EXTENDS Tunnel, FiniteSetTheorems, SequenceTheorems, TLAPS

----------------------------------------------------------------------------
(* The inductive invariant *)

Unopened == {"idle", "picked"}
Holding == {"sending", "waiting", "expired", "reading", "closing"}
Live == {"sending", "waiting", "reading"}
Working == {"spawned", "calling", "streaming", "ending"}
Answered == {"streaming", "ending", "over"}

\* Only the agent's present session has a living connection.
LinksOK ==
    /\ \A c \in Conns : wire[c] = "up" => session = c
    /\ session # 0 => wire[session] # "new"
    /\ current # 0 => wire[current] # "new"
    /\ \A r \in Requests : /\ call[r].conn # 0 => wire[call[r].conn] # "new"
                           /\ handler[r].conn # 0 => wire[handler[r].conn] # "new"

(* The model forgets where a request went once it is over, although frames of it
   may still be on their way.  The invariant says that there is a way to remember:
   on and id, the connection and the stream id that each request got, 0 before. *)

\* A stream id of a connection belongs to one request; the next one is new.
OpenedOnce(on, id) ==
    \A r, q \in Requests : on[r] # 0 /\ on[r] = on[q] /\ id[r] = id[q] => r = q
Opened == {r \in Requests : call[r].st \notin Unopened}
NextIsNew(on, id) ==
    \A c \in Conns : Opened # Requests =>
        /\ nextId[c] <= 1 + Cardinality(Opened)
        /\ \A r \in Requests : on[r] = c => id[r] < nextId[c]
CallsOK(on, id) ==
    \A r \in Requests :
        /\ on[r] = 0 <=> id[r] = 0
        /\ call[r].st \in Unopened => on[r] = 0 /\ inbox[r] = <<>>
        /\ call[r].st \in Unopened \cup {"sending", "waiting"} => call[r].got = 0
        /\ call[r].st = "picked" => call[r].conn # 0
        /\ call[r].st \in Holding => on[r] # 0 /\ call[r].conn = on[r] /\ call[r].sid = id[r]
StreamsOK(on, id) ==
    \A c \in Conns, s \in Sids :
        streams[c][s] # None => on[streams[c][s]] = c /\ id[streams[c][s]] = s
IdsOK(on, id) == OpenedOnce(on, id) /\ NextIsNew(on, id) /\ CallsOK(on, id) /\ StreamsOK(on, id)

\* Stream s of connection c is of a request whose caller is gone.
Dead(on, id, c, s) == \E q \in Requests : on[q] = c /\ id[q] = s /\ call[q].st \notin Live

\* A CANCEL is for a caller that is gone, a REQ for a request not yet begun.
CancelsOK(on, id) == \A c \in Conns, s \in Sids : <<c, s>> \in cancels => Dead(on, id, c, s)
OrderOK(on, id, c, f) ==
    \/ /\ f.t = "REQ" /\ f.of \in Requests /\ on[f.of] = c /\ id[f.of] = f.sid
       /\ handler[f.of].st = "none" /\ call[f.of].st \notin Unopened \cup {"sending"}
    \/ f.t = "CANCEL" /\ f.sid \in Sids /\ Dead(on, id, c, f.sid)
    \/ f.t = "REVOKED"
DownOK(on, id) ==
    \A c \in Conns : \A i \in 1..Len(down[c]) :
        /\ OrderOK(on, id, c, down[c][i])
        /\ \A j \in 1..Len(down[c]) :
               i # j /\ down[c][i].t = "REQ" /\ down[c][j].t = "REQ" => down[c][i].of # down[c][j].of
HandlersOK(on, id) ==
    \A r \in Requests :
        /\ handler[r].st \in Working => on[r] # 0 /\ handler[r].conn = on[r] /\ handler[r].sid = id[r]
        /\ call[r].st \in Unopened \cup {"sending"} => handler[r].st = "none"
        /\ handler[r].st \in {"none", "spawned", "calling"} => handler[r].sent = 0
        /\ handler[r].st \in {"none", "spawned", "over"} => ~handler[r].cancelled
        /\ handler[r].eof => handler[r].st \in {"ending", "over"}
RunningOK ==
    \A s \in Sids : running[s] # None =>
        /\ handler[running[s]].st \in {"calling", "streaming", "ending"}
        /\ handler[running[s]].sid = s
\* The work that was cancelled is of a lost connection or of a caller that is gone.
CancelledOK == \A r \in Requests : handler[r].cancelled =>
                   wire[handler[r].conn] = "lost" \/ call[r].st \notin Live
WorkOK(on, id) == /\ CancelsOK(on, id) /\ DownOK(on, id) /\ HandlersOK(on, id)
                  /\ RunningOK /\ CancelledOK

\* The place of a frame in the answer to its request: the head, data, the end.
Place(f, sent) == IF f.t = "RESP" THEN 0 ELSE IF f.t = "DATA" THEN f.n ELSE sent + 1
Produced(f) ==
    /\ f.of \in Requests /\ handler[f.of].st \in Answered
    /\ \/ f.t = "RESP"
       \/ f.t = "DATA" /\ f.n \in 1..handler[f.of].sent
       \/ f.t = "END" /\ handler[f.of].eof
       \/ f.t = "ERR"
UpOK(on, id) ==
    \A c \in Conns : \A i \in 1..Len(up[c]) :
        Produced(up[c][i]) /\ on[up[c][i].of] = c /\ id[up[c][i].of] = up[c][i].sid

\* The place that the caller reads next, and the one that its queue waits for.
Reads(r) == IF call[r].st = "reading" THEN call[r].got + 1 ELSE 0
Due(r) == Reads(r) + Len(inbox[r])
Seated(f, r, place) ==
    f.t = "ERR" \/ (f.of = r /\ Produced(f) /\ Place(f, handler[r].sent) = place)
QueueOK(r) ==
    /\ \A i \in 1..Len(inbox[r]) : inbox[r][i].of \in {r, None}
    /\ call[r].st = "reading" => handler[r].st \in Answered
    /\ call[r].st \in Live => \A i \in 1..Len(inbox[r]) : Seated(inbox[r][i], r, Reads(r) + i - 1)
InboxOK == \A r \in Requests : QueueOK(r)

\* The router still leads the stream's frames to its caller.
Attached(on, id, r) == on[r] # 0 /\ streams[on[r]][id[r]] = r /\ call[r].st \in Live
Piece(f, r) == f.of = r /\ f.t # "ERR"
\* The pieces in a connection follow the queue and one another without a gap, up
\* to the last that was made.
Follow(u, r, sent, due) ==
    \A i \in 1..Len(u) : Piece(u[i], r) =>
        /\ Place(u[i], sent) >= due
        /\ \/ Place(u[i], sent) = due
           \/ \E j \in 1..(i - 1) : Piece(u[j], r) /\ Place(u[j], sent) = Place(u[i], sent) - 1
        /\ \A j \in 1..(i - 1) : Piece(u[j], r) => Place(u[j], sent) < Place(u[i], sent)
Reach(u, r, sent, due) ==
    due = sent + 1 \/ \E j \in 1..Len(u) : Piece(u[j], r) /\ Place(u[j], sent) = sent
NoGap(on, r) ==
    /\ \A i \in 1..Len(inbox[r]) : inbox[r][i].t # "ERR"
    /\ Follow(up[on[r]], r, handler[r].sent, Due(r))
    /\ wire[on[r]] = "up" /\ handler[r].st = "streaming" =>
           Reach(up[on[r]], r, handler[r].sent, Due(r))
AnswersOK(on, id) == /\ UpOK(on, id) /\ InboxOK
                     /\ \A r \in Requests : Attached(on, id, r) => NoGap(on, r)

Remembers(on, id) == IdsOK(on, id) /\ WorkOK(on, id) /\ AnswersOK(on, id)
Places == [Requests -> Conns \cup {0}]
Ids == [Requests -> Sids \cup {0}]
IInv == TypeOK /\ LinksOK /\ \E on \in Places, id \in Ids : Remembers(on, id)
----------------------------------------------------------------------------
(* Helpers *)

LEMMA Constants ==
    /\ None \notin Requests /\ Conns \subseteq Nat \ {0} /\ Sids \subseteq Nat \ {0}
    /\ 1 \in Sids /\ SidLimit \in Nat \ {0}
BY NoneAssumption, BoundAssumption DEF Conns, Sids

LEMMA FrameType ==
    ASSUME NEW t \in {"REQ", "CANCEL", "REVOKED", "RESP", "DATA", "END", "ERR"},
           NEW s \in Sids \cup {0}, NEW r \in Requests \cup {None}, NEW n \in Nat
    PROVE  /\ Frame(t, s, r, n) \in Frames
           /\ Frame(t, s, r, n).t = t /\ Frame(t, s, r, n).sid = s
           /\ Frame(t, s, r, n).of = r /\ Frame(t, s, r, n).n = n
BY DEF Frame, Frames

\* What is written is behind what was there, or lost.
LEMMA WriteFacts ==
    ASSUME NEW ch \in [Conns -> Seq(Frames)], NEW ch2, NEW c \in Conns, NEW f \in Frames,
           ch2 = Written(ch, c, f)
    PROVE  /\ ch2 \in [Conns -> Seq(Frames)]
           /\ \A d \in Conns : ch2[d] = ch[d] \/ (d = c /\ wire[c] = "up" /\ ch2[d] = Append(ch[d], f))
           /\ wire[c] = "up" => ch2[c] = Append(ch[c], f)
           /\ wire[c] # "up" => ch2 = ch
<1>1. CASE wire[c] = "up"
  <2>1. ch2 = [ch EXCEPT ![c] = Append(@, f)]
    BY <1>1 DEF Written
  <2>2. Append(ch[c], f) \in Seq(Frames)
    OBVIOUS
  <2>. QED BY <1>1, <2>1, <2>2
<1>2. CASE wire[c] # "up"
  BY <1>2 DEF Written
<1>. QED BY <1>1, <1>2

LEMMA AppendFacts ==
    ASSUME NEW S, NEW u \in Seq(S), NEW f \in S
    PROVE  /\ Append(u, f) \in Seq(S)
           /\ Len(Append(u, f)) = Len(u) + 1 /\ Len(u) \in Nat
           /\ \A i \in 1..Len(u) : Append(u, f)[i] = u[i]
           /\ Append(u, f)[Len(u) + 1] = f
OBVIOUS

LEMMA TailFacts ==
    ASSUME NEW S, NEW u \in Seq(S), u # <<>>
    PROVE  /\ Tail(u) \in Seq(S)
           /\ Len(Tail(u)) = Len(u) - 1 /\ Len(u) \in Nat \ {0}
           /\ \A i \in 1..Len(Tail(u)) : Tail(u)[i] = u[i + 1]
           /\ Head(u) = u[1] /\ Head(u) \in S
OBVIOUS

----------------------------------------------------------------------------
(* Types *)

LEMMA QueueTypes ==
    ASSUME TypeOK, NEW rs, NEW f \in Frames, Queue(rs, f)
    PROVE  inbox' \in [Requests -> Seq(Frames)]
<1>1. \A r \in Requests : inbox[r] \in Seq(Frames) /\ Append(inbox[r], f) \in Seq(Frames)
  BY DEF TypeOK
<1>. QED BY <1>1 DEF Queue

LEMMA CloseTypes ==
    ASSUME TypeOK, NEW c \in Conns, CloseAll(c)
    PROVE  /\ inbox' \in [Requests -> Seq(Frames)]
           /\ streams' \in [Conns -> [Sids -> Requests \cup {None}]]
<1>1. Frame("ERR", 0, None, 0) \in Frames
  BY FrameType
<1>2. inbox' \in [Requests -> Seq(Frames)]
  BY <1>1, QueueTypes DEF CloseAll
<1>3. streams' \in [Conns -> [Sids -> Requests \cup {None}]]
  BY DEF TypeOK, CloseAll
<1>. QED BY <1>2, <1>3

CallRecord == [st : CallStates, conn : Conns \cup {0}, sid : Sids \cup {0}, got : Nat]
HandlerRecord == [st : HandlerStates, conn : Conns \cup {0}, sid : Sids \cup {0}, sent : Nat,
                  eof : BOOLEAN, cancelled : BOOLEAN]

LEMMA CallUpdates ==
    ASSUME NEW x \in CallRecord, NEW st \in CallStates, NEW c \in Conns \cup {0},
           NEW s \in Sids \cup {0}
    PROVE  /\ [x EXCEPT !.st = st] \in CallRecord
           /\ [x EXCEPT !.st = st, !.conn = c] \in CallRecord
           /\ [x EXCEPT !.st = st, !.sid = s] \in CallRecord
           /\ [x EXCEPT !.st = st, !.conn = c, !.sid = s] \in CallRecord
           /\ [x EXCEPT !.got = @ + 1] \in CallRecord
<1>1. [x EXCEPT !.st = st] \in CallRecord
  BY DEF CallRecord
<1>2. [[x EXCEPT !.st = st] EXCEPT !.conn = c] \in CallRecord
  BY <1>1 DEF CallRecord
<1>3. [[x EXCEPT !.st = st] EXCEPT !.sid = s] \in CallRecord
  BY <1>1 DEF CallRecord
<1>4. [[[x EXCEPT !.st = st] EXCEPT !.conn = c] EXCEPT !.sid = s] \in CallRecord
  BY <1>2 DEF CallRecord
<1>5. [x EXCEPT !.got = @ + 1] \in CallRecord
  BY x.got + 1 \in Nat DEF CallRecord
<1>. QED BY <1>1, <1>2, <1>3, <1>4, <1>5

\* Whoever is under way is somewhere.
Sited ==
    /\ \A r \in Requests : call[r].st \in Holding \cup {"picked"} => call[r].conn # 0
    /\ \A r \in Requests : call[r].st \in Holding => call[r].sid # 0
    /\ \A r \in Requests : handler[r].st \in Working => handler[r].conn # 0 /\ handler[r].sid # 0

LEMMA CallerTypes ==
    ASSUME TypeOK, Sited, NEW r \in Requests,
           \/ Pick(r) \/ Open(r) \/ Send(r) \/ SendFails(r) \/ ReadHead(r) \/ Read(r)
           \/ CancelSent(r) \/ Expire(r) \/ Leave(r) \/ Abort(r)
    PROVE  TypeOK'
<1>1. /\ call \in [Requests -> CallRecord] /\ inbox \in [Requests -> Seq(Frames)]
      /\ nextId \in [Conns -> Sids] /\ streams \in [Conns -> [Sids -> Requests \cup {None}]]
      /\ down \in [Conns -> Seq(Frames)]
  BY DEF TypeOK, CallRecord
<1>0. /\ call[r] \in CallRecord
      /\ call[r].st \in Holding \cup {"picked"} => call[r].conn \in Conns
      /\ call[r].st \in Holding => call[r].sid \in Sids
  BY <1>1 DEF Sited, CallRecord, Holding
<1>2. ASSUME NEW st \in CallStates, CallIs(r, st) PROVE call' \in [Requests -> CallRecord]
  BY <1>1, <1>2 DEF CallIs, CallRecord
<1>3. ASSUME NEW st \in CallStates, CallEnds(r, st)
      PROVE  call' \in [Requests -> CallRecord] /\ inbox' \in [Requests -> Seq(Frames)]
  <2>1. [call[r] EXCEPT !.st = st, !.conn = 0, !.sid = 0] \in CallRecord
    BY <1>0, CallUpdates
  <2>2. call' = [call EXCEPT ![r] = [call[r] EXCEPT !.st = st, !.conn = 0, !.sid = 0]]
    BY <1>1, <1>3 DEF CallEnds, CallRecord
  <2>. QED BY <1>1, <1>3, <2>1, <2>2 DEF CallEnds
<1>4. call[r].st \in Holding /\ Pop(r) => streams' \in [Conns -> [Sids -> Requests \cup {None}]]
  <2>. SUFFICES ASSUME call[r].st \in Holding, Pop(r)
                PROVE  streams' \in [Conns -> [Sids -> Requests \cup {None}]]
    OBVIOUS
  <2>1. [streams[call[r].conn] EXCEPT ![call[r].sid] = None] \in [Sids -> Requests \cup {None}]
    BY <1>0, <1>1
  <2>. QED BY <1>1, <2>1 DEF Pop
<1>5. inbox[r] # <<>> => [inbox EXCEPT ![r] = Tail(@)] \in [Requests -> Seq(Frames)]
  BY <1>1
<1>6. ASSUME NEW c \in Conns, NEW f \in Frames, ToAgent(c, f)
      PROVE  down' \in [Conns -> Seq(Frames)]
  BY <1>1, <1>6, WriteFacts DEF ToAgent
<1>7. call' \in [Requests -> CallRecord] /\ inbox' \in [Requests -> Seq(Frames)]
  <2>1. CASE Pick(r)
    <3>1. current \in Conns
      BY <2>1 DEF Pick, TypeOK
    <3>2. [call[r] EXCEPT !.st = "picked", !.conn = current] \in CallRecord
      BY <1>0, <3>1, CallUpdates DEF CallStates
    <3>3. call' = [call EXCEPT ![r] = [call[r] EXCEPT !.st = "picked", !.conn = current]]
      BY <1>1, <2>1 DEF Pick, CallRecord
    <3>. QED BY <1>1, <2>1, <3>2, <3>3 DEF Pick
  <2>2. CASE Open(r)
    <3>1. nextId[call[r].conn] \in Sids
      BY <1>0, <1>1, <2>2 DEF Open
    <3>2. [call[r] EXCEPT !.st = "sending", !.sid = nextId[call[r].conn]] \in CallRecord
      BY <1>0, <3>1, CallUpdates DEF CallStates
    <3>3. call' = [call EXCEPT ![r] = [call[r] EXCEPT !.st = "sending", !.sid = nextId[call[r].conn]]]
      BY <1>1, <2>2 DEF Open, CallRecord
    <3>. QED BY <1>1, <2>2, <3>2, <3>3 DEF Open
  <2>3. CASE Send(r) \/ Expire(r) \/ Leave(r)
    BY <1>1, <1>2, <2>3 DEF Send, Expire, Leave, CallStates
  <2>4. CASE SendFails(r) \/ CancelSent(r) \/ Abort(r)
    BY <1>3, <2>4 DEF SendFails, CancelSent, Abort, CallStates
  <2>5. CASE ReadHead(r)
    BY <1>2, <1>3, <1>5, <2>5 DEF ReadHead, CallStates
  <2>6. CASE Read(r)
    <3>1. [call EXCEPT ![r].got = @ + 1] \in [Requests -> CallRecord]
      <4>1. [call[r] EXCEPT !.got = @ + 1] \in CallRecord
        BY <1>0, CallUpdates DEF CallRecord
      <4>2. [call EXCEPT ![r].got = @ + 1] = [call EXCEPT ![r] = [call[r] EXCEPT !.got = @ + 1]]
        BY <1>1
      <4>. QED BY <1>1, <4>1, <4>2
    <3>. QED BY <1>3, <1>5, <2>6, <3>1 DEF Read, CallStates
  <2>. QED BY <2>1, <2>2, <2>3, <2>4, <2>5, <2>6
<1>8. nextId' \in [Conns -> Sids] /\ streams' \in [Conns -> [Sids -> Requests \cup {None}]]
  <2>1. CASE Open(r)
    <3>1. \A c \in Conns : nextId[c] \in 1..SidLimit /\ SidLimit \in Nat \ {0}
      BY <1>1, BoundAssumption DEF Sids
    <3>2. \A c \in Conns : (nextId[c] % SidLimit) + 1 \in Sids
      BY <3>1 DEF Sids
    <3>. QED BY <1>1, <2>1, <3>2 DEF Open
  <2>2. CASE ~Open(r)
    BY <1>1, <1>4, <2>2 DEF Holding, Pick, Send, SendFails, ReadHead, Read, CancelSent, Expire, Leave, Abort, routerVars
  <2>. QED BY <2>1, <2>2
<1>9. cancels' \subseteq Conns \X Sids /\ down' \in [Conns -> Seq(Frames)]
  <2>1. CASE Send(r)
    <3>1. call[r].conn \in Conns /\ Frame("REQ", call[r].sid, r, 0) \in Frames
      BY <1>0, <2>1, FrameType DEF Send, Holding
    <3>. QED BY <1>6, <2>1, <3>1 DEF Send, TypeOK
  <2>2. CASE CancelSent(r)
    <3>1. call[r].conn \in Conns /\ Frame("CANCEL", call[r].sid, None, 0) \in Frames
      BY <1>0, <2>2, FrameType DEF CancelSent, Holding
    <3>. QED BY <1>6, <2>2, <3>1 DEF CancelSent, TypeOK
  <2>3. CASE Abort(r)
    BY <1>0, <2>3 DEF Abort, Holding, TypeOK
  <2>4. CASE Pick(r) \/ Open(r) \/ SendFails(r) \/ ReadHead(r) \/ Read(r) \/ Expire(r) \/ Leave(r)
    BY <2>4 DEF Pick, Open, SendFails, ReadHead, Read, Expire, Leave, TypeOK
  <2>. QED BY <2>1, <2>2, <2>3, <2>4
<1>10. UNCHANGED <<wire, current, closed, session, running, handler, up>>
  BY DEF Pick, Open, Send, SendFails, ReadHead, Read, CancelSent, Expire, Leave, Abort,
         linkVars, agentVars, ToAgent
<1>. QED BY <1>7, <1>8, <1>9, <1>10 DEF TypeOK, CallRecord

LEMMA HandlerUpdates ==
    ASSUME NEW x \in HandlerRecord, NEW st \in HandlerStates, NEW c \in Conns \cup {0},
           NEW s \in Sids \cup {0}
    PROVE  /\ [x EXCEPT !.st = st] \in HandlerRecord
           /\ [x EXCEPT !.st = st, !.conn = c, !.sid = s] \in HandlerRecord
           /\ [x EXCEPT !.sent = @ + 1] \in HandlerRecord
           /\ [x EXCEPT !.st = st, !.eof = TRUE] \in HandlerRecord
           /\ [x EXCEPT !.cancelled = TRUE] \in HandlerRecord
           /\ [x EXCEPT !.st = st, !.conn = 0, !.sid = 0, !.cancelled = FALSE] \in HandlerRecord
<1>1. [x EXCEPT !.st = st] \in HandlerRecord
  BY DEF HandlerRecord
<1>2. ASSUME NEW d \in Conns \cup {0} PROVE [[x EXCEPT !.st = st] EXCEPT !.conn = d] \in HandlerRecord
  BY <1>1 DEF HandlerRecord
<1>3. ASSUME NEW d \in Conns \cup {0}, NEW k \in Sids \cup {0}
      PROVE  [[[x EXCEPT !.st = st] EXCEPT !.conn = d] EXCEPT !.sid = k] \in HandlerRecord
  BY <1>2 DEF HandlerRecord
<1>4. [x EXCEPT !.sent = @ + 1] \in HandlerRecord
  BY x.sent + 1 \in Nat DEF HandlerRecord
<1>5. [[x EXCEPT !.st = st] EXCEPT !.eof = TRUE] \in HandlerRecord
  BY <1>1 DEF HandlerRecord
<1>6. [x EXCEPT !.cancelled = TRUE] \in HandlerRecord
  BY DEF HandlerRecord
<1>7. [[[[x EXCEPT !.st = st] EXCEPT !.conn = 0] EXCEPT !.sid = 0] EXCEPT !.cancelled = FALSE] \in HandlerRecord
  BY <1>3 DEF HandlerRecord
<1>. QED BY <1>1, <1>3, <1>4, <1>5, <1>6, <1>7

LEMMA HandlerTypes ==
    ASSUME TypeOK, Sited, NEW r \in Requests, HandlerStep(r)
    PROVE  TypeOK'
<1>1. /\ handler \in [Requests -> HandlerRecord] /\ handler[r] \in HandlerRecord
      /\ handler[r].st \in Working => handler[r].conn \in Conns /\ handler[r].sid \in Sids
      /\ running \in [Sids -> Requests \cup {None}] /\ up \in [Conns -> Seq(Frames)]
  BY DEF TypeOK, Sited, HandlerRecord
<1>2. ASSUME NEW x \in HandlerRecord, handler' = [handler EXCEPT ![r] = x]
      PROVE  handler' \in [Requests -> HandlerRecord]
  BY <1>1, <1>2
<1>3. ASSUME NEW st \in HandlerStates, HandlerIs(r, st) PROVE handler' \in [Requests -> HandlerRecord]
  <2>1. handler' = [handler EXCEPT ![r] = [handler[r] EXCEPT !.st = st]]
    BY <1>1, <1>3 DEF HandlerIs
  <2>. QED BY <1>1, <1>2, <2>1, HandlerUpdates
<1>4. ASSUME NEW t \in {"RESP", "DATA", "END", "ERR"}, NEW n \in Nat, handler[r].st \in Working,
             ToRouter(handler[r].conn, Frame(t, handler[r].sid, r, n))
      PROVE  up' \in [Conns -> Seq(Frames)]
  <2>1. ASSUME NEW c \in Conns, NEW f \in Frames, ToRouter(c, f) PROVE up' \in [Conns -> Seq(Frames)]
    BY <1>1, <2>1, WriteFacts DEF ToRouter
  <2>2. Frame(t, handler[r].sid, r, n) \in Frames
    BY <1>1, <1>4, FrameType
  <2>. QED BY <1>1, <1>4, <2>1, <2>2
<1>5. handler' \in [Requests -> HandlerRecord] /\ up' \in [Conns -> Seq(Frames)]
  <2>1. CASE Register(r)
    BY <1>1, <1>3, <2>1 DEF Register, HandlerStates
  <2>2. CASE Responds(r)
    BY <1>3, <1>4, <2>2 DEF Responds, HandlerStates, Working
  <2>3. CASE Sends(r)
    <3>1. handler' = [handler EXCEPT ![r] = [handler[r] EXCEPT !.sent = @ + 1]]
      BY <1>1, <2>3 DEF Sends
    <3>2. handler[r].sent + 1 \in Nat
      BY <1>1 DEF HandlerRecord
    <3>. QED BY <1>1, <1>2, <1>4, <2>3, <3>1, <3>2, HandlerUpdates DEF Sends, Working, HandlerStates
  <2>4. CASE Ends(r)
    <3>1. handler' = [handler EXCEPT ![r] = [handler[r] EXCEPT !.st = "ending", !.eof = TRUE]]
      BY <1>1, <2>4 DEF Ends, HandlerRecord
    <3>. QED BY <1>1, <1>2, <1>4, <2>4, <3>1, HandlerUpdates DEF Ends, Working, HandlerStates
  <2>5. CASE Breaks(r)
    BY <1>1, <1>3, <1>4, <2>5 DEF Breaks, HandlerStates, Working
  <2>6. CASE WriteFails(r)
    BY <1>1, <1>3, <2>6 DEF WriteFails, HandlerStates
  <2>7. CASE Unregister(r)
    BY <1>1, <1>2, <2>7, HandlerUpdates DEF Unregister, HandlerStates
  <2>. QED BY <2>1, <2>2, <2>3, <2>4, <2>5, <2>6, <2>7 DEF HandlerStep
<1>6. running' \in [Sids -> Requests \cup {None}]
  BY <1>1 DEF HandlerStep, Register, Responds, Sends, Ends, Breaks, WriteFails, Unregister
<1>7. UNCHANGED <<linkVars, routerVars, callVars, down>>
  BY DEF HandlerStep, Register, Responds, Sends, Ends, Breaks, WriteFails, Unregister, ToRouter
<1>. QED BY <1>5, <1>6, <1>7 DEF TypeOK, HandlerRecord, linkVars, routerVars, callVars

LEMMA LinkTypes ==
    ASSUME TypeOK, NEW c \in Conns, LinkStep(c) \/ Connect(c) \/ Lose(c) \/ Revoke(c)
    PROVE  TypeOK'
<1>1. /\ handler \in [Requests -> HandlerRecord] /\ up \in [Conns -> Seq(Frames)]
      /\ down \in [Conns -> Seq(Frames)] /\ down[c] \in Seq(Frames) /\ up[c] \in Seq(Frames)
      /\ wire \in [Conns -> {"new", "up", "lost"}] /\ closed \in [Conns -> BOOLEAN]
  BY DEF TypeOK, HandlerRecord
<1>2. ASSUME NEW f \in Frames, ToAgent(c, f) PROVE down' \in [Conns -> Seq(Frames)]
  BY <1>1, <1>2, WriteFacts DEF ToAgent
<1>3. CASE Dispatch(c)
  <2>1. Head(up[c]) \in Frames /\ up' \in [Conns -> Seq(Frames)]
    BY <1>1, <1>3, TailFacts DEF Dispatch
  <2>2. inbox' \in [Requests -> Seq(Frames)] /\ streams' \in [Conns -> [Sids -> Requests \cup {None}]]
    <3>1. CASE streams[c][Head(up[c]).sid] = None
      BY <1>3, <3>1 DEF Dispatch, TypeOK
    <3>2. CASE streams[c][Head(up[c]).sid] # None
      <4>1. Queue({streams[c][Head(up[c]).sid]}, Head(up[c]))
        BY <1>3, <3>2 DEF Dispatch
      <4>2. \/ streams' = streams
            \/ streams' = [streams EXCEPT ![c][Head(up[c]).sid] = None]
        BY <1>3, <3>2 DEF Dispatch
      <4>3. streams' \in [Conns -> [Sids -> Requests \cup {None}]]
        <5>1. [streams EXCEPT ![c][Head(up[c]).sid] = None] \in [Conns -> [Sids -> Requests \cup {None}]]
          BY DEF TypeOK
        <5>. QED BY <4>2, <5>1 DEF TypeOK
      <4>. QED BY <2>1, <4>1, <4>3, QueueTypes
    <3>. QED BY <3>1, <3>2
  <2>. QED BY <1>3, <2>1, <2>2 DEF Dispatch, TypeOK, linkVars, agentVars
<1>4. CASE RouterCloses(c)
  BY <1>1, <1>4, CloseTypes DEF RouterCloses, TypeOK, agentVars
<1>5. CASE AgentReads(c)
  <2>1. Head(down[c]) \in Frames /\ [down EXCEPT ![c] = Tail(@)] \in [Conns -> Seq(Frames)]
    BY <1>1, <1>5, TailFacts DEF AgentReads
  <2>2. wire' \in [Conns -> {"new", "up", "lost"}] /\ session' \in Conns \cup {0}
        /\ down' \in [Conns -> Seq(Frames)]
    <3>1. [down EXCEPT ![c] = <<>>] \in [Conns -> Seq(Frames)]
      BY <1>1
    <3>. QED BY <1>1, <1>5, <2>1, <3>1 DEF AgentReads, TypeOK
  <2>3. handler' \in [Requests -> HandlerRecord]
    <3>1. CASE Head(down[c]).t = "REQ"
      <4>. DEFINE f == Head(down[c])
                  x == [handler[f.of] EXCEPT !.st = "spawned", !.conn = c, !.sid = f.sid]
      <4>1. handler' = [handler EXCEPT ![f.of] = x]
        BY <1>1, <1>5, <3>1 DEF AgentReads, HandlerRecord
      <4>2. f.of \in Requests => x \in HandlerRecord
        <5>1. f.sid \in Sids \cup {0}
          BY <2>1 DEF Frames
        <5>. QED BY <1>1, <5>1, HandlerUpdates DEF HandlerStates
      <4>. HIDE DEF x
      <4>. QED BY <1>1, <4>1, <4>2
    <3>2. CASE Head(down[c]).t = "CANCEL"
      <4>1. \A r \in Requests : [handler[r] EXCEPT !.cancelled = TRUE] \in HandlerRecord
        BY <1>1, HandlerUpdates DEF HandlerStates
      <4>. QED BY <1>1, <1>5, <3>2, <4>1 DEF AgentReads
    <3>. QED BY <1>1, <1>5, <3>1, <3>2 DEF AgentReads
  <2>. QED BY <1>5, <2>2, <2>3 DEF AgentReads, TypeOK, HandlerRecord, routerVars, callVars
<1>6. CASE AgentLoses(c)
  <2>1. \A r \in Requests : [handler[r] EXCEPT !.cancelled = TRUE] \in HandlerRecord
    BY <1>1, HandlerUpdates DEF HandlerStates
  <2>2. handler' \in [Requests -> HandlerRecord] /\ down' \in [Conns -> Seq(Frames)]
    BY <1>1, <1>6, <2>1 DEF AgentLoses
  <2>. QED BY <1>6, <2>2 DEF AgentLoses, TypeOK, HandlerRecord, routerVars, callVars
<1>7. ASSUME NEW s \in Sids, SendCancel(c, s) PROVE TypeOK'
  <2>1. down' \in [Conns -> Seq(Frames)] /\ up' = up
    BY <1>2, <1>7, FrameType DEF SendCancel, ToAgent
  <2>. QED BY <1>7, <2>1 DEF SendCancel, TypeOK, linkVars, routerVars, agentVars
<1>8. CASE Connect(c)
  <2>1. /\ wire' \in [Conns -> {"new", "up", "lost"}] /\ closed' \in [Conns -> BOOLEAN]
        /\ session' = c /\ current' = c
    BY <1>1, <1>8 DEF Connect
  <2>2. up' \in [Conns -> Seq(Frames)]
    <3>1. [up EXCEPT ![current] = <<>>] \in [Conns -> Seq(Frames)]
      BY <1>1, <<>> \in Seq(Frames)
    <3>. QED BY <1>1, <1>8, <3>1 DEF Connect
  <2>3. inbox' \in [Requests -> Seq(Frames)] /\ streams' \in [Conns -> [Sids -> Requests \cup {None}]]
    BY <1>8, CloseTypes DEF Connect, TypeOK
  <2>. QED BY <1>8, <2>1, <2>2, <2>3 DEF Connect, TypeOK, agentVars
<1>9. CASE Lose(c)
  BY <1>1, <1>9 DEF Lose, TypeOK, routerVars, callVars, agentVars
<1>10. CASE Revoke(c)
  <2>1. Frame("REVOKED", 0, None, 0) \in Frames
    BY FrameType
  <2>2. down' \in [Conns -> Seq(Frames)] /\ up' = up
    BY <1>2, <1>10, <2>1 DEF Revoke, ToAgent
  <2>. QED BY <1>10, <2>2 DEF Revoke, TypeOK, routerVars, callVars, agentVars
<1>. QED BY <1>3, <1>4, <1>5, <1>6, <1>7, <1>8, <1>9, <1>10 DEF LinkStep

LEMMA TypeKept ==
    ASSUME TypeOK, Sited, [Next]_vars
    PROVE  TypeOK'
<1>1. CASE UNCHANGED vars
  BY <1>1 DEF TypeOK, vars, linkVars, routerVars, callVars, agentVars
<1>. QED BY <1>1, CallerTypes, HandlerTypes, LinkTypes DEF Next, CallerStep, CallerGone, Quiescent

----------------------------------------------------------------------------
(* What the steps do to connections, calls and handlers *)

LEMMA CallerFrame ==
    ASSUME NEW r \in Requests, Pick(r) \/ CallerStep(r) \/ CallerGone(r)
    PROVE  UNCHANGED <<wire, current, closed, session, running, handler, up>>
BY DEF Pick, CallerStep, Open, Send, SendFails, ReadHead, Read, CancelSent, CallerGone, Expire,
       Leave, Abort, ToAgent, linkVars, agentVars

LEMMA HandlerFrame ==
    ASSUME NEW r \in Requests, HandlerStep(r)
    PROVE  UNCHANGED <<wire, current, closed, session, nextId, streams, call, inbox, cancels, down>>
BY DEF HandlerStep, Register, Responds, Sends, Ends, Breaks, WriteFails, Unregister, ToRouter,
       linkVars, routerVars, callVars

LEMMA LinkFrame ==
    ASSUME NEW c \in Conns, LinkStep(c) \/ Connect(c) \/ Lose(c) \/ Revoke(c)
    PROVE  /\ UNCHANGED <<nextId, call>>
           /\ AgentReads(c) \/ AgentLoses(c) \/ UNCHANGED <<handler, running>>
BY DEF LinkStep, Dispatch, RouterCloses, AgentReads, AgentLoses, SendCancel, Connect, Lose, Revoke,
       routerVars, callVars, agentVars

\* Of every step: a caller's, a handler's, one of a connection, or none.
LEMMA Steps ==
    ASSUME [Next]_vars
    PROVE  \/ \E r \in Requests : Pick(r) \/ CallerStep(r) \/ CallerGone(r)
           \/ \E r \in Requests : HandlerStep(r)
           \/ \E c \in Conns : LinkStep(c) \/ Connect(c) \/ Lose(c) \/ Revoke(c)
           \/ UNCHANGED <<wire, current, closed, nextId, streams, call, inbox, cancels, session,
                          running, handler, down, up>>
BY DEF Next, Quiescent, vars, linkVars, routerVars, callVars, agentVars

LEMMA CallEffects ==
    ASSUME TypeOK, NEW r \in Requests, NEW st
    PROVE  /\ CallIs(r, st) \/ CallEnds(r, st) =>
                  /\ \A q \in Requests : q # r => call'[q] = call[q]
                  /\ call'[r].st = st /\ call'[r].got = call[r].got
           /\ CallIs(r, st) => call'[r].conn = call[r].conn /\ call'[r].sid = call[r].sid
           /\ CallEnds(r, st) => /\ call'[r].conn = 0 /\ call'[r].sid = 0 /\ inbox'[r] = <<>>
                                 /\ \A q \in Requests : q # r => inbox'[q] = inbox[q]
<1>1. call \in [Requests -> CallRecord] /\ inbox \in [Requests -> Seq(Frames)]
  BY DEF TypeOK, CallRecord
<1>2. ASSUME CallIs(r, st)
      PROVE  /\ \A q \in Requests : q # r => call'[q] = call[q]
             /\ call'[r].st = st /\ call'[r].got = call[r].got
             /\ call'[r].conn = call[r].conn /\ call'[r].sid = call[r].sid
  <2>1. call' = [call EXCEPT ![r] = [call[r] EXCEPT !.st = st]]
    BY <1>1, <1>2 DEF CallIs, CallRecord
  <2>2. call'[r] = [call[r] EXCEPT !.st = st] /\ \A q \in Requests : q # r => call'[q] = call[q]
    BY <1>1, <2>1
  <2>3. call[r] \in CallRecord
    BY <1>1
  <2>. QED BY <2>2, <2>3 DEF CallRecord
<1>3. ASSUME CallEnds(r, st)
      PROVE  /\ \A q \in Requests : q # r => call'[q] = call[q]
             /\ call'[r].st = st /\ call'[r].got = call[r].got
             /\ call'[r].conn = 0 /\ call'[r].sid = 0 /\ inbox'[r] = <<>>
             /\ \A q \in Requests : q # r => inbox'[q] = inbox[q]
  <2>1. call' = [call EXCEPT ![r] = [call[r] EXCEPT !.st = st, !.conn = 0, !.sid = 0]]
    BY <1>1, <1>3 DEF CallEnds, CallRecord
  <2>2. call'[r] = [call[r] EXCEPT !.st = st, !.conn = 0, !.sid = 0]
    BY <1>1, <2>1
  <2>3. call[r] \in CallRecord
    BY <1>1
  <2>4. call'[r].st = st /\ call'[r].got = call[r].got /\ call'[r].conn = 0 /\ call'[r].sid = 0
    BY <2>2, <2>3 DEF CallRecord
  <2>5. \A q \in Requests : q # r => call'[q] = call[q]
    BY <1>1, <2>1
  <2>6. inbox'[r] = <<>> /\ \A q \in Requests : q # r => inbox'[q] = inbox[q]
    BY <1>1, <1>3 DEF CallEnds
  <2>. QED BY <2>4, <2>5, <2>6
<1>. QED BY <1>2, <1>3

\* What the handler of r becomes, step by step.
LEMMA HandlerEffects ==
    ASSUME TypeOK, NEW r \in Requests
    PROVE  /\ HandlerStep(r) => \A q \in Requests : q # r => handler'[q] = handler[q]
           /\ HandlerStep(r) /\ ~Unregister(r) =>
                  /\ handler'[r].conn = handler[r].conn /\ handler'[r].sid = handler[r].sid
                  /\ handler'[r].cancelled = handler[r].cancelled
           /\ HandlerStep(r) /\ ~Sends(r) => handler'[r].sent = handler[r].sent
           /\ HandlerStep(r) /\ ~Ends(r) => handler'[r].eof = handler[r].eof
           /\ Register(r) => handler[r].st = "spawned" /\ handler'[r].st = "calling"
           /\ Responds(r) => handler[r].st = "calling" /\ handler'[r].st = "streaming"
           /\ Sends(r) => /\ handler[r].st = "streaming" /\ handler'[r].st = "streaming"
                          /\ handler'[r].sent = handler[r].sent + 1
           /\ Ends(r) => handler[r].st = "streaming" /\ handler'[r].st = "ending" /\ handler'[r].eof
           /\ Breaks(r) \/ WriteFails(r) =>
                  handler[r].st \in {"calling", "streaming"} /\ handler'[r].st = "ending"
           /\ Unregister(r) => /\ handler[r].st = "ending" /\ handler'[r].st = "over"
                               /\ handler'[r].conn = 0 /\ ~handler'[r].cancelled
<1>1. handler \in [Requests -> HandlerRecord] /\ handler[r] \in HandlerRecord
  BY DEF TypeOK, HandlerRecord
<1>2. ASSUME NEW st, HandlerIs(r, st)
      PROVE  /\ \A q \in Requests : q # r => handler'[q] = handler[q]
             /\ handler'[r].conn = handler[r].conn /\ handler'[r].sid = handler[r].sid
             /\ handler'[r].cancelled = handler[r].cancelled
             /\ handler'[r].sent = handler[r].sent /\ handler'[r].eof = handler[r].eof
             /\ handler'[r].st = st
  BY <1>1, <1>2 DEF HandlerIs, HandlerRecord
<1>3. ASSUME Sends(r)
      PROVE  /\ \A q \in Requests : q # r => handler'[q] = handler[q]
             /\ handler'[r].conn = handler[r].conn /\ handler'[r].sid = handler[r].sid
             /\ handler'[r].cancelled = handler[r].cancelled
             /\ handler'[r].sent = handler[r].sent + 1 /\ handler'[r].eof = handler[r].eof
             /\ handler'[r].st = handler[r].st /\ handler[r].st = "streaming"
  BY <1>1, <1>3 DEF Sends, HandlerRecord
<1>4. ASSUME Ends(r)
      PROVE  /\ \A q \in Requests : q # r => handler'[q] = handler[q]
             /\ handler'[r].conn = handler[r].conn /\ handler'[r].sid = handler[r].sid
             /\ handler'[r].cancelled = handler[r].cancelled
             /\ handler'[r].sent = handler[r].sent /\ handler'[r].eof
             /\ handler'[r].st = "ending" /\ handler[r].st = "streaming"
  BY <1>1, <1>4 DEF Ends, HandlerRecord
<1>5. ASSUME Unregister(r)
      PROVE  /\ \A q \in Requests : q # r => handler'[q] = handler[q]
             /\ handler'[r].conn = 0 /\ ~handler'[r].cancelled
             /\ handler'[r].sent = handler[r].sent /\ handler'[r].eof = handler[r].eof
             /\ handler'[r].st = "over" /\ handler[r].st = "ending"
  <2>1. handler'[r] = [handler[r] EXCEPT !.st = "over", !.conn = 0, !.sid = 0, !.cancelled = FALSE]
    BY <1>1, <1>5 DEF Unregister
  <2>2. handler[r].st = "ending" /\ \A q \in Requests : q # r => handler'[q] = handler[q]
    BY <1>1, <1>5 DEF Unregister
  <2>. QED BY <1>1, <2>1, <2>2 DEF HandlerRecord
<1>6. Register(r) => handler[r].st = "spawned" /\ HandlerIs(r, "calling")
  BY DEF Register
<1>7. Responds(r) => handler[r].st = "calling" /\ HandlerIs(r, "streaming")
  BY DEF Responds
<1>8. Breaks(r) \/ WriteFails(r) => handler[r].st \in {"calling", "streaming"} /\ HandlerIs(r, "ending")
  BY DEF Breaks, WriteFails
<1>9. HandlerStep(r) => \A q \in Requests : q # r => handler'[q] = handler[q]
  BY <1>2, <1>3, <1>4, <1>5, <1>6, <1>7, <1>8 DEF HandlerStep
<1>10. HandlerStep(r) /\ ~Unregister(r) =>
           /\ handler'[r].conn = handler[r].conn /\ handler'[r].sid = handler[r].sid
           /\ handler'[r].cancelled = handler[r].cancelled
  BY <1>2, <1>3, <1>4, <1>6, <1>7, <1>8 DEF HandlerStep
<1>11. HandlerStep(r) /\ ~Sends(r) => handler'[r].sent = handler[r].sent
  BY <1>2, <1>4, <1>5, <1>6, <1>7, <1>8 DEF HandlerStep
<1>12. HandlerStep(r) /\ ~Ends(r) => handler'[r].eof = handler[r].eof
  BY <1>2, <1>3, <1>5, <1>6, <1>7, <1>8 DEF HandlerStep
<1>. QED BY <1>2, <1>3, <1>4, <1>5, <1>6, <1>7, <1>8, <1>9, <1>10, <1>11, <1>12

\* The call of r ends and keeps what it has read.
Ended(r) == /\ call'[r].st \in Over /\ call'[r].conn = 0 /\ call'[r].sid = 0 /\ inbox'[r] = <<>>
            /\ call'[r].got = call[r].got
SamePlace(r) == call'[r].conn = call[r].conn /\ call'[r].sid = call[r].sid

\* What the caller r becomes, step by step.
LEMMA CallerEffects ==
    ASSUME TypeOK, NEW r \in Requests
    PROVE  /\ Pick(r) \/ CallerStep(r) \/ CallerGone(r) =>
                  \A q \in Requests : q # r => call'[q] = call[q] /\ inbox'[q] = inbox[q]
           /\ Pick(r) => /\ call[r].st = "idle" /\ call'[r].st = "picked" /\ current # 0
                         /\ call'[r].conn = current /\ call'[r].got = call[r].got
                         /\ inbox'[r] = inbox[r]
           /\ Open(r) => /\ call[r].st = "picked" /\ call'[r].st = "sending"
                         /\ call'[r].conn = call[r].conn /\ call'[r].sid = nextId[call[r].conn]
                         /\ call'[r].got = call[r].got /\ inbox'[r] = inbox[r]
           /\ Send(r) => /\ call[r].st = "sending" /\ call'[r].st = "waiting" /\ SamePlace(r)
                         /\ call'[r].got = call[r].got /\ inbox'[r] = inbox[r]
           /\ SendFails(r) => call[r].st = "sending" /\ Ended(r)
           /\ ReadHead(r) => /\ call[r].st = "waiting" /\ inbox[r] # <<>>
                             /\ \/ Ended(r) /\ call'[r].st = "failed"
                                \/ /\ call'[r].st = "reading" /\ SamePlace(r) /\ call'[r].got = call[r].got
                                   /\ inbox[r][1].t = "RESP" /\ inbox'[r] = Tail(inbox[r])
           /\ Expire(r) => /\ call[r].st = "waiting" /\ call'[r].st = "expired" /\ SamePlace(r)
                           /\ call'[r].got = call[r].got /\ inbox'[r] = inbox[r]
           /\ Read(r) => /\ call[r].st = "reading" /\ inbox[r] # <<>>
                         /\ \/ Ended(r) /\ call'[r].st = "failed"
                            \/ Ended(r) /\ call'[r].st = "complete" /\ inbox[r][1].t = "END"
                            \/ /\ call'[r].st = "reading" /\ SamePlace(r) /\ call'[r].got = call[r].got + 1
                               /\ inbox[r][1].t = "DATA" /\ inbox'[r] = Tail(inbox[r])
           /\ Leave(r) => /\ call[r].st = "reading" /\ call'[r].st = "closing" /\ SamePlace(r)
                          /\ call'[r].got = call[r].got /\ inbox'[r] = inbox[r]
           /\ CancelSent(r) => call[r].st \in {"expired", "closing"} /\ Ended(r) /\ call'[r].st = "failed"
           /\ Abort(r) => /\ call[r].st \in {"picked", "sending", "waiting", "expired", "closing"}
                          /\ Ended(r) /\ (call[r].st # "closing" => call'[r].st = "failed")
                          /\ (call[r].st = "closing" => call'[r].st = "left")
<1>1. call \in [Requests -> CallRecord] /\ inbox \in [Requests -> Seq(Frames)] /\ call[r] \in CallRecord
      /\ inbox[r] \in Seq(Frames) /\ (inbox[r] # <<>> => Head(inbox[r]) = inbox[r][1])
  BY DEF TypeOK, CallRecord
<1>2. ASSUME NEW st \in Over, CallEnds(r, st)
      PROVE  /\ Ended(r) /\ call'[r].st = st
             /\ \A q \in Requests : q # r => call'[q] = call[q] /\ inbox'[q] = inbox[q]
  BY <1>2, CallEffects DEF Ended
<1>3. ASSUME NEW st, CallIs(r, st), inbox' = inbox
      PROVE  /\ call'[r].st = st /\ SamePlace(r) /\ call'[r].got = call[r].got /\ inbox'[r] = inbox[r]
             /\ \A q \in Requests : q # r => call'[q] = call[q] /\ inbox'[q] = inbox[q]
  BY <1>3, CallEffects DEF SamePlace
<1>4. ASSUME Pick(r)
      PROVE  /\ call[r].st = "idle" /\ call'[r].st = "picked" /\ current # 0
             /\ call'[r].conn = current /\ call'[r].got = call[r].got /\ inbox'[r] = inbox[r]
             /\ \A q \in Requests : q # r => call'[q] = call[q] /\ inbox'[q] = inbox[q]
  BY <1>1, <1>4 DEF Pick, CallRecord
<1>5. ASSUME Open(r)
      PROVE  /\ call[r].st = "picked" /\ call'[r].st = "sending"
             /\ call'[r].conn = call[r].conn /\ call'[r].sid = nextId[call[r].conn]
             /\ call'[r].got = call[r].got /\ inbox'[r] = inbox[r]
             /\ \A q \in Requests : q # r => call'[q] = call[q] /\ inbox'[q] = inbox[q]
  BY <1>1, <1>5 DEF Open, CallRecord
<1>6. Send(r) => call[r].st = "sending" /\ CallIs(r, "waiting") /\ inbox' = inbox
  BY DEF Send
<1>7. Expire(r) => call[r].st = "waiting" /\ CallIs(r, "expired") /\ inbox' = inbox
  BY DEF Expire
<1>8. Leave(r) => call[r].st = "reading" /\ CallIs(r, "closing") /\ inbox' = inbox
  BY DEF Leave
<1>9. SendFails(r) => call[r].st = "sending" /\ CallEnds(r, "failed")
  BY DEF SendFails
<1>10. CancelSent(r) => call[r].st \in {"expired", "closing"} /\ CallEnds(r, "failed")
  BY DEF CancelSent
<1>11. Abort(r) => /\ call[r].st \in {"picked", "sending", "waiting", "expired", "closing"}
                   /\ (call[r].st # "closing" => CallEnds(r, "failed"))
                   /\ (call[r].st = "closing" => CallEnds(r, "left"))
  BY DEF Abort
<1>12. {"failed", "left", "complete"} \subseteq Over
  BY DEF Over
<1>13. ASSUME ReadHead(r)
       PROVE  /\ call[r].st = "waiting" /\ inbox[r] # <<>>
              /\ \/ Ended(r) /\ call'[r].st = "failed"
                 \/ /\ call'[r].st = "reading" /\ SamePlace(r) /\ call'[r].got = call[r].got
                    /\ inbox[r][1].t = "RESP" /\ inbox'[r] = Tail(inbox[r])
              /\ \A q \in Requests : q # r => call'[q] = call[q] /\ inbox'[q] = inbox[q]
  <2>1. CASE Head(inbox[r]).t = "RESP"
    <3>1. CallIs(r, "reading") /\ inbox' = [inbox EXCEPT ![r] = Tail(@)] /\ call[r].st = "waiting"
          /\ inbox[r] # <<>>
      BY <1>13, <2>1 DEF ReadHead
    <3>2. inbox'[r] = Tail(inbox[r]) /\ \A q \in Requests : q # r => inbox'[q] = inbox[q]
      BY <1>1, <3>1
    <3>. QED BY <1>1, <2>1, <3>1, <3>2, CallEffects DEF SamePlace
  <2>2. CASE Head(inbox[r]).t # "RESP"
    BY <1>2, <1>12, <1>13, <2>2 DEF ReadHead
  <2>. QED BY <2>1, <2>2
<1>14. ASSUME Read(r)
       PROVE  /\ call[r].st = "reading" /\ inbox[r] # <<>>
              /\ \/ Ended(r) /\ call'[r].st = "failed"
                 \/ Ended(r) /\ call'[r].st = "complete" /\ inbox[r][1].t = "END"
                 \/ /\ call'[r].st = "reading" /\ SamePlace(r) /\ call'[r].got = call[r].got + 1
                    /\ inbox[r][1].t = "DATA" /\ inbox'[r] = Tail(inbox[r])
              /\ \A q \in Requests : q # r => call'[q] = call[q] /\ inbox'[q] = inbox[q]
  <2>1. CASE Head(inbox[r]).t = "DATA"
    <3>1. call' = [call EXCEPT ![r].got = @ + 1] /\ inbox' = [inbox EXCEPT ![r] = Tail(@)]
          /\ call[r].st = "reading" /\ inbox[r] # <<>>
      BY <1>14, <2>1 DEF Read
    <3>2. inbox'[r] = Tail(inbox[r]) /\ \A q \in Requests : q # r => inbox'[q] = inbox[q]
      BY <1>1, <3>1
    <3>3. /\ call'[r].st = call[r].st /\ call'[r].conn = call[r].conn /\ call'[r].sid = call[r].sid
          /\ call'[r].got = call[r].got + 1 /\ \A q \in Requests : q # r => call'[q] = call[q]
      BY <1>1, <3>1 DEF CallRecord
    <3>. QED BY <1>1, <2>1, <3>1, <3>2, <3>3 DEF SamePlace
  <2>2. CASE Head(inbox[r]).t = "END"
    BY <1>1, <1>2, <1>12, <1>14, <2>2 DEF Read
  <2>3. CASE Head(inbox[r]).t \notin {"DATA", "END"}
    BY <1>2, <1>12, <1>14, <2>3 DEF Read
  <2>. QED BY <2>1, <2>2, <2>3
<1>15. Pick(r) \/ CallerStep(r) \/ CallerGone(r) =>
           \A q \in Requests : q # r => call'[q] = call[q] /\ inbox'[q] = inbox[q]
  BY <1>2, <1>3, <1>4, <1>5, <1>6, <1>7, <1>8, <1>9, <1>10, <1>11, <1>12, <1>13, <1>14
     DEF CallerStep, CallerGone
<1>. QED BY <1>2, <1>3, <1>4, <1>5, <1>6, <1>7, <1>8, <1>9, <1>10, <1>11, <1>12, <1>13, <1>14, <1>15

\* What the agent's reader does to the handlers.
LEMMA ReadsEffects ==
    ASSUME TypeOK, NEW c \in Conns, AgentReads(c)
    PROVE  /\ down[c] # <<>> /\ 1 \in 1..Len(down[c]) /\ session = c /\ running' = running
           /\ \/ down[c][1].t = "REQ" /\ down' = [down EXCEPT ![c] = Tail(@)]
                 /\ \A q \in Requests :
                       IF q = down[c][1].of
                       THEN /\ handler'[q].st = "spawned" /\ handler'[q].conn = c
                            /\ handler'[q].sid = down[c][1].sid
                            /\ handler'[q].sent = handler[q].sent
                            /\ handler'[q].eof = handler[q].eof
                            /\ handler'[q].cancelled = handler[q].cancelled
                       ELSE handler'[q] = handler[q]
              \/ down[c][1].t = "CANCEL" /\ down' = [down EXCEPT ![c] = Tail(@)]
                 /\ \A q \in Requests :
                       /\ handler'[q].st = handler[q].st /\ handler'[q].conn = handler[q].conn
                       /\ handler'[q].sid = handler[q].sid /\ handler'[q].sent = handler[q].sent
                       /\ handler'[q].eof = handler[q].eof
                       /\ q # running[down[c][1].sid] => handler'[q] = handler[q]
              \/ handler' = handler /\ down' = [down EXCEPT ![c] = <<>>]
<1>1. handler \in [Requests -> HandlerRecord] /\ down \in [Conns -> Seq(Frames)]
      /\ \A q \in Requests : handler[q] \in HandlerRecord
  BY DEF TypeOK, HandlerRecord
<1>2. ASSUME NEW q \in Requests
      PROVE  /\ [handler[q] EXCEPT !.cancelled = TRUE].st = handler[q].st
             /\ [handler[q] EXCEPT !.cancelled = TRUE].conn = handler[q].conn
             /\ [handler[q] EXCEPT !.cancelled = TRUE].sid = handler[q].sid
             /\ [handler[q] EXCEPT !.cancelled = TRUE].sent = handler[q].sent
             /\ [handler[q] EXCEPT !.cancelled = TRUE].eof = handler[q].eof
  BY <1>1 DEF HandlerRecord
<1>3. down[c] # <<>> /\ 1 \in 1..Len(down[c]) /\ Head(down[c]) = down[c][1] /\ session = c
      /\ running' = running
  BY <1>1 DEF AgentReads
<1>4. CASE down[c][1].t = "REQ"
  <2>. DEFINE f == down[c][1]
  <2>1. handler' = [handler EXCEPT ![f.of].st = "spawned", ![f.of].conn = c, ![f.of].sid = f.sid]
        /\ down' = [down EXCEPT ![c] = Tail(@)]
    BY <1>3, <1>4 DEF AgentReads
  <2>. HIDE DEF f
  <2>2. handler' = [handler EXCEPT ![f.of] = [handler[f.of] EXCEPT !.st = "spawned", !.conn = c, !.sid = f.sid]]
    BY <1>1, <2>1 DEF HandlerRecord
  <2>3. ASSUME NEW q \in Requests, q = f.of
        PROVE  handler'[q] = [handler[q] EXCEPT !.st = "spawned", !.conn = c, !.sid = f.sid]
    BY <1>1, <2>2, <2>3
  <2>4. ASSUME NEW q \in Requests, q # f.of PROVE handler'[q] = handler[q]
    BY <1>1, <2>2, <2>4
  <2>5. ASSUME NEW q \in Requests, q = f.of
        PROVE  /\ handler'[q].st = "spawned" /\ handler'[q].conn = c
               /\ handler'[q].sid = f.sid /\ handler'[q].sent = handler[q].sent
               /\ handler'[q].eof = handler[q].eof
               /\ handler'[q].cancelled = handler[q].cancelled
    BY <1>1, <2>3, <2>5 DEF HandlerRecord
  <2>. QED BY <1>3, <1>4, <2>1, <2>4, <2>5 DEF f
<1>5. CASE down[c][1].t = "CANCEL"
  <2>1. /\ handler' = [r \in Requests |-> IF r = running[down[c][1].sid]
                         THEN [handler[r] EXCEPT !.cancelled = TRUE] ELSE handler[r]]
        /\ down' = [down EXCEPT ![c] = Tail(@)]
    BY <1>3, <1>5 DEF AgentReads
  <2>2. ASSUME NEW q \in Requests
        PROVE  handler'[q] = handler[q] \/ (q = running[down[c][1].sid]
                                            /\ handler'[q] = [handler[q] EXCEPT !.cancelled = TRUE])
    BY <2>1
  <2>3. ASSUME NEW q \in Requests
        PROVE  /\ handler'[q].st = handler[q].st /\ handler'[q].conn = handler[q].conn
               /\ handler'[q].sid = handler[q].sid /\ handler'[q].sent = handler[q].sent
               /\ handler'[q].eof = handler[q].eof
               /\ q # running[down[c][1].sid] => handler'[q] = handler[q]
    BY <1>2, <2>2
  <2>. QED BY <1>3, <1>5, <2>1, <2>3
<1>6. CASE down[c][1].t \notin {"REQ", "CANCEL"}
  BY <1>3, <1>6 DEF AgentReads
<1>. QED BY <1>4, <1>5, <1>6

LEMMA LosesEffects ==
    ASSUME TypeOK, NEW c \in Conns, AgentLoses(c)
    PROVE  /\ session = c /\ wire[c] = "lost" /\ wire' = wire
           /\ down' = [down EXCEPT ![c] = <<>>]
           /\ running' = [s \in Sids |-> None]
           /\ \A q \in Requests :
                 /\ handler'[q].st = handler[q].st /\ handler'[q].conn = handler[q].conn
                 /\ handler'[q].sid = handler[q].sid /\ handler'[q].sent = handler[q].sent
                 /\ handler'[q].eof = handler[q].eof
                 /\ (\A s \in Sids : running[s] # q) => handler'[q] = handler[q]
<1>1. handler \in [Requests -> HandlerRecord] /\ down \in [Conns -> Seq(Frames)]
      /\ \A q \in Requests : handler[q] \in HandlerRecord
  BY DEF TypeOK, HandlerRecord
<1>2. ASSUME NEW q \in Requests
      PROVE  /\ [handler[q] EXCEPT !.cancelled = TRUE].st = handler[q].st
             /\ [handler[q] EXCEPT !.cancelled = TRUE].conn = handler[q].conn
             /\ [handler[q] EXCEPT !.cancelled = TRUE].sid = handler[q].sid
             /\ [handler[q] EXCEPT !.cancelled = TRUE].sent = handler[q].sent
             /\ [handler[q] EXCEPT !.cancelled = TRUE].eof = handler[q].eof
  BY <1>1 DEF HandlerRecord
<1>. QED BY <1>1, <1>2 DEF AgentLoses

LEMMA WireSteps ==
    ASSUME TypeOK, [Next]_vars
    PROVE  \A c \in Conns :
               /\ wire[c] # "new" => wire'[c] # "new"
               /\ wire[c] = "lost" => wire'[c] = "lost"
               /\ wire'[c] = "up" => wire[c] = "up" \/ Connect(c)
<1>0. wire \in [Conns -> {"new", "up", "lost"}]
  BY DEF TypeOK
<1>1. ASSUME NEW c \in Conns, LinkStep(c) \/ Connect(c) \/ Lose(c) \/ Revoke(c)
      PROVE  \/ wire' = wire
             \/ wire' = [wire EXCEPT ![c] = "lost"] /\ wire[c] # "new"
             \/ wire' = [wire EXCEPT ![c] = "up"] /\ wire[c] = "new" /\ Connect(c)
             \/ wire' = [wire EXCEPT ![c] = "lost"] /\ session = c
  BY <1>1 DEF LinkStep, Dispatch, RouterCloses, AgentReads, AgentLoses, SendCancel, Connect, Lose,
              Revoke, linkVars
<1>. QED BY <1>0, <1>1, Steps, CallerFrame, HandlerFrame

LEMMA LinksKept ==
    ASSUME TypeOK, LinksOK, [Next]_vars
    PROVE  LinksOK'
<1>0. /\ wire \in [Conns -> {"new", "up", "lost"}] /\ session \in Conns \cup {0}
      /\ current \in Conns \cup {0} /\ 0 \notin Conns
      /\ call \in [Requests -> CallRecord] /\ handler \in [Requests -> HandlerRecord]
  BY Constants DEF TypeOK, CallRecord, HandlerRecord
<1>1. \/ UNCHANGED <<wire, session, current>>
      \/ \E c \in Conns : RouterCloses(c) \/ Revoke(c) \/ Connect(c) \/ Lose(c) \/ AgentReads(c) \/ AgentLoses(c)
  BY Steps, CallerFrame, HandlerFrame DEF LinkStep, Dispatch, SendCancel, linkVars
<1>2. /\ \A c \in Conns : wire'[c] = "up" => session' = c
      /\ session' # 0 => wire'[session'] # "new"
      /\ current' # 0 => wire'[current'] # "new"
  <2>1. CASE UNCHANGED <<wire, session, current>>
    BY <2>1 DEF LinksOK
  <2>2. ASSUME NEW c \in Conns, RouterCloses(c) \/ Revoke(c) \/ Lose(c) PROVE <1>2!:
    BY <1>0, <2>2 DEF LinksOK, RouterCloses, Revoke, Lose
  <2>3. ASSUME NEW c \in Conns, Connect(c) PROVE <1>2!:
    BY <1>0, <2>3 DEF LinksOK, Connect
  <2>4. ASSUME NEW c \in Conns, AgentReads(c) PROVE <1>2!:
    BY <1>0, <2>4 DEF LinksOK, AgentReads
  <2>5. ASSUME NEW c \in Conns, AgentLoses(c) PROVE <1>2!:
    BY <1>0, <2>5 DEF LinksOK, AgentLoses
  <2>. QED BY <1>1, <2>1, <2>2, <2>3, <2>4, <2>5
<1>3. \A q \in Requests : call'[q].conn \in {call[q].conn, current, 0}
  <2>1. ASSUME NEW r \in Requests, Pick(r) \/ CallerStep(r) \/ CallerGone(r)
        PROVE  call'[r].conn \in {call[r].conn, current, 0} /\ \A q \in Requests : q # r => call'[q] = call[q]
    BY <2>1, CallerEffects DEF CallerStep, CallerGone, Ended, SamePlace
  <2>. QED BY <2>1, Steps, HandlerFrame, LinkFrame
<1>4. \A q \in Requests : handler'[q].conn \in {handler[q].conn, session, 0}
  <2>1. ASSUME NEW r \in Requests, HandlerStep(r)
        PROVE  handler'[r].conn \in {handler[r].conn, 0} /\ \A q \in Requests : q # r => handler'[q] = handler[q]
    BY <2>1, HandlerEffects
  <2>2. ASSUME NEW c \in Conns, AgentReads(c) PROVE <1>4!:
    BY <2>2, ReadsEffects
  <2>3. ASSUME NEW c \in Conns, AgentLoses(c) PROVE <1>4!:
    BY <2>3, LosesEffects
  <2>. QED BY <2>1, <2>2, <2>3, Steps, CallerFrame, LinkFrame
<1>5. \A q \in Requests : /\ call[q].conn \in Conns \cup {0} /\ (call[q].conn # 0 => wire[call[q].conn] # "new")
                          /\ handler[q].conn \in Conns \cup {0} /\ (handler[q].conn # 0 => wire[handler[q].conn] # "new")
  BY <1>0 DEF LinksOK, CallRecord, HandlerRecord
<1>6. (session # 0 => wire[session] # "new") /\ (current # 0 => wire[current] # "new")
  BY DEF LinksOK
<1>7. \A c \in Conns : wire[c] # "new" => wire'[c] # "new"
  BY WireSteps
<1>8. ASSUME NEW q \in Requests
      PROVE  /\ call'[q].conn # 0 => wire'[call'[q].conn] # "new"
             /\ handler'[q].conn # 0 => wire'[handler'[q].conn] # "new"
  <2>1. call'[q].conn = call[q].conn \/ call'[q].conn = current \/ call'[q].conn = 0
    BY <1>3
  <2>2. handler'[q].conn = handler[q].conn \/ handler'[q].conn = session \/ handler'[q].conn = 0
    BY <1>4
  <2>. QED BY <1>0, <1>5, <1>6, <1>7, <2>1, <2>2
<1>. QED BY <1>2, <1>8 DEF LinksOK

\* Calls go forward: a caller that is gone stays away.
Forward(q) ==
    /\ call[q].st \notin Live => call'[q].st \notin Live
    /\ call'[q].st \in Unopened => call[q].st \in Unopened
    /\ call'[q].st \in Unopened \cup {"sending"} => call[q].st \in Unopened \cup {"sending"}

LEMMA CallSteps ==
    ASSUME TypeOK, [Next]_vars, \A r \in Requests : ~Open(r)
    PROVE  \A q \in Requests : Forward(q)
<1>1. ASSUME NEW r \in Requests, Pick(r) \/ CallerStep(r) \/ CallerGone(r)
      PROVE  Forward(r) /\ \A q \in Requests : q # r => call'[q] = call[q]
  <2>1. ~Open(r)
    OBVIOUS
  <2>. QED BY <1>1, <2>1, CallerEffects
           DEF CallerStep, CallerGone, Ended, Live, Unopened, Over, Forward
<1>2. ASSUME NEW q \in Requests, call'[q] = call[q] PROVE Forward(q)
  BY <1>2 DEF Forward
<1>. QED BY <1>1, <1>2, Steps, HandlerFrame, LinkFrame

\* An answer grows until it ends.
Grown(q) ==
    /\ handler[q].st \in Answered => handler'[q].st \in Answered
    /\ handler[q].sent \in Nat /\ handler'[q].sent \in Nat /\ handler[q].sent <= handler'[q].sent
    /\ handler[q].eof => handler'[q].eof /\ handler'[q].sent = handler[q].sent
    /\ handler[q].st # "none" => handler'[q].st # "none"

LEMMA HandlerSteps ==
    ASSUME TypeOK, [Next]_vars, NEW on, NEW id, HandlersOK(on, id), DownOK(on, id)
    PROVE  \A q \in Requests : Grown(q)
<1>0. \A q \in Requests : handler[q].sent \in Nat
  BY DEF TypeOK
<1>1. ASSUME NEW r \in Requests, HandlerStep(r)
      PROVE  Grown(r) /\ \A q \in Requests : q # r => handler'[q] = handler[q]
  <2>1. \A q \in Requests : q # r => handler'[q] = handler[q]
    BY <1>1, HandlerEffects
  <2>2. handler[r].sent \in Nat /\ handler'[r].sent \in Nat /\ handler[r].sent <= handler'[r].sent
    BY <1>0, <1>1, HandlerEffects
  <2>3. handler[r].st \in Answered => handler'[r].st \in Answered
    BY <1>1, HandlerEffects DEF HandlerStep, Answered
  <2>4. handler[r].st # "none" => handler'[r].st # "none"
    BY <1>1, HandlerEffects DEF HandlerStep
  <2>5. ASSUME handler[r].eof PROVE handler'[r].eof /\ handler'[r].sent = handler[r].sent
    <3>1. ~Sends(r) /\ ~Ends(r)
      BY <2>5, HandlerEffects DEF HandlersOK
    <3>. QED BY <1>1, <2>5, <3>1, HandlerEffects
  <2>. QED BY <2>1, <2>2, <2>3, <2>4, <2>5 DEF Grown
<1>2. ASSUME NEW q \in Requests, handler'[q].st = handler[q].st, handler'[q].sent = handler[q].sent,
             handler'[q].eof = handler[q].eof
      PROVE  Grown(q)
  BY <1>0, <1>2 DEF Grown
<1>3. ASSUME NEW c \in Conns, AgentReads(c), NEW q \in Requests PROVE Grown(q)
  <2>1. CASE down[c][1].t = "REQ" /\ q = down[c][1].of
    <3>1. 1 \in 1..Len(down[c])
      BY <1>3, ReadsEffects
    <3>2. handler[q].st = "none"
      BY <2>1, <3>1 DEF DownOK, OrderOK
    <3>3. handler'[q].st = "spawned" \/ handler'[q] = handler[q]
      BY <1>3, <2>1, ReadsEffects
    <3>4. handler'[q].sent = handler[q].sent /\ handler'[q].eof = handler[q].eof
      BY <1>3, <2>1, ReadsEffects
    <3>. QED BY <1>0, <3>2, <3>3, <3>4 DEF Grown, Answered
  <2>2. CASE ~(down[c][1].t = "REQ" /\ q = down[c][1].of)
    BY <1>2, <1>3, <2>2, ReadsEffects
  <2>. QED BY <2>1, <2>2
<1>4. ASSUME NEW c \in Conns, AgentLoses(c), NEW q \in Requests PROVE Grown(q)
  BY <1>2, <1>4, LosesEffects
<1>5. (\E r \in Requests : HandlerStep(r)) \/ (\E c \in Conns : AgentReads(c) \/ AgentLoses(c)) \/ handler' = handler
  BY Steps, CallerFrame, LinkFrame
<1>. QED BY <1>1, <1>2, <1>3, <1>4, <1>5

----------------------------------------------------------------------------
(* What the steps do to queues and streams *)

LEMMA QueueEffects ==
    ASSUME TypeOK, NEW rs, NEW f, Queue(rs, f)
    PROVE  \A q \in Requests :
               /\ q \in rs /\ call[q].st \notin Over => inbox'[q] = Append(inbox[q], f)
               /\ ~(q \in rs /\ call[q].st \notin Over) => inbox'[q] = inbox[q]
BY DEF Queue

LEMMA DispatchEffects ==
    ASSUME TypeOK, NEW c \in Conns, Dispatch(c)
    PROVE  /\ up[c] \in Seq(Frames) /\ up[c] # <<>> /\ 1 \in 1..Len(up[c]) /\ up[c][1] \in Frames
           /\ up' = [up EXCEPT ![c] = Tail(@)]
           /\ UNCHANGED <<wire, call, handler, running, down, cancels, nextId>>
           /\ \A q \in Requests :
                  /\ q = streams[c][up[c][1].sid] /\ call[q].st \notin Over =>
                         inbox'[q] = Append(inbox[q], up[c][1])
                  /\ ~(q = streams[c][up[c][1].sid] /\ call[q].st \notin Over) => inbox'[q] = inbox[q]
           /\ streams' = IF up[c][1].t \in {"END", "ERR"}
                         THEN [streams EXCEPT ![c][up[c][1].sid] = None] ELSE streams
<1>1. up[c] \in Seq(Frames) /\ up[c] # <<>> /\ 1 \in 1..Len(up[c]) /\ up[c][1] \in Frames /\ Head(up[c]) = up[c][1]
  BY DEF TypeOK, Dispatch
<1>2. /\ up' = [up EXCEPT ![c] = Tail(@)]
      /\ UNCHANGED <<wire, call, handler, running, down, cancels, nextId>>
  BY DEF Dispatch, linkVars, agentVars
<1>3. CASE streams[c][up[c][1].sid] = None
  <2>1. inbox' = inbox /\ streams' = streams
    BY <1>1, <1>3 DEF Dispatch
  <2>2. [streams EXCEPT ![c][up[c][1].sid] = None] = streams
    <3>1. [streams[c] EXCEPT ![up[c][1].sid] = None] = streams[c]
      BY <1>3 DEF TypeOK
    <3>. QED BY <3>1 DEF TypeOK
  <2>3. \A q \in Requests : q # None
    BY Constants
  <2>. QED BY <1>1, <1>2, <1>3, <2>1, <2>2, <2>3
<1>4. CASE streams[c][up[c][1].sid] # None
  <2>1. /\ Queue({streams[c][up[c][1].sid]}, up[c][1])
        /\ streams' = IF up[c][1].t \in {"END", "ERR"}
                      THEN [streams EXCEPT ![c][up[c][1].sid] = None] ELSE streams
    BY <1>1, <1>4 DEF Dispatch
  <2>2. \A q \in Requests :
                  /\ q = streams[c][up[c][1].sid] /\ call[q].st \notin Over =>
                         inbox'[q] = Append(inbox[q], up[c][1])
                  /\ ~(q = streams[c][up[c][1].sid] /\ call[q].st \notin Over) => inbox'[q] = inbox[q]
    BY <2>1, QueueEffects
  <2>. QED BY <1>1, <1>2, <2>1, <2>2
<1>. QED BY <1>3, <1>4

\* Every caller of a closed connection that is not over gets an error.
Told(c) ==
    /\ \A q \in Requests :
           \/ inbox'[q] = inbox[q]
           \/ /\ \E s \in Sids : streams[c][s] = q
              /\ inbox'[q] = Append(inbox[q], Frame("ERR", 0, None, 0))
    /\ \A q \in Requests, s \in Sids :
           streams[c][s] = q /\ call[q].st \notin Over => inbox'[q] = Append(inbox[q], Frame("ERR", 0, None, 0))
    /\ streams' = [streams EXCEPT ![c] = [s \in Sids |-> None]]

LEMMA CloseEffects ==
    ASSUME TypeOK, NEW c \in Conns, CloseAll(c)
    PROVE  Told(c)
BY QueueEffects DEF CloseAll, Told

\* Of a queue and a stream nothing else is ever done.
LEMMA QueueSteps ==
    ASSUME TypeOK, [Next]_vars
    PROVE  \/ \E r \in Requests : Pick(r) \/ CallerStep(r) \/ CallerGone(r)
           \/ \E c \in Conns : Dispatch(c)
           \/ \E c \in Conns : Told(c) /\ UNCHANGED <<call, handler, running>>
                               /\ up' = [up EXCEPT ![c] = <<>>]
           \/ UNCHANGED <<inbox, streams, call, nextId>>
<1>1. ASSUME NEW c \in Conns, LinkStep(c) \/ Connect(c) \/ Lose(c) \/ Revoke(c)
      PROVE  \/ Dispatch(c) \/ UNCHANGED <<inbox, streams, call, nextId>>
             \/ \E d \in Conns : Told(d) /\ UNCHANGED <<call, handler, running>>
                                 /\ up' = [up EXCEPT ![d] = <<>>]
  <2>1. CASE RouterCloses(c)
    BY <2>1, CloseEffects DEF RouterCloses, agentVars
  <2>2. CASE Connect(c)
    <3>1. CASE current = 0
      BY <2>2, <3>1 DEF Connect
    <3>2. CASE current # 0
      <4>1. current \in Conns /\ CloseAll(current) /\ up' = [up EXCEPT ![current] = <<>>]
        BY <2>2, <3>2 DEF Connect, TypeOK
      <4>. QED BY <2>2, <4>1, CloseEffects DEF Connect, agentVars
    <3>. QED BY <3>1, <3>2
  <2>3. CASE AgentReads(c) \/ AgentLoses(c) \/ (\E s \in Sids : SendCancel(c, s)) \/ Lose(c) \/ Revoke(c)
    BY <2>3 DEF AgentReads, AgentLoses, SendCancel, Lose, Revoke, routerVars, callVars
  <2>. QED BY <1>1, <2>1, <2>2, <2>3 DEF LinkStep
<1>. QED BY <1>1, Steps, HandlerFrame

\* No stream but that of Open is ever entered, and no id but its own is used up.
LEMMA StreamSteps ==
    ASSUME TypeOK, [Next]_vars, \A r \in Requests : ~Open(r)
    PROVE  /\ \A c \in Conns, s \in Sids : streams'[c][s] \in {streams[c][s], None}
           /\ nextId' = nextId
<1>0. streams \in [Conns -> [Sids -> Requests \cup {None}]]
  BY DEF TypeOK
<1>1. ASSUME NEW r \in Requests, Pick(r) \/ CallerStep(r) \/ CallerGone(r)
      PROVE  (streams' = streams \/ Pop(r)) /\ nextId' = nextId
  BY <1>1 DEF Pick, CallerStep, Send, SendFails, ReadHead, Read, CancelSent, CallerGone, Expire,
              Leave, Abort, routerVars
<1>2. ASSUME NEW r \in Requests, Pop(r)
      PROVE  \A c \in Conns, s \in Sids : streams'[c][s] \in {streams[c][s], None}
  BY <1>0, <1>2 DEF Pop
<1>3. ASSUME NEW c \in Conns, Dispatch(c)
      PROVE  /\ \A d \in Conns, s \in Sids : streams'[d][s] \in {streams[d][s], None}
             /\ nextId' = nextId
  BY <1>0, <1>3, DispatchEffects
<1>4. ASSUME NEW c \in Conns, Told(c)
      PROVE  \A d \in Conns, s \in Sids : streams'[d][s] \in {streams[d][s], None}
  BY <1>0, <1>4 DEF Told
<1>5. (\E r \in Requests : Pick(r) \/ CallerStep(r) \/ CallerGone(r)) \/ nextId' = nextId
  BY Steps, HandlerFrame, LinkFrame
<1>. QED BY <1>1, <1>2, <1>3, <1>4, <1>5, QueueSteps

----------------------------------------------------------------------------
(* Ids *)

LEMMA SomewhereIsSited ==
    ASSUME TypeOK, NEW on \in Places, NEW id \in Ids, CallsOK(on, id), HandlersOK(on, id)
    PROVE  Sited
<1>1. \A r \in Requests : on[r] = 0 <=> id[r] = 0
  BY DEF CallsOK
<1>. QED BY <1>1 DEF Sited, CallsOK, HandlersOK, Holding, Working

LEMMA OpenedGrows ==
    ASSUME \A q \in Requests : call'[q].st \in Unopened => call[q].st \in Unopened
    PROVE  /\ Opened \subseteq Opened' /\ IsFiniteSet(Opened) /\ IsFiniteSet(Opened')
           /\ Cardinality(Opened) \in Nat /\ Cardinality(Opened') \in Nat
           /\ Cardinality(Opened) <= Cardinality(Opened')
<1>1. Opened \subseteq Opened' /\ Opened \subseteq Requests /\ Opened' \subseteq Requests
  BY DEF Opened
<1>2. IsFiniteSet(Opened) /\ IsFiniteSet(Opened')
  BY <1>1, IdsAssumption, FS_Subset
<1>. QED BY <1>1, <1>2, FS_Subset, FS_CardinalityType

LEMMA StreamOwners ==
    ASSUME TypeOK, NEW on \in Places, NEW id \in Ids, StreamsOK(on, id), CallsOK(on, id),
           NEW c \in Conns, NEW s, streams[c][s] \in Requests, s \in Sids
    PROVE  /\ on[streams[c][s]] = c /\ id[streams[c][s]] = s
           /\ call[streams[c][s]].st \notin Unopened
<1>1. streams[c][s] # None
  BY Constants
<1>2. on[streams[c][s]] = c /\ id[streams[c][s]] = s
  BY <1>1 DEF StreamsOK
<1>3. c # 0
  BY Constants
<1>. QED BY <1>2, <1>3 DEF CallsOK

LEMMA CallsKept ==
    ASSUME TypeOK, NEW on \in Places, NEW id \in Ids, CallsOK(on, id), StreamsOK(on, id), UpOK(on, id),
           [Next]_vars, \A r \in Requests : ~Open(r)
    PROVE  CallsOK(on, id)'
<1>. DEFINE Good(q) == /\ call'[q].st \in Unopened => on[q] = 0 /\ inbox'[q] = <<>>
                       /\ call'[q].st \in Unopened \cup {"sending", "waiting"} => call'[q].got = 0
                       /\ call'[q].st = "picked" => call'[q].conn # 0
                       /\ call'[q].st \in Holding =>
                              on[q] # 0 /\ call'[q].conn = on[q] /\ call'[q].sid = id[q]
<1>1. ASSUME NEW q \in Requests, call'[q] = call[q], inbox'[q] = inbox[q] PROVE Good(q)
  BY <1>1 DEF CallsOK
<1>2. ASSUME NEW r \in Requests, Pick(r) \/ CallerStep(r) \/ CallerGone(r) PROVE Good(r)
  <2>1. CASE Pick(r)
    BY <2>1, CallerEffects DEF CallsOK, Unopened, Holding
  <2>2. CASE Send(r)
    BY <2>2, CallerEffects DEF CallsOK, Unopened, Holding, SamePlace
  <2>3. CASE SendFails(r) \/ CancelSent(r) \/ Abort(r)
    BY <2>3, CallerEffects DEF Unopened, Holding, Ended, Over
  <2>4. CASE ReadHead(r)
    BY <2>4, CallerEffects DEF CallsOK, Unopened, Holding, SamePlace, Ended, Over
  <2>5. CASE Read(r)
    BY <2>5, CallerEffects DEF CallsOK, Unopened, Holding, SamePlace, Ended, Over
  <2>6. CASE Expire(r) \/ Leave(r)
    BY <2>6, CallerEffects DEF CallsOK, Unopened, Holding, SamePlace
  <2>. QED BY <1>2, <2>1, <2>2, <2>3, <2>4, <2>5, <2>6 DEF CallerStep, CallerGone
<1>3. ASSUME NEW q \in Requests, call'[q] = call[q], call[q].st \notin Unopened PROVE Good(q)
  BY <1>3 DEF CallsOK
<1>4. ASSUME NEW c \in Conns, Dispatch(c), NEW q \in Requests PROVE Good(q)
  <2>1. call'[q] = call[q]
    BY <1>4, DispatchEffects
  <2>2. up[c][1].sid \in Sids
    <3>1. 1 \in 1..Len(up[c]) /\ up[c][1].of \in Requests /\ on[up[c][1].of] = c /\ id[up[c][1].of] = up[c][1].sid
      BY <1>4, DispatchEffects DEF UpOK, Produced
    <3>2. c # 0
      BY Constants
    <3>. QED BY <3>1, <3>2 DEF CallsOK, Ids
  <2>3. CASE q = streams[c][up[c][1].sid]
    BY <1>3, <2>1, <2>2, <2>3, StreamOwners
  <2>4. CASE q # streams[c][up[c][1].sid]
    BY <1>1, <1>4, <2>1, <2>4, DispatchEffects
  <2>. QED BY <2>3, <2>4
<1>5. ASSUME NEW c \in Conns, Told(c), call' = call, NEW q \in Requests PROVE Good(q)
  <2>1. CASE inbox'[q] = inbox[q]
    BY <1>1, <1>5, <2>1
  <2>2. CASE \E s \in Sids : streams[c][s] = q
    BY <1>3, <1>5, <2>2, StreamOwners
  <2>. QED BY <1>5, <2>1, <2>2 DEF Told
<1>6. ASSUME NEW r \in Requests, Pick(r) \/ CallerStep(r) \/ CallerGone(r), NEW q \in Requests PROVE Good(q)
  BY <1>1, <1>2, <1>6, CallerEffects
<1>7. \A q \in Requests : Good(q)
  BY <1>1, <1>4, <1>5, <1>6, QueueSteps
<1>8. \A q \in Requests : on[q] = 0 <=> id[q] = 0
  BY DEF CallsOK
<1>. QED BY <1>7, <1>8 DEF CallsOK

LEMMA IdsKept ==
    ASSUME TypeOK, NEW on \in Places, NEW id \in Ids, IdsOK(on, id), UpOK(on, id),
           [Next]_vars, \A r \in Requests : ~Open(r)
    PROVE  IdsOK(on, id)'
<1>1. OpenedOnce(on, id)'
  BY DEF IdsOK, OpenedOnce
<1>2. NextIsNew(on, id)'
  <2>1. nextId' = nextId /\ \A c \in Conns : nextId[c] \in Nat
    BY StreamSteps, Constants DEF TypeOK
  <2>2. \A q \in Requests : call'[q].st \in Unopened => call[q].st \in Unopened
    BY CallSteps DEF Forward
  <2>3. /\ Opened \subseteq Opened' /\ Cardinality(Opened) \in Nat /\ Cardinality(Opened') \in Nat
        /\ Cardinality(Opened) <= Cardinality(Opened')
    BY <2>2, OpenedGrows
  <2>4. Opened' \subseteq Requests
    BY DEF Opened
  <2>5. Opened' # Requests => Opened # Requests
    BY <2>3, <2>4
  <2>. SUFFICES ASSUME NEW c \in Conns, Opened' # Requests
                PROVE  /\ nextId'[c] <= 1 + Cardinality(Opened')
                       /\ \A r \in Requests : on[r] = c => id[r] < nextId'[c]
    BY DEF NextIsNew
  <2>6. nextId[c] <= 1 + Cardinality(Opened) /\ \A r \in Requests : on[r] = c => id[r] < nextId[c]
    BY <2>5 DEF IdsOK, NextIsNew
  <2>. QED BY <2>1, <2>3, <2>6
<1>3. CallsOK(on, id)'
  BY CallsKept DEF IdsOK
<1>4. StreamsOK(on, id)'
  BY StreamSteps DEF IdsOK, StreamsOK
<1>. QED BY <1>1, <1>2, <1>3, <1>4 DEF IdsOK

\* The request that is opened is remembered, under an id that is new.
OnAfter(on, r) == [on EXCEPT ![r] = call[r].conn]
IdAfter(id, r) == [id EXCEPT ![r] = nextId[call[r].conn]]

LEMMA OpenFacts ==
    ASSUME TypeOK, NEW on \in Places, NEW id \in Ids, IdsOK(on, id), NEW r \in Requests, Open(r)
    PROVE  /\ call[r].conn \in Conns /\ nextId[call[r].conn] \in Sids
           /\ on[r] = 0 /\ inbox[r] = <<>> /\ call[r].got = 0 /\ call[r].st = "picked"
           /\ OnAfter(on, r) \in Places /\ IdAfter(id, r) \in Ids
           /\ OnAfter(on, r)[r] = call[r].conn /\ IdAfter(id, r)[r] = nextId[call[r].conn]
           /\ \A q \in Requests : q # r => OnAfter(on, r)[q] = on[q] /\ IdAfter(id, r)[q] = id[q]
           /\ \A q \in Requests : on[q] = call[r].conn => id[q] < nextId[call[r].conn]
           /\ \A q \in Requests : q # r => call'[q] = call[q]
           /\ UNCHANGED <<inbox, cancels, wire, running, handler, down, up>>
           /\ streams' = [streams EXCEPT ![call[r].conn][nextId[call[r].conn]] = r]
<1>1. call[r].st = "picked" /\ call[r].st \in Unopened /\ r \notin Opened /\ Opened # Requests
  BY DEF Open, Unopened, Opened
<1>2. call[r].conn \in Conns /\ on[r] = 0 /\ inbox[r] = <<>> /\ call[r].got = 0
  BY <1>1 DEF IdsOK, CallsOK, TypeOK
<1>3. nextId[call[r].conn] \in Sids
  BY <1>2 DEF TypeOK
<1>4. \A q \in Requests : on[q] = call[r].conn => id[q] < nextId[call[r].conn]
  BY <1>1, <1>2 DEF IdsOK, NextIsNew
<1>5. \A q \in Requests : q # r => call'[q] = call[q]
  BY CallerEffects DEF CallerStep
<1>6. UNCHANGED <<inbox, cancels, wire, running, handler, down, up>>
  BY DEF Open, linkVars, agentVars
<1>7. streams' = [streams EXCEPT ![call[r].conn][nextId[call[r].conn]] = r]
  BY DEF Open
<1>8. /\ OnAfter(on, r) \in Places /\ OnAfter(on, r)[r] = call[r].conn
      /\ \A q \in Requests : q # r => OnAfter(on, r)[q] = on[q]
  BY <1>2 DEF OnAfter, Places
<1>9. /\ IdAfter(id, r) \in Ids /\ IdAfter(id, r)[r] = nextId[call[r].conn]
      /\ \A q \in Requests : q # r => IdAfter(id, r)[q] = id[q]
  BY <1>3 DEF IdAfter, Ids
<1>. QED BY <1>1, <1>2, <1>3, <1>4, <1>5, <1>6, <1>7, <1>8, <1>9

LEMMA IdsOpened ==
    ASSUME TypeOK, NEW on \in Places, NEW id \in Ids, IdsOK(on, id), NEW r \in Requests, Open(r),
           NEW on2 \in Places, NEW id2 \in Ids, on2 = OnAfter(on, r), id2 = IdAfter(id, r)
    PROVE  IdsOK(on2, id2)'
<1>. DEFINE c == call[r].conn
            s == nextId[c]
<1>1. /\ c \in Conns /\ s \in Sids /\ on[r] = 0 /\ inbox' = inbox /\ inbox[r] = <<>> /\ call[r].got = 0
      /\ on2[r] = c /\ id2[r] = s
      /\ \A q \in Requests : q # r => on2[q] = on[q] /\ id2[q] = id[q]
      /\ \A q \in Requests : on[q] = c => id[q] < s
      /\ \A q \in Requests : q # r => call'[q] = call[q]
  <2>1. /\ call[r].conn \in Conns /\ nextId[call[r].conn] \in Sids /\ on[r] = 0 /\ inbox[r] = <<>>
        /\ call[r].got = 0 /\ inbox' = inbox
    BY OpenFacts
  <2>2. /\ on2[r] = call[r].conn /\ id2[r] = nextId[call[r].conn]
        /\ \A q \in Requests : q # r => on2[q] = on[q] /\ id2[q] = id[q]
    BY <2>1 DEF OnAfter, IdAfter, Places, Ids
  <2>3. /\ \A q \in Requests : on[q] = call[r].conn => id[q] < nextId[call[r].conn]
        /\ \A q \in Requests : q # r => call'[q] = call[q]
    BY OpenFacts
  <2>. QED BY <2>1, <2>2, <2>3
<1>2. call'[r].st = "sending" /\ call'[r].conn = c /\ call'[r].sid = s /\ call'[r].got = 0
  BY <1>1, CallerEffects
<1>3. c # 0 /\ s # 0 /\ s \in Nat /\ \A q \in Requests : id[q] \in Nat
  <2>1. c # 0 /\ s # 0 /\ s \in Nat
    BY <1>1, Constants
  <2>2. \A q \in Requests : id[q] \in Sids \cup {0}
    BY DEF Ids
  <2>3. \A q \in Requests : id[q] \in Nat
    BY <2>2, BoundAssumption DEF Sids
  <2>. QED BY <2>1, <2>3
<1>4. streams' = [streams EXCEPT ![c][s] = r] /\ nextId' = [nextId EXCEPT ![c] = (s % SidLimit) + 1]
  BY DEF Open, TypeOK
<1>. HIDE DEF c, s
<1>5. OpenedOnce(on2, id2)'
  <2>. SUFFICES ASSUME NEW p \in Requests, NEW q \in Requests, on2[p] # 0, on2[p] = on2[q], id2[p] = id2[q]
                PROVE  p = q
    BY DEF OpenedOnce
  <2>1. CASE p # r /\ q # r
    BY <1>1, <2>1 DEF IdsOK, OpenedOnce
  <2>2. CASE p = r \/ q = r
    BY <1>1, <1>3, <2>2
  <2>. QED BY <2>1, <2>2
<1>6. NextIsNew(on2, id2)'
  <2>1. call[r].st \in Unopened /\ call'[r].st \notin Unopened
    BY <1>2 DEF Open, Unopened
  <2>2. Opened' = Opened \cup {r} /\ r \notin Opened
    BY <1>1, <2>1 DEF Opened
  <2>3. IsFiniteSet(Opened) /\ Opened \subseteq Requests
    BY IdsAssumption, FS_Subset DEF Opened
  <2>4. Cardinality(Opened') = Cardinality(Opened) + 1 /\ Cardinality(Opened) \in Nat
    BY <2>2, <2>3, FS_AddElement, FS_CardinalityType
  <2>5. ASSUME Opened' # Requests PROVE Cardinality(Opened') < SidLimit
    <3>1. Opened' \subseteq Requests
      BY <2>2, <2>3
    <3>2. Cardinality(Opened') <= Cardinality(Requests) /\ Cardinality(Opened') # Cardinality(Requests)
      BY <2>5, <3>1, IdsAssumption, FS_Subset
    <3>3. Cardinality(Requests) \in Nat /\ Cardinality(Opened') \in Nat
      BY <2>4, IdsAssumption, FS_CardinalityType
    <3>. QED BY <3>2, <3>3, IdsAssumption, Constants
  <2>6. Opened # Requests
    BY <2>2
  <2>. SUFFICES ASSUME NEW d \in Conns, Opened' # Requests
                PROVE  /\ nextId'[d] <= 1 + Cardinality(Opened')
                       /\ \A q \in Requests : on2[q] = d => id2[q] < nextId'[d]
    BY DEF NextIsNew
  <2>7. nextId[d] <= 1 + Cardinality(Opened) /\ \A q \in Requests : on[q] = d => id[q] < nextId[d]
    BY <2>6 DEF IdsOK, NextIsNew
  <2>8. CASE d = c
    <3>1. s <= 1 + Cardinality(Opened) /\ s = nextId[c]
      BY <2>7, <2>8 DEF s
    <3>2. s < SidLimit
      BY <1>3, <2>4, <2>5, <3>1, Constants
    <3>3. nextId'[c] = s + 1
      <4>1. s % SidLimit = s
        BY <1>3, <3>2, Constants
      <4>2. nextId'[c] = (s % SidLimit) + 1
        BY <1>1, <1>4 DEF TypeOK
      <4>. QED BY <4>1, <4>2
    <3>. QED BY <1>1, <1>3, <2>4, <2>8, <3>1, <3>3
  <2>9. CASE d # c
    <3>1. nextId'[d] = nextId[d] /\ nextId[d] \in Nat
      BY <1>4, <2>9, Constants DEF TypeOK
    <3>2. \A q \in Requests : on2[q] = d => q # r /\ on[q] = d /\ id2[q] = id[q]
      BY <1>1, <2>9
    <3>. QED BY <2>4, <2>7, <3>1, <3>2
  <2>. QED BY <2>8, <2>9
<1>7. CallsOK(on2, id2)'
  BY <1>1, <1>2, <1>3 DEF IdsOK, CallsOK, Unopened, Holding
<1>8. StreamsOK(on2, id2)'
  <2>. SUFFICES ASSUME NEW d \in Conns, NEW k \in Sids, streams'[d][k] # None
                PROVE  on2[streams'[d][k]] = d /\ id2[streams'[d][k]] = k
    BY DEF StreamsOK
  <2>1. CASE d = c /\ k = s
    BY <1>1, <1>4, <2>1 DEF TypeOK
  <2>2. CASE ~(d = c /\ k = s)
    <3>1. streams'[d][k] = streams[d][k] /\ streams[d][k] \in Requests
      BY <1>1, <1>4, <2>2 DEF TypeOK
    <3>2. on[streams[d][k]] = d /\ id[streams[d][k]] = k
      BY <3>1 DEF IdsOK, StreamsOK
    <3>3. streams[d][k] # r
      BY <1>1, <3>2, Constants
    <3>. QED BY <1>1, <3>1, <3>2, <3>3
  <2>. QED BY <2>1, <2>2
<1>. QED BY <1>5, <1>6, <1>7, <1>8 DEF IdsOK

----------------------------------------------------------------------------
(* Orders and work *)

LEMMA StaysDead ==
    ASSUME NEW on, NEW id, NEW c, NEW s, Dead(on, id, c, s), \A q \in Requests : Forward(q)
    PROVE  Dead(on, id, c, s)'
BY DEF Dead, Forward

LEMMA CancelsKept ==
    ASSUME TypeOK, NEW on \in Places, NEW id \in Ids, IdsOK(on, id), CancelsOK(on, id),
           [Next]_vars, \A r \in Requests : ~Open(r)
    PROVE  CancelsOK(on, id)'
<1>1. \A q \in Requests : Forward(q)
  BY CallSteps
<1>2. ASSUME NEW c \in Conns, NEW s \in Sids, <<c, s>> \in cancels PROVE Dead(on, id, c, s)'
  BY <1>1, <1>2, StaysDead DEF CancelsOK
<1>3. CASE cancels' \subseteq cancels
  BY <1>2, <1>3 DEF CancelsOK
<1>4. ASSUME NEW r \in Requests, Abort(r), ~(cancels' \subseteq cancels)
      PROVE  CancelsOK(on, id)'
  <2>1. cancels' = cancels \cup {<<call[r].conn, call[r].sid>>} /\ call[r].st \in Holding
    BY <1>4 DEF Abort, Holding
  <2>2. on[r] = call[r].conn /\ id[r] = call[r].sid
    BY <2>1 DEF IdsOK, CallsOK
  <2>3. call'[r].st \notin Live
    BY <1>4, CallerEffects DEF Ended, Over, Live
  <2>4. \A c \in Conns, s \in Sids : c = call[r].conn /\ s = call[r].sid => Dead(on, id, c, s)'
    BY <2>2, <2>3 DEF Dead
  <2>. QED BY <1>2, <2>1, <2>4 DEF CancelsOK
<1>5. ASSUME NEW r \in Requests, Pick(r) \/ CallerStep(r) \/ CallerGone(r), ~Abort(r)
      PROVE  cancels' = cancels
  <2>1. ~Open(r)
    OBVIOUS
  <2>. QED BY <1>5, <2>1 DEF Pick, CallerStep, Send, SendFails, ReadHead, Read, CancelSent, CallerGone,
                Expire, Leave, callVars
<1>6. ASSUME NEW c \in Conns, LinkStep(c) \/ Connect(c) \/ Lose(c) \/ Revoke(c)
      PROVE  cancels' \subseteq cancels
  BY <1>6 DEF LinkStep, Dispatch, RouterCloses, AgentReads, AgentLoses, SendCancel, Connect, Lose,
              Revoke, callVars
<1>. QED BY <1>3, <1>4, <1>5, <1>6, Steps, HandlerFrame

\* What is on its way to the agent keeps its sense in this step.
OrdersStay(on, id) ==
    \A d \in Conns : \A i \in 1..Len(down[d]) : \A f \in Frames :
        f = down[d][i] => OrderOK(on, id, d, f)'

LEMMA DownAppended ==
    ASSUME TypeOK, NEW on \in Places, NEW id \in Ids, NEW c \in Conns, NEW f \in Frames,
           DownOK(on, id), OrdersStay(on, id), OrderOK(on, id, c, f)', down' = Written(down, c, f),
           f.t = "REQ" => \A i \in 1..Len(down[c]) : down[c][i].t = "REQ" => down[c][i].of # f.of
    PROVE  DownOK(on, id)'
<1>1. down \in [Conns -> Seq(Frames)]
  BY DEF TypeOK
<1>2. \A d \in Conns : down'[d] = down[d] \/ (d = c /\ down'[d] = Append(down[d], f))
  BY <1>1 DEF Written
<1>. SUFFICES ASSUME NEW d \in Conns, NEW i \in 1..Len(down'[d])
              PROVE  /\ OrderOK(on, id, d, down[d][i])'
                     /\ \A j \in 1..Len(down'[d]) :
                            i # j /\ down'[d][i].t = "REQ" /\ down'[d][j].t = "REQ" => down'[d][i].of # down'[d][j].of
  BY DEF DownOK
<1>3. down[d] \in Seq(Frames)
  BY <1>1
<1>4. CASE down'[d] = down[d]
  <2>1. PICK g \in Frames : g = down[d][i]
    BY <1>3, <1>4
  <2>2. OrderOK(on, id, d, g)'
    BY <1>4, <2>1 DEF OrdersStay
  <2>3. OrderOK(on, id, d, down[d][i])'
    BY <1>4, <2>1, <2>2
  <2>. QED BY <1>4, <2>3 DEF DownOK
<1>5. CASE d = c /\ down'[d] = Append(down[d], f)
  <2>1. /\ Len(down'[d]) = Len(down[d]) + 1 /\ Len(down[d]) \in Nat
        /\ \A j \in 1..Len(down[d]) : down'[d][j] = down[d][j]
        /\ down'[d][Len(down[d]) + 1] = f
    BY <1>3, <1>5, AppendFacts
  <2>2. OrderOK(on, id, d, down[d][i])'
    <3>1. CASE i = Len(down[d]) + 1
      BY <1>5, <2>1, <3>1
    <3>2. CASE i # Len(down[d]) + 1
      <4>1. i \in 1..Len(down[d])
        BY <2>1, <3>2
      <4>2. PICK g \in Frames : g = down[d][i]
        BY <1>3, <4>1
      <4>3. OrderOK(on, id, d, g)'
        BY <4>1, <4>2 DEF OrdersStay
      <4>. QED BY <2>1, <4>1, <4>2, <4>3
    <3>. QED BY <3>1, <3>2
  <2>3. ASSUME NEW j \in 1..Len(down'[d]), i # j, down'[d][i].t = "REQ", down'[d][j].t = "REQ"
        PROVE  down'[d][i].of # down'[d][j].of
    <3>1. CASE i \in 1..Len(down[d]) /\ j \in 1..Len(down[d])
      <4>1. down'[d][i] = down[d][i] /\ down'[d][j] = down[d][j]
        BY <2>1, <3>1
      <4>2. down[d][i].t = "REQ" /\ down[d][j].t = "REQ" => down[d][i].of # down[d][j].of
        BY <2>3, <3>1 DEF DownOK
      <4>. QED BY <2>3, <4>1, <4>2
    <3>2. CASE i = Len(down[d]) + 1 /\ j \in 1..Len(down[d])
      BY <1>5, <2>1, <2>3, <3>2
    <3>3. CASE j = Len(down[d]) + 1 /\ i \in 1..Len(down[d])
      BY <1>5, <2>1, <2>3, <3>3
    <3>. QED BY <2>1, <2>3, <3>1, <3>2, <3>3
  <2>. QED BY <2>2, <2>3
<1>. QED BY <1>2, <1>4, <1>5

\* Frames are read, or lost with their connection.
LEMMA DownDropped ==
    ASSUME TypeOK, NEW on \in Places, NEW id \in Ids, NEW c \in Conns, DownOK(on, id),
           \/ down' = down
           \/ down[c] # <<>> /\ down' = [down EXCEPT ![c] = Tail(@)]
           \/ down' = [down EXCEPT ![c] = <<>>],
           \A d \in Conns : \A i \in 1..Len(down[d]) : \A f \in Frames :
               f = down[d][i] /\ ~(d = c /\ i = 1 /\ down' # down) => OrderOK(on, id, d, f)'
    PROVE  DownOK(on, id)'
<1>1. down \in [Conns -> Seq(Frames)]
  BY DEF TypeOK
<1>. SUFFICES ASSUME NEW d \in Conns, NEW i \in 1..Len(down'[d])
              PROVE  /\ OrderOK(on, id, d, down[d][i])'
                     /\ \A j \in 1..Len(down'[d]) :
                            i # j /\ down'[d][i].t = "REQ" /\ down'[d][j].t = "REQ" => down'[d][i].of # down'[d][j].of
  BY DEF DownOK
<1>2. down[d] \in Seq(Frames)
  BY <1>1
<1>3. CASE down'[d] = down[d] /\ (d # c \/ down' = down)
  <2>1. PICK g \in Frames : g = down[d][i]
    BY <1>2, <1>3
  <2>2. OrderOK(on, id, d, g)'
    BY <1>3, <2>1
  <2>. QED BY <1>3, <2>1, <2>2 DEF DownOK
<1>4. CASE d = c /\ down[d] # <<>> /\ down'[d] = Tail(down[d])
  <2>1. /\ Len(down'[d]) = Len(down[d]) - 1 /\ Len(down[d]) \in Nat
        /\ \A j \in 1..Len(down'[d]) : down'[d][j] = down[d][j + 1]
    BY <1>2, <1>4, TailFacts
  <2>2. i + 1 \in 1..Len(down[d]) /\ i + 1 # 1
    BY <2>1
  <2>3. PICK g \in Frames : g = down[d][i + 1]
    BY <1>2, <2>2
  <2>4. OrderOK(on, id, d, g)'
    BY <2>2, <2>3
  <2>5. \A j \in 1..Len(down'[d]) : j + 1 \in 1..Len(down[d]) /\ (i # j => i + 1 # j + 1)
    BY <2>1
  <2>6. OrderOK(on, id, d, down[d][i])'
    BY <2>1, <2>3, <2>4
  <2>7. ASSUME NEW j \in 1..Len(down'[d]), i # j, down'[d][i].t = "REQ", down'[d][j].t = "REQ"
        PROVE  down'[d][i].of # down'[d][j].of
    <3>1. down'[d][i] = down[d][i + 1] /\ down'[d][j] = down[d][j + 1]
      BY <2>1
    <3>2. PICK m \in 1..Len(down[d]), n \in 1..Len(down[d]) : m = i + 1 /\ n = j + 1 /\ m # n
      BY <2>2, <2>5, <2>7
    <3>3. down[d][m].t = "REQ" /\ down[d][n].t = "REQ" => down[d][m].of # down[d][n].of
      BY <3>2 DEF DownOK
    <3>. QED BY <2>7, <3>1, <3>2, <3>3
  <2>. QED BY <2>6, <2>7
<1>5. CASE d = c /\ down'[d] = <<>>
  BY <1>5
<1>. QED BY <1>1, <1>3, <1>4, <1>5

\* A caller's step and one of the router leave the work as it is.
LEMMA OrdersStayPut ==
    ASSUME TypeOK, NEW on \in Places, NEW id \in Ids, DownOK(on, id),
           \A q \in Requests : Forward(q),
           \A q \in Requests : handler[q].st = "none" => handler'[q].st = "none"
    PROVE  OrdersStay(on, id)
<1>. SUFFICES ASSUME NEW d \in Conns, NEW i \in 1..Len(down[d]), NEW f \in Frames, f = down[d][i]
              PROVE  OrderOK(on, id, d, f)'
  BY DEF OrdersStay
<1>1. OrderOK(on, id, d, f)
  BY DEF DownOK
<1>2. CASE f.t = "CANCEL"
  BY <1>1, <1>2, StaysDead DEF OrderOK
<1>3. CASE f.t = "REQ"
  BY <1>1, <1>3 DEF OrderOK, Forward
<1>4. CASE f.t = "REVOKED"
  BY <1>4 DEF OrderOK
<1>. QED BY <1>1, <1>2, <1>3, <1>4 DEF OrderOK

LEMMA DownKept ==
    ASSUME TypeOK, Sited, NEW on \in Places, NEW id \in Ids, IdsOK(on, id), WorkOK(on, id),
           [Next]_vars, \A r \in Requests : ~Open(r)
    PROVE  DownOK(on, id)'
<1>1. \A q \in Requests : Forward(q)
  BY CallSteps
<1>2. DownOK(on, id) /\ HandlersOK(on, id) /\ CancelsOK(on, id)
  BY DEF WorkOK
<1>3. ASSUME \A q \in Requests : handler[q].st = "none" => handler'[q].st = "none"
      PROVE  OrdersStay(on, id)
  BY <1>1, <1>2, <1>3, OrdersStayPut
<1>4. ASSUME down' = down, OrdersStay(on, id) PROVE DownOK(on, id)'
  <2>. SUFFICES ASSUME NEW d \in Conns, NEW i \in 1..Len(down[d])
                PROVE  OrderOK(on, id, d, down[d][i])'
    BY <1>2, <1>4 DEF DownOK
  <2>1. PICK f \in Frames : f = down[d][i]
    BY DEF TypeOK
  <2>. QED BY <1>4, <2>1 DEF OrdersStay
<1>5. ASSUME NEW r \in Requests, Pick(r) \/ CallerStep(r) \/ CallerGone(r)
      PROVE  DownOK(on, id)'
  <2>1. handler' = handler /\ OrdersStay(on, id)
    BY <1>3, <1>5, CallerFrame
  <2>2. CASE Send(r)
    <3>1. call[r].st = "sending" /\ call'[r].st = "waiting" /\ ToAgent(call[r].conn, Frame("REQ", call[r].sid, r, 0))
      BY <2>2, CallerEffects DEF Send
    <3>2. /\ call[r].conn \in Conns /\ call[r].sid \in Sids /\ on[r] = call[r].conn /\ id[r] = call[r].sid
          /\ handler[r].st = "none"
      BY <1>2, <3>1 DEF IdsOK, CallsOK, HandlersOK, Holding, Sited, TypeOK
    <3>3. PICK f \in Frames : f = Frame("REQ", call[r].sid, r, 0)
      BY <3>2, FrameType
    <3>4. PICK c \in Conns : c = call[r].conn
      BY <3>2
    <3>5. f.t = "REQ" /\ f.of = r /\ f.sid = call[r].sid
      BY <3>3 DEF Frame
    <3>6. OrderOK(on, id, c, f)'
      BY <2>1, <3>1, <3>2, <3>4, <3>5 DEF OrderOK, Unopened
    <3>7. \A i \in 1..Len(down[c]) : down[c][i].t = "REQ" => down[c][i].of # f.of
      BY <1>2, <3>1, <3>5 DEF DownOK, OrderOK
    <3>8. down' = Written(down, c, f)
      BY <3>1, <3>3, <3>4 DEF ToAgent
    <3>. QED BY <1>2, <2>1, <3>6, <3>7, <3>8, DownAppended
  <2>3. CASE CancelSent(r)
    <3>1. call[r].st \in Holding /\ call'[r].st \notin Live /\ ToAgent(call[r].conn, Frame("CANCEL", call[r].sid, None, 0))
      BY <2>3, CallerEffects DEF CancelSent, Holding, Ended, Over, Live
    <3>2. call[r].conn \in Conns /\ call[r].sid \in Sids /\ on[r] = call[r].conn /\ id[r] = call[r].sid
      BY <3>1 DEF IdsOK, CallsOK, Sited, TypeOK
    <3>3. PICK f \in Frames : f = Frame("CANCEL", call[r].sid, None, 0)
      BY <3>2, FrameType
    <3>4. PICK c \in Conns : c = call[r].conn
      BY <3>2
    <3>5. f.t = "CANCEL" /\ f.sid = call[r].sid
      BY <3>3 DEF Frame
    <3>6. OrderOK(on, id, c, f)'
      BY <3>1, <3>2, <3>4, <3>5 DEF OrderOK, Dead
    <3>7. down' = Written(down, c, f)
      BY <3>1, <3>3, <3>4 DEF ToAgent
    <3>. QED BY <1>2, <2>1, <3>5, <3>6, <3>7, DownAppended
  <2>4. CASE ~Send(r) /\ ~CancelSent(r)
    <3>1. ~Open(r)
      OBVIOUS
    <3>2. down' = down
      BY <1>5, <2>4, <3>1 DEF Pick, CallerStep, SendFails, ReadHead, Read, CallerGone, Expire, Leave, Abort
    <3>. QED BY <1>4, <2>1, <3>2
  <2>. QED BY <2>2, <2>3, <2>4
<1>6. ASSUME NEW r \in Requests, HandlerStep(r) PROVE DownOK(on, id)'
  <2>1. \A q \in Requests : handler[q].st = "none" => handler'[q].st = "none"
    BY <1>6, HandlerEffects DEF HandlerStep
  <2>. QED BY <1>3, <1>4, <1>6, <2>1, HandlerFrame
<1>7. ASSUME NEW c \in Conns, AgentReads(c) PROVE DownOK(on, id)'
  <2>1. /\ 1 \in 1..Len(down[c]) /\ down[c] # <<>>
        /\ down' = [down EXCEPT ![c] = Tail(@)] \/ down' = [down EXCEPT ![c] = <<>>]
    BY <1>7, ReadsEffects
  <2>2. CASE down[c][1].t = "REQ" /\ handler' # handler
    <3>1. PICK g : g = down[c][1].of
      OBVIOUS
    <3>2. /\ g \in Requests /\ on[g] = c /\ handler[g].st = "none" /\ down[c][1].t = "REQ"
      BY <1>2, <2>1, <2>2, <3>1 DEF DownOK, OrderOK
    <3>3. \A q \in Requests : q # g => handler'[q] = handler[q]
      BY <1>7, <2>2, <3>1, ReadsEffects
    <3>4. ASSUME NEW d \in Conns, NEW i \in 1..Len(down[d]), NEW f \in Frames, f = down[d][i],
                 ~(d = c /\ i = 1)
          PROVE  OrderOK(on, id, d, f)'
      <4>1. OrderOK(on, id, d, f)
        BY <1>2, <3>4 DEF DownOK
      <4>2. CASE f.t = "REQ"
        <5>1. on[f.of] = d /\ f.of \in Requests /\ handler[f.of].st = "none"
          BY <4>1, <4>2 DEF OrderOK
        <5>2. f.of # g
          <6>1. CASE d = c
            BY <1>2, <2>1, <3>1, <3>2, <3>4, <4>2, <6>1 DEF DownOK
          <6>2. CASE d # c
            BY <3>2, <5>1, <6>2
          <6>. QED BY <6>1, <6>2
        <5>. QED BY <1>1, <3>3, <4>1, <4>2, <5>1, <5>2 DEF OrderOK, Forward
      <4>3. CASE f.t # "REQ"
        BY <1>1, <4>1, <4>3, StaysDead DEF OrderOK
      <4>. QED BY <4>2, <4>3
    <3>5. down' # down
      <4>1. down[c] \in Seq(Frames) /\ down \in [Conns -> Seq(Frames)]
        BY DEF TypeOK
      <4>2. Len(Tail(down[c])) # Len(down[c]) /\ Len(<<>>) # Len(down[c])
        BY <2>1, <4>1, TailFacts
      <4>3. down'[c] = Tail(down[c]) \/ down'[c] = <<>>
        BY <2>1, <4>1
      <4>. QED BY <4>2, <4>3
    <3>. QED BY <1>2, <2>1, <3>4, <3>5, DownDropped
  <2>3. CASE ~(down[c][1].t = "REQ" /\ handler' # handler)
    <3>1. \A q \in Requests : handler'[q].st = handler[q].st
      BY <1>7, <2>3, ReadsEffects
    <3>2. OrdersStay(on, id)
      BY <1>3, <3>1
    <3>. QED BY <1>2, <2>1, <3>2, DownDropped DEF OrdersStay
  <2>. QED BY <2>2, <2>3
<1>8. ASSUME NEW c \in Conns, AgentLoses(c) PROVE DownOK(on, id)'
  <2>1. (\A q \in Requests : handler'[q].st = handler[q].st) /\ down' = [down EXCEPT ![c] = <<>>]
    BY <1>8, LosesEffects
  <2>2. OrdersStay(on, id)
    BY <1>3, <2>1
  <2>. QED BY <1>2, <2>1, <2>2, DownDropped DEF OrdersStay
<1>9. ASSUME NEW c \in Conns, NEW s \in Sids, SendCancel(c, s) PROVE DownOK(on, id)'
  <2>1. handler' = handler /\ <<c, s>> \in cancels /\ ToAgent(c, Frame("CANCEL", s, None, 0))
    BY <1>9 DEF SendCancel, agentVars
  <2>2. PICK f \in Frames : f = Frame("CANCEL", s, None, 0)
    BY FrameType
  <2>3. f.t = "CANCEL" /\ f.sid = s
    BY <2>2 DEF Frame
  <2>4. Dead(on, id, c, s)'
    BY <1>1, <1>2, <2>1, StaysDead DEF CancelsOK
  <2>5. OrderOK(on, id, c, f)'
    BY <2>3, <2>4 DEF OrderOK
  <2>6. down' = Written(down, c, f)
    BY <2>1, <2>2 DEF ToAgent
  <2>. QED BY <1>2, <1>3, <2>1, <2>3, <2>5, <2>6, DownAppended
<1>10. ASSUME NEW c \in Conns, Revoke(c) PROVE DownOK(on, id)'
  <2>1. handler' = handler /\ ToAgent(c, Frame("REVOKED", 0, None, 0))
    BY <1>10 DEF Revoke, agentVars
  <2>2. PICK f \in Frames : f = Frame("REVOKED", 0, None, 0)
    BY FrameType
  <2>3. f.t = "REVOKED"
    BY <2>2 DEF Frame
  <2>4. OrderOK(on, id, c, f)'
    BY <2>3 DEF OrderOK
  <2>5. down' = Written(down, c, f)
    BY <2>1, <2>2 DEF ToAgent
  <2>. QED BY <1>2, <1>3, <2>1, <2>3, <2>4, <2>5, DownAppended
<1>11. ASSUME NEW c \in Conns, Dispatch(c) \/ RouterCloses(c) \/ Connect(c) \/ Lose(c) PROVE DownOK(on, id)'
  <2>1. down' = down /\ handler' = handler
    BY <1>11 DEF Dispatch, RouterCloses, Connect, Lose, agentVars
  <2>. QED BY <1>3, <1>4, <2>1
<1>12. ASSUME UNCHANGED <<handler, down>> PROVE DownOK(on, id)'
  BY <1>3, <1>4, <1>12
<1>. QED BY <1>5, <1>6, <1>7, <1>8, <1>9, <1>10, <1>11, <1>12, Steps DEF LinkStep

LEMMA HandlersKept ==
    ASSUME TypeOK, NEW on \in Places, NEW id \in Ids, WorkOK(on, id), [Next]_vars,
           \A r \in Requests : ~Open(r)
    PROVE  HandlersOK(on, id)'
<1>. DEFINE Good(q) ==
         /\ handler'[q].st \in Working =>
                on[q] # 0 /\ handler'[q].conn = on[q] /\ handler'[q].sid = id[q]
         /\ call'[q].st \in Unopened \cup {"sending"} => handler'[q].st = "none"
         /\ handler'[q].st \in {"none", "spawned", "calling"} => handler'[q].sent = 0
         /\ handler'[q].st \in {"none", "spawned", "over"} => ~handler'[q].cancelled
         /\ handler'[q].eof => handler'[q].st \in {"ending", "over"}
<1>1. \A q \in Requests : Forward(q)
  BY CallSteps
<1>2. ASSUME NEW q \in Requests
      PROVE  /\ handler[q].st \in Working =>
                    on[q] # 0 /\ handler[q].conn = on[q] /\ handler[q].sid = id[q]
             /\ call[q].st \in Unopened \cup {"sending"} => handler[q].st = "none"
             /\ handler[q].st \in {"none", "spawned", "calling"} => handler[q].sent = 0
             /\ handler[q].st \in {"none", "spawned", "over"} => ~handler[q].cancelled
             /\ handler[q].eof => handler[q].st \in {"ending", "over"}
  BY DEF WorkOK, HandlersOK
<1>3. ASSUME NEW q \in Requests, handler'[q] = handler[q] PROVE Good(q)
  BY <1>1, <1>2, <1>3 DEF Forward
<1>4. ASSUME NEW r \in Requests, HandlerStep(r) PROVE Good(r)
  <2>1. call' = call
    BY <1>4, HandlerFrame
  <2>2. handler[r].st # "none" /\ call'[r].st \notin Unopened \cup {"sending"}
    BY <1>2, <1>4, <2>1, HandlerEffects DEF HandlerStep
  <2>3. CASE Unregister(r)
    <3>1. handler'[r].st = "over" /\ ~handler'[r].cancelled
      BY <2>3, HandlerEffects
    <3>. QED BY <2>2, <3>1 DEF Working
  <2>4. CASE ~Unregister(r)
    <3>1. /\ handler'[r].conn = handler[r].conn /\ handler'[r].sid = handler[r].sid
          /\ handler'[r].cancelled = handler[r].cancelled
      BY <1>4, <2>4, HandlerEffects
    <3>2. /\ handler[r].st \in {"spawned", "calling", "streaming"}
          /\ handler'[r].st \in {"calling", "streaming", "ending"}
          /\ handler'[r].st = "calling" => handler[r].st = "spawned" /\ Register(r)
      BY <1>4, <2>4, HandlerEffects DEF HandlerStep
    <3>3. handler'[r].st = "calling" => handler'[r].sent = 0
      <4>1. Register(r) => ~Sends(r)
        BY DEF Register, Sends
      <4>. QED BY <1>2, <1>4, <3>2, <4>1, HandlerEffects
    <3>4. handler'[r].eof => handler'[r].st = "ending"
      <4>1. ~handler[r].eof
        BY <1>2, <3>2
      <4>2. CASE Ends(r)
        BY <4>2, HandlerEffects
      <4>3. CASE ~Ends(r)
        BY <1>4, <4>1, <4>3, HandlerEffects
      <4>. QED BY <4>2, <4>3
    <3>. QED BY <1>2, <2>2, <3>1, <3>2, <3>3, <3>4 DEF Working
  <2>. QED BY <2>3, <2>4
<1>5. ASSUME NEW c \in Conns, AgentReads(c), NEW q \in Requests PROVE Good(q)
  <2>1. 1 \in 1..Len(down[c]) /\ call' = call
    BY <1>5, ReadsEffects, LinkFrame DEF LinkStep
  <2>2. CASE handler'[q] = handler[q]
    BY <1>3, <2>2
  <2>3. CASE down[c][1].t = "REQ" /\ q = down[c][1].of /\ handler'[q] # handler[q]
    <3>1. /\ handler[q].st = "none" /\ on[q] = c /\ id[q] = down[c][1].sid
          /\ call[q].st \notin Unopened \cup {"sending"}
      BY <2>1, <2>3 DEF WorkOK, DownOK, OrderOK
    <3>2. /\ handler'[q].st = "spawned" /\ handler'[q].conn = c /\ handler'[q].sid = down[c][1].sid
          /\ handler'[q].sent = handler[q].sent /\ handler'[q].eof = handler[q].eof
          /\ handler'[q].cancelled = handler[q].cancelled
      BY <1>5, <2>3, ReadsEffects
    <3>3. handler[q].sent = 0 /\ ~handler[q].cancelled /\ ~handler[q].eof
      BY <1>2, <3>1
    <3>. QED BY <2>1, <3>1, <3>2, <3>3, Constants
  <2>4. CASE handler'[q] # handler[q] /\ ~(down[c][1].t = "REQ" /\ q = down[c][1].of)
    <3>1. /\ handler'[q].st = handler[q].st /\ handler'[q].conn = handler[q].conn
          /\ handler'[q].sid = handler[q].sid /\ handler'[q].sent = handler[q].sent
          /\ handler'[q].eof = handler[q].eof
          /\ down[c][1].t = "CANCEL" /\ q = running[down[c][1].sid]
      BY <1>5, <2>4, ReadsEffects
    <3>2. down[c][1].sid \in Sids
      BY <2>1, <3>1 DEF WorkOK, DownOK, OrderOK
    <3>3. handler[q].st \in {"calling", "streaming", "ending"}
      BY <3>1, <3>2, Constants DEF WorkOK, RunningOK
    <3>. QED BY <1>2, <2>1, <3>1, <3>3
  <2>. QED BY <2>2, <2>3, <2>4
<1>6. ASSUME NEW c \in Conns, AgentLoses(c), NEW q \in Requests PROVE Good(q)
  <2>1. call' = call
    BY <1>6, LinkFrame DEF LinkStep
  <2>2. /\ handler'[q].st = handler[q].st /\ handler'[q].conn = handler[q].conn
        /\ handler'[q].sid = handler[q].sid /\ handler'[q].sent = handler[q].sent
        /\ handler'[q].eof = handler[q].eof
        /\ handler'[q] # handler[q] => \E s \in Sids : running[s] = q
    BY <1>6, LosesEffects
  <2>3. CASE handler'[q] = handler[q]
    BY <1>3, <2>3
  <2>4. CASE handler'[q] # handler[q]
    <3>1. handler[q].st \in {"calling", "streaming", "ending"}
      BY <2>2, <2>4, Constants DEF WorkOK, RunningOK
    <3>. QED BY <1>2, <2>1, <2>2, <3>1
  <2>. QED BY <2>3, <2>4
<1>7. \A q \in Requests : Good(q)
  <2>1. ASSUME NEW r \in Requests, HandlerStep(r), NEW q \in Requests PROVE Good(q)
    BY <1>3, <1>4, <2>1, HandlerEffects
  <2>. QED BY <1>3, <1>5, <1>6, <2>1, Steps, CallerFrame, LinkFrame
<1>. QED BY <1>7 DEF HandlersOK

LEMMA RunningKept ==
    ASSUME TypeOK, NEW on \in Places, NEW id \in Ids, WorkOK(on, id), [Next]_vars
    PROVE  RunningOK'
<1>1. ASSUME NEW s \in Sids, running[s] # None
      PROVE  /\ running[s] \in Requests /\ handler[running[s]].sid = s
             /\ handler[running[s]].st \in {"calling", "streaming", "ending"}
  BY <1>1 DEF WorkOK, RunningOK, TypeOK
<1>2. ASSUME NEW r \in Requests, HandlerStep(r), NEW s \in Sids, running'[s] # None
      PROVE  handler'[running'[s]].st \in {"calling", "streaming", "ending"} /\ handler'[running'[s]].sid = s
  <2>1. CASE Register(r)
    <3>1. running' = [running EXCEPT ![handler[r].sid] = r] /\ ~Unregister(r)
      BY <2>1 DEF Register, Unregister
    <3>2. handler'[r].st = "calling" /\ handler'[r].sid = handler[r].sid /\ handler[r].st = "spawned"
      BY <1>2, <2>1, <3>1, HandlerEffects
    <3>3. CASE s = handler[r].sid
      BY <3>1, <3>2, <3>3 DEF TypeOK
    <3>4. CASE s # handler[r].sid
      <4>1. running'[s] = running[s]
        BY <3>1, <3>4 DEF TypeOK
      <4>2. running[s] # r
        BY <1>1, <1>2, <3>2, <4>1
      <4>. QED BY <1>1, <1>2, <4>1, <4>2, HandlerEffects
    <3>. QED BY <3>3, <3>4
  <2>2. CASE Unregister(r)
    <3>1. running' = [running EXCEPT ![handler[r].sid] = None]
      BY <2>2 DEF Unregister
    <3>2. s # handler[r].sid /\ running'[s] = running[s]
      BY <1>2, <3>1 DEF TypeOK
    <3>3. running[s] # r
      BY <1>1, <1>2, <3>2
    <3>. QED BY <1>1, <1>2, <3>2, <3>3, HandlerEffects
  <2>3. CASE ~Register(r) /\ ~Unregister(r)
    <3>1. running' = running
      BY <1>2, <2>3 DEF HandlerStep, Responds, Sends, Ends, Breaks, WriteFails
    <3>2. handler'[r].st \in {"streaming", "ending"} /\ handler'[r].sid = handler[r].sid
      BY <1>2, <2>3, HandlerEffects DEF HandlerStep
    <3>. QED BY <1>1, <1>2, <3>1, <3>2, HandlerEffects
  <2>. QED BY <2>1, <2>2, <2>3
<1>3. ASSUME NEW c \in Conns, AgentReads(c), NEW s \in Sids, running'[s] # None
      PROVE  handler'[running'[s]].st \in {"calling", "streaming", "ending"} /\ handler'[running'[s]].sid = s
  <2>1. running' = running /\ 1 \in 1..Len(down[c])
    BY <1>3, ReadsEffects
  <2>2. PICK q \in Requests : q = running[s]
    BY <1>1, <1>3, <2>1
  <2>3. handler[q].st \in {"calling", "streaming", "ending"} /\ handler[q].sid = s
    BY <1>1, <1>3, <2>1, <2>2
  <2>4. down[c][1].t = "REQ" => q # down[c][1].of
    BY <2>1, <2>3 DEF WorkOK, DownOK, OrderOK
  <2>5. handler'[q].st = handler[q].st /\ handler'[q].sid = handler[q].sid
    BY <1>3, <2>4, ReadsEffects
  <2>. QED BY <2>1, <2>2, <2>3, <2>5
<1>4. ASSUME NEW c \in Conns, AgentLoses(c), NEW s \in Sids, running'[s] # None PROVE FALSE
  BY <1>4, LosesEffects
<1>5. ASSUME UNCHANGED <<handler, running>> PROVE RunningOK'
  BY <1>5 DEF WorkOK, RunningOK
<1>. QED BY <1>2, <1>3, <1>4, <1>5, Steps, CallerFrame, LinkFrame DEF RunningOK

LEMMA CancelledKept ==
    ASSUME TypeOK, LinksOK, NEW on \in Places, NEW id \in Ids, IdsOK(on, id), WorkOK(on, id), [Next]_vars,
           \A r \in Requests : ~Open(r)
    PROVE  CancelledOK'
<1>1. \A q \in Requests : Forward(q)
  BY CallSteps
<1>2. ASSUME NEW q \in Requests, handler[q].cancelled
      PROVE  handler[q].conn \in Conns /\ (wire[handler[q].conn] = "lost" \/ call[q].st \notin Live)
  <2>1. handler[q].st \in Working
    BY <1>2 DEF WorkOK, HandlersOK, TypeOK, HandlerStates, Working
  <2>2. handler[q].conn = on[q] /\ on[q] # 0
    BY <2>1 DEF WorkOK, HandlersOK
  <2>. QED BY <1>2, <2>2 DEF WorkOK, CancelledOK, Places
<1>3. ASSUME NEW q \in Requests, handler[q].cancelled, handler'[q].conn = handler[q].conn, handler'[q].cancelled
      PROVE  wire'[handler'[q].conn] = "lost" \/ call'[q].st \notin Live
  BY <1>1, <1>2, <1>3, WireSteps DEF Forward
<1>4. ASSUME NEW r \in Requests, HandlerStep(r), NEW q \in Requests, handler'[q].cancelled
      PROVE  handler[q].cancelled /\ handler'[q].conn = handler[q].conn
  BY <1>4, HandlerEffects
<1>5. ASSUME NEW c \in Conns, AgentReads(c), NEW q \in Requests, handler'[q].cancelled
      PROVE  wire'[handler'[q].conn] = "lost" \/ call'[q].st \notin Live
  <2>1. 1 \in 1..Len(down[c]) /\ session = c /\ call' = call
    BY <1>5, ReadsEffects, LinkFrame DEF LinkStep
  <2>2. CASE handler'[q] = handler[q]
    BY <1>3, <1>5, <2>2
  <2>3. CASE down[c][1].t = "REQ" /\ q = down[c][1].of /\ handler'[q] # handler[q]
    <3>1. handler'[q].cancelled = handler[q].cancelled /\ handler[q].st = "none"
      BY <1>5, <2>1, <2>3, ReadsEffects DEF WorkOK, DownOK, OrderOK
    <3>2. ~handler[q].cancelled
      BY <3>1 DEF WorkOK, HandlersOK
    <3>. QED BY <1>5, <3>1, <3>2
  <2>4. CASE handler'[q] # handler[q] /\ ~(down[c][1].t = "REQ" /\ q = down[c][1].of)
    <3>1. /\ handler'[q].st = handler[q].st /\ handler'[q].conn = handler[q].conn
          /\ down[c][1].t = "CANCEL" /\ q = running[down[c][1].sid]
      BY <1>5, <2>4, ReadsEffects
    <3>2. PICK s \in Sids : s = down[c][1].sid
      BY <2>1, <3>1 DEF WorkOK, DownOK, OrderOK
    <3>3. Dead(on, id, c, s)
      BY <2>1, <3>1, <3>2 DEF WorkOK, DownOK, OrderOK
    <3>4. handler[q].st \in {"calling", "streaming", "ending"} /\ handler[q].sid = s
      BY <3>1, <3>2, Constants DEF WorkOK, RunningOK
    <3>5. handler[q].conn = on[q] /\ on[q] # 0 /\ on[q] \in Conns /\ id[q] = s
      BY <3>4 DEF WorkOK, HandlersOK, Working, Places
    <3>6. CASE on[q] = c
      <4>1. call[q].st \notin Live
        BY <3>3, <3>5, <3>6, Constants DEF Dead, IdsOK, OpenedOnce
      <4>. QED BY <2>1, <4>1
    <3>7. CASE on[q] # c
      <4>1. wire[on[q]] # "up" /\ wire[on[q]] # "new"
        BY <2>1, <3>5, <3>7 DEF LinksOK
      <4>2. wire[on[q]] = "lost"
        BY <3>5, <4>1 DEF TypeOK
      <4>. QED BY <3>1, <3>5, <4>2, WireSteps
    <3>. QED BY <3>6, <3>7
  <2>. QED BY <2>2, <2>3, <2>4
<1>6. ASSUME NEW c \in Conns, AgentLoses(c), NEW q \in Requests, handler'[q].cancelled
      PROVE  wire'[handler'[q].conn] = "lost" \/ call'[q].st \notin Live
  <2>1. CASE handler'[q] = handler[q]
    BY <1>3, <1>6, <2>1
  <2>2. CASE handler'[q] # handler[q]
    <3>1. /\ session = c /\ wire[c] = "lost" /\ handler'[q].conn = handler[q].conn
          /\ \E s \in Sids : running[s] = q
      BY <1>6, <2>2, LosesEffects
    <3>2. handler[q].st \in {"calling", "streaming", "ending"}
      BY <3>1, Constants DEF WorkOK, RunningOK
    <3>3. handler[q].conn = on[q] /\ on[q] # 0 /\ on[q] \in Conns
      BY <3>2 DEF WorkOK, HandlersOK, Working, Places
    <3>4. wire[on[q]] # "up" /\ wire[on[q]] # "new"
      BY <3>1, <3>3 DEF LinksOK
    <3>5. wire[on[q]] = "lost"
      BY <3>3, <3>4 DEF TypeOK
    <3>. QED BY <3>1, <3>3, <3>5, WireSteps
  <2>. QED BY <2>1, <2>2
<1>7. ASSUME handler' = handler, NEW q \in Requests, handler'[q].cancelled
      PROVE  wire'[handler'[q].conn] = "lost" \/ call'[q].st \notin Live
  BY <1>3, <1>7
<1>8. \A q \in Requests : handler'[q].cancelled => wire'[handler'[q].conn] = "lost" \/ call'[q].st \notin Live
  BY <1>3, <1>4, <1>5, <1>6, <1>7, Steps, CallerFrame, LinkFrame
<1>. QED BY <1>8 DEF CancelledOK

LEMMA WorkKept ==
    ASSUME TypeOK, Sited, LinksOK, NEW on \in Places, NEW id \in Ids, IdsOK(on, id), WorkOK(on, id),
           [Next]_vars, \A r \in Requests : ~Open(r)
    PROVE  WorkOK(on, id)'
BY CancelsKept, DownKept, HandlersKept, RunningKept, CancelledKept DEF WorkOK

LEMMA WorkOpened ==
    ASSUME TypeOK, NEW on \in Places, NEW id \in Ids, IdsOK(on, id), WorkOK(on, id),
           NEW r \in Requests, Open(r),
           NEW on2 \in Places, NEW id2 \in Ids, on2 = OnAfter(on, r), id2 = IdAfter(id, r)
    PROVE  WorkOK(on2, id2)'
<1>1. /\ call[r].st = "picked" /\ on[r] = 0 /\ call[r].conn \in Conns
      /\ UNCHANGED <<cancels, wire, running, handler, down>>
      /\ \A q \in Requests : q # r => call'[q] = call[q]
  BY OpenFacts
<1>2. \A q \in Requests : q # r => on2[q] = on[q] /\ id2[q] = id[q]
  BY <1>1 DEF OnAfter, IdAfter, Places, Ids
<1>3. call'[r].st = "sending" /\ handler[r].st = "none" /\ ~handler[r].cancelled
  <2>1. handler[r].st = "none"
    BY <1>1 DEF WorkOK, HandlersOK, Unopened
  <2>. QED BY <2>1, CallerEffects DEF WorkOK, HandlersOK
<1>4. ASSUME NEW c \in Conns, NEW s, Dead(on, id, c, s) PROVE Dead(on2, id2, c, s)'
  <2>1. PICK q \in Requests : on[q] = c /\ id[q] = s /\ call[q].st \notin Live
    BY <1>4 DEF Dead
  <2>2. q # r
    BY <1>1, <2>1, Constants
  <2>. QED BY <1>1, <1>2, <2>1, <2>2 DEF Dead
<1>5. CancelsOK(on2, id2)'
  BY <1>1, <1>4 DEF WorkOK, CancelsOK
<1>6. ASSUME NEW c \in Conns, NEW f \in Frames, OrderOK(on, id, c, f) PROVE OrderOK(on2, id2, c, f)'
  <2>1. CASE f.t = "REQ"
    <3>1. f.of \in Requests /\ on[f.of] = c /\ id[f.of] = f.sid /\ handler[f.of].st = "none"
          /\ call[f.of].st \notin Unopened \cup {"sending"}
      BY <1>6, <2>1 DEF OrderOK
    <3>2. f.of # r
      BY <1>1, <3>1, Constants
    <3>. QED BY <1>1, <1>2, <2>1, <3>1, <3>2 DEF OrderOK
  <2>2. CASE f.t # "REQ"
    BY <1>4, <1>6, <2>2 DEF OrderOK
  <2>. QED BY <2>1, <2>2
<1>7. DownOK(on2, id2)'
  <2>. SUFFICES ASSUME NEW d \in Conns, NEW i \in 1..Len(down[d])
                PROVE  OrderOK(on2, id2, d, down[d][i])'
    BY <1>1 DEF WorkOK, DownOK
  <2>1. PICK f \in Frames : f = down[d][i]
    BY DEF TypeOK
  <2>2. OrderOK(on2, id2, d, f)'
    BY <1>6, <2>1 DEF WorkOK, DownOK
  <2>. QED BY <1>1, <2>1, <2>2
<1>8. HandlersOK(on2, id2)'
  <2>. SUFFICES ASSUME NEW q \in Requests
                PROVE  /\ handler[q].st \in Working => on2[q] # 0 /\ handler[q].conn = on2[q] /\ handler[q].sid = id2[q]
                       /\ call'[q].st \in Unopened \cup {"sending"} => handler[q].st = "none"
                       /\ handler[q].st \in {"none", "spawned", "calling"} => handler[q].sent = 0
                       /\ handler[q].st \in {"none", "spawned", "over"} => ~handler[q].cancelled
                       /\ handler[q].eof => handler[q].st \in {"ending", "over"}
    BY <1>1 DEF HandlersOK
  <2>1. CASE q = r
    BY <1>3, <2>1 DEF WorkOK, HandlersOK, Working
  <2>2. CASE q # r
    BY <1>1, <1>2, <2>2 DEF WorkOK, HandlersOK
  <2>. QED BY <2>1, <2>2
<1>9. RunningOK'
  BY <1>1 DEF WorkOK, RunningOK
<1>10. CancelledOK'
  BY <1>1, <1>3 DEF WorkOK, CancelledOK
<1>. QED BY <1>5, <1>7, <1>8, <1>9, <1>10 DEF WorkOK

----------------------------------------------------------------------------
(* Answers *)

\* What was produced stays so, at its place.
LEMMA StaysProduced ==
    ASSUME NEW f \in Frames, Produced(f), \A q \in Requests : Grown(q)
    PROVE  /\ Produced(f)'
           /\ f.t # "ERR" => Place(f, handler'[f.of].sent) = Place(f, handler[f.of].sent)
<1>1. f.of \in Requests /\ Grown(f.of)
  BY DEF Produced
<1>. QED BY <1>1 DEF Produced, Place, Grown, Frames

\* The answer of r goes into the connection; nothing else does.
LEMMA UpSteps ==
    ASSUME TypeOK, Sited, [Next]_vars
    PROVE  \/ up' = up /\ (\A r \in Requests : ~HandlerStep(r))
           \/ \E c \in Conns : up[c] # <<>> /\ up' = [up EXCEPT ![c] = Tail(@)] /\ Dispatch(c)
           \/ \E c \in Conns : up' = [up EXCEPT ![c] = <<>>] /\ Told(c) /\ UNCHANGED <<call, handler>>
           \/ \E r \in Requests : HandlerStep(r)
<1>1. ASSUME NEW c \in Conns, LinkStep(c) \/ Connect(c) \/ Lose(c) \/ Revoke(c)
      PROVE  \/ up' = up \/ Dispatch(c)
             \/ \E d \in Conns : up' = [up EXCEPT ![d] = <<>>] /\ Told(d) /\ UNCHANGED <<call, handler>>
  <2>1. CASE RouterCloses(c)
    BY <2>1, CloseEffects DEF RouterCloses, agentVars
  <2>2. CASE Connect(c)
    <3>1. CASE current # 0
      <4>1. current \in Conns /\ CloseAll(current) /\ up' = [up EXCEPT ![current] = <<>>]
        BY <2>2, <3>1 DEF Connect, TypeOK
      <4>. QED BY <2>2, <4>1, CloseEffects DEF Connect, agentVars
    <3>. QED BY <2>2, <3>1 DEF Connect
  <2>3. CASE AgentReads(c) \/ AgentLoses(c) \/ (\E s \in Sids : SendCancel(c, s)) \/ Lose(c) \/ Revoke(c)
    BY <2>3 DEF AgentReads, AgentLoses, SendCancel, Lose, Revoke, ToAgent
  <2>. QED BY <1>1, <2>1, <2>2, <2>3 DEF LinkStep
<1>2. ASSUME NEW c \in Conns, Dispatch(c) PROVE up[c] # <<>> /\ up' = [up EXCEPT ![c] = Tail(@)]
  BY <1>2, DispatchEffects
<1>. QED BY <1>1, <1>2, Steps, CallerFrame

\* A frame that a handler writes is produced by the step that writes it.
Writes(on, id, r, t) ==
    \E c \in Conns, f \in Frames :
        /\ c = on[r] /\ f.sid = id[r] /\ f.of = r /\ f.t = t
        /\ t = "DATA" => f.n = handler[r].sent + 1
        /\ up' = Written(up, c, f) /\ Produced(f)'

LEMMA WritesProduced ==
    ASSUME TypeOK, Sited, NEW on \in Places, NEW id \in Ids, WorkOK(on, id),
           NEW r \in Requests, HandlerStep(r)
    PROVE  /\ Responds(r) => Writes(on, id, r, "RESP")
           /\ Sends(r) => Writes(on, id, r, "DATA")
           /\ Ends(r) => Writes(on, id, r, "END")
           /\ Breaks(r) => up' = up \/ Writes(on, id, r, "ERR")
           /\ Register(r) \/ WriteFails(r) \/ Unregister(r) => up' = up
<1>0. handler[r].sent \in Nat
  BY DEF TypeOK
<1>1. ASSUME NEW t \in {"RESP", "DATA", "END", "ERR"}, NEW n \in Nat,
             handler[r].st \in {"calling", "streaming"},
             ToRouter(handler[r].conn, Frame(t, handler[r].sid, r, n))
      PROVE  \E c \in Conns, f \in Frames : /\ c = on[r] /\ f.sid = id[r] /\ f.of = r
                                            /\ f.t = t /\ f.n = n /\ up' = Written(up, c, f)
  <2>1. handler[r].conn \in Conns /\ handler[r].sid \in Sids
    BY <1>1 DEF Sited, Working, TypeOK
  <2>2. handler[r].conn = on[r] /\ handler[r].sid = id[r]
    BY <1>1 DEF WorkOK, HandlersOK, Working
  <2>3. PICK f \in Frames : f = Frame(t, handler[r].sid, r, n)
    BY <2>1, FrameType
  <2>4. f.t = t /\ f.n = n /\ f.of = r /\ f.sid = handler[r].sid
    BY <2>3 DEF Frame
  <2>. QED BY <1>1, <2>1, <2>2, <2>3, <2>4 DEF ToRouter
<1>2. ASSUME Responds(r) PROVE Writes(on, id, r, "RESP")
  <2>1. handler[r].st = "calling" /\ handler'[r].st = "streaming"
        /\ ToRouter(handler[r].conn, Frame("RESP", handler[r].sid, r, 0))
    BY <1>2, HandlerEffects DEF Responds
  <2>2. PICK c \in Conns, f \in Frames : /\ c = on[r] /\ f.sid = id[r] /\ f.of = r
                                         /\ f.t = "RESP" /\ up' = Written(up, c, f)
    BY <1>1, <2>1
  <2>3. Produced(f)'
    BY <2>1, <2>2 DEF Produced, Answered
  <2>. QED BY <2>1, <2>2, <2>3 DEF Writes
<1>3. ASSUME Sends(r) PROVE Writes(on, id, r, "DATA")
  <2>1. /\ handler[r].st = "streaming" /\ handler'[r].st = "streaming" /\ handler'[r].sent = handler[r].sent + 1
        /\ ToRouter(handler[r].conn, Frame("DATA", handler[r].sid, r, handler[r].sent + 1))
    BY <1>3, HandlerEffects DEF Sends
  <2>2. PICK c \in Conns, f \in Frames : /\ c = on[r] /\ f.sid = id[r] /\ f.of = r /\ f.t = "DATA"
                                         /\ f.n = handler[r].sent + 1 /\ up' = Written(up, c, f)
    BY <1>0, <1>1, <2>1
  <2>3. Produced(f)'
    BY <1>0, <2>1, <2>2 DEF Produced, Answered
  <2>. QED BY <2>1, <2>2, <2>3 DEF Writes
<1>4. ASSUME Ends(r) PROVE Writes(on, id, r, "END")
  <2>1. /\ handler[r].st = "streaming" /\ handler'[r].st = "ending" /\ handler'[r].eof
        /\ ToRouter(handler[r].conn, Frame("END", handler[r].sid, r, 0))
    BY <1>4, HandlerEffects DEF Ends
  <2>2. PICK c \in Conns, f \in Frames : /\ c = on[r] /\ f.sid = id[r] /\ f.of = r
                                         /\ f.t = "END" /\ up' = Written(up, c, f)
    BY <1>1, <2>1
  <2>3. Produced(f)'
    BY <2>1, <2>2 DEF Produced, Answered
  <2>. QED BY <2>1, <2>2, <2>3 DEF Writes
<1>5. ASSUME Breaks(r), up' # up PROVE Writes(on, id, r, "ERR")
  <2>1. /\ handler[r].st \in {"calling", "streaming"} /\ handler'[r].st = "ending"
        /\ ToRouter(handler[r].conn, Frame("ERR", handler[r].sid, r, 0))
    BY <1>5, HandlerEffects DEF Breaks
  <2>2. PICK c \in Conns, f \in Frames : /\ c = on[r] /\ f.sid = id[r] /\ f.of = r
                                         /\ f.t = "ERR" /\ up' = Written(up, c, f)
    BY <1>1, <2>1
  <2>3. Produced(f)'
    BY <2>1, <2>2 DEF Produced, Answered
  <2>. QED BY <2>1, <2>2, <2>3 DEF Writes
<1>6. Register(r) \/ WriteFails(r) \/ Unregister(r) => up' = up
  BY DEF Register, WriteFails, Unregister
<1>. QED BY <1>2, <1>3, <1>4, <1>5, <1>6

LEMMA PlaceType ==
    ASSUME NEW f \in Frames, NEW sent \in Nat
    PROVE  Place(f, sent) \in Nat
BY DEF Place, Frames

\* The head of the connection goes to the queue, or is none of r's.
LEMMA FollowTail ==
    ASSUME NEW u \in Seq(Frames), u # <<>>, NEW r \in Requests, NEW sent \in Nat, NEW due \in Nat,
           Follow(u, r, sent, due)
    PROVE  /\ ~Piece(u[1], r) => Follow(Tail(u), r, sent, due)
           /\ Piece(u[1], r) => Place(u[1], sent) = due /\ Follow(Tail(u), r, sent, due + 1)
<1>. DEFINE v == Tail(u)
<1>1. /\ v \in Seq(Frames) /\ Len(v) = Len(u) - 1 /\ Len(u) \in Nat \ {0}
      /\ \A i \in 1..Len(v) : v[i] = u[i + 1] /\ i + 1 \in 2..Len(u)
      /\ 1 \in 1..Len(u)
  BY TailFacts
<1>2. \A i \in 1..Len(u) : u[i] \in Frames /\ Place(u[i], sent) \in Nat
  <2>1. \A i \in 1..Len(u) : u[i] \in Frames
    OBVIOUS
  <2>. QED BY <2>1, PlaceType
<1>3. Piece(u[1], r) => Place(u[1], sent) = due
  BY <1>1, <1>2 DEF Follow
<1>. HIDE DEF v
<1>4. ASSUME NEW e \in Nat, e = IF Piece(u[1], r) THEN due + 1 ELSE due PROVE Follow(v, r, sent, e)
  <2>. SUFFICES ASSUME NEW i \in 1..Len(v), Piece(v[i], r)
                PROVE  /\ Place(v[i], sent) >= e
                       /\ \/ Place(v[i], sent) = e
                          \/ \E j \in 1..(i - 1) : Piece(v[j], r) /\ Place(v[j], sent) = Place(v[i], sent) - 1
                       /\ \A j \in 1..(i - 1) : Piece(v[j], r) => Place(v[j], sent) < Place(v[i], sent)
    BY DEF Follow
  <2>. DEFINE k == i + 1
  <2>1. k \in 2..Len(u) /\ k \in 1..Len(u) /\ v[i] = u[k] /\ Piece(u[k], r) /\ Place(u[k], sent) \in Nat
    BY <1>1, <1>2
  <2>2. /\ Place(u[k], sent) >= due
        /\ \/ Place(u[k], sent) = due
           \/ \E j \in 1..(k - 1) : Piece(u[j], r) /\ Place(u[j], sent) = Place(u[k], sent) - 1
        /\ \A j \in 1..(k - 1) : Piece(u[j], r) => Place(u[j], sent) < Place(u[k], sent)
    BY <2>1 DEF Follow
  <2>3. \A j \in 1..(i - 1) : j \in 1..Len(v) /\ v[j] = u[j + 1] /\ j + 1 \in 1..(k - 1)
    BY <1>1
  <2>4. \A j \in 1..(i - 1) : Piece(v[j], r) => Place(v[j], sent) < Place(v[i], sent)
    BY <2>1, <2>2, <2>3
  <2>5. CASE Piece(u[1], r)
    <3>1. Place(u[1], sent) < Place(u[k], sent) /\ Place(u[1], sent) = due
      BY <1>3, <2>1, <2>2, <2>5
    <3>2. Place(u[k], sent) >= e
      BY <1>4, <2>1, <2>5, <3>1
    <3>3. PICK j \in 1..(k - 1) : Piece(u[j], r) /\ Place(u[j], sent) = Place(u[k], sent) - 1
      BY <2>1, <2>2, <3>1
    <3>4. CASE j = 1
      <4>1. Place(v[i], sent) = e
        BY <1>4, <2>1, <2>5, <3>1, <3>3, <3>4
      <4>. QED BY <2>1, <2>4, <3>2, <4>1
    <3>5. CASE j # 1
      <4>1. j - 1 \in 1..(i - 1) /\ v[j - 1] = u[j]
        BY <1>1, <3>3, <3>5
      <4>. QED BY <2>1, <2>4, <3>2, <3>3, <4>1
    <3>. QED BY <3>4, <3>5
  <2>6. CASE ~Piece(u[1], r)
    <3>1. CASE Place(u[k], sent) = due
      BY <1>4, <2>1, <2>2, <2>4, <2>6, <3>1
    <3>2. CASE Place(u[k], sent) # due
      <4>1. PICK j \in 1..(k - 1) : Piece(u[j], r) /\ Place(u[j], sent) = Place(u[k], sent) - 1
        BY <2>2, <3>2
      <4>2. j - 1 \in 1..(i - 1) /\ v[j - 1] = u[j]
        BY <1>1, <2>6, <4>1
      <4>. QED BY <1>4, <2>1, <2>2, <2>4, <2>6, <4>1, <4>2
    <3>. QED BY <3>1, <3>2
  <2>. QED BY <2>5, <2>6
<1>. QED BY <1>3, <1>4 DEF v

LEMMA ReachTail ==
    ASSUME NEW u \in Seq(Frames), u # <<>>, NEW r \in Requests, NEW sent \in Nat, NEW due \in Nat,
           Reach(u, r, sent, due)
    PROVE  /\ ~Piece(u[1], r) => Reach(Tail(u), r, sent, due)
           /\ Piece(u[1], r) /\ Place(u[1], sent) = due /\ due <= sent => Reach(Tail(u), r, sent, due + 1)
<1>1. /\ Len(Tail(u)) = Len(u) - 1 /\ Len(u) \in Nat \ {0}
      /\ \A i \in 1..Len(Tail(u)) : Tail(u)[i] = u[i + 1]
  BY TailFacts
<1>2. CASE due = sent + 1
  BY <1>2 DEF Reach
<1>3. CASE due # sent + 1
  <2>1. PICK j \in 1..Len(u) : Piece(u[j], r) /\ Place(u[j], sent) = sent
    BY <1>3 DEF Reach
  <2>2. CASE j = 1
    BY <2>1, <2>2 DEF Reach
  <2>3. CASE j # 1
    <3>1. j - 1 \in 1..Len(Tail(u)) /\ Tail(u)[j - 1] = u[j]
      BY <1>1, <2>3
    <3>. QED BY <2>1, <3>1 DEF Reach
  <2>. QED BY <2>2, <2>3
<1>. QED BY <1>2, <1>3

\* A frame is written: of another request, or the next of r's.
LEMMA FollowAppend ==
    ASSUME NEW u \in Seq(Frames), NEW f \in Frames, NEW r \in Requests, NEW sent \in Nat,
           NEW due \in Nat, Follow(u, r, sent, due),
           Piece(f, r) =>
               /\ Place(f, sent) >= due
               /\ \/ Place(f, sent) = due
                  \/ \E j \in 1..Len(u) : Piece(u[j], r) /\ Place(u[j], sent) = Place(f, sent) - 1
               /\ \A j \in 1..Len(u) : Piece(u[j], r) => Place(u[j], sent) < Place(f, sent)
    PROVE  Follow(Append(u, f), r, sent, due)
<1>. DEFINE v == Append(u, f)
<1>1. /\ Len(v) = Len(u) + 1 /\ Len(u) \in Nat /\ v[Len(u) + 1] = f
      /\ \A i \in 1..Len(u) : v[i] = u[i]
  BY AppendFacts
<1>. HIDE DEF v
<1>. SUFFICES ASSUME NEW i \in 1..Len(v), Piece(v[i], r)
              PROVE  /\ Place(v[i], sent) >= due
                     /\ \/ Place(v[i], sent) = due
                        \/ \E j \in 1..(i - 1) : Piece(v[j], r) /\ Place(v[j], sent) = Place(v[i], sent) - 1
                     /\ \A j \in 1..(i - 1) : Piece(v[j], r) => Place(v[j], sent) < Place(v[i], sent)
  BY DEF Follow, v
<1>2. \A j \in 1..(i - 1) : j \in 1..Len(u) /\ v[j] = u[j]
  BY <1>1
<1>3. CASE i = Len(u) + 1
  BY <1>1, <1>2, <1>3
<1>4. CASE i # Len(u) + 1
  <2>1. i \in 1..Len(u) /\ v[i] = u[i] /\ Piece(u[i], r)
    BY <1>1, <1>4
  <2>2. /\ Place(u[i], sent) >= due
        /\ \/ Place(u[i], sent) = due
           \/ \E j \in 1..(i - 1) : Piece(u[j], r) /\ Place(u[j], sent) = Place(u[i], sent) - 1
        /\ \A j \in 1..(i - 1) : Piece(u[j], r) => Place(u[j], sent) < Place(u[i], sent)
    BY <2>1 DEF Follow
  <2>. QED BY <1>2, <2>1, <2>2
<1>. QED BY <1>3, <1>4

LEMMA ReachAppend ==
    ASSUME NEW u \in Seq(Frames), NEW f \in Frames, NEW r \in Requests, NEW sent \in Nat,
           NEW due \in Nat, Reach(u, r, sent, due) \/ (Piece(f, r) /\ Place(f, sent) = sent)
    PROVE  Reach(Append(u, f), r, sent, due)
<1>1. /\ Len(Append(u, f)) = Len(u) + 1 /\ Len(u) \in Nat /\ Append(u, f)[Len(u) + 1] = f
      /\ \A i \in 1..Len(u) : Append(u, f)[i] = u[i]
  BY AppendFacts
<1>2. CASE Reach(u, r, sent, due)
  BY <1>1, <1>2 DEF Reach
<1>3. CASE Piece(f, r) /\ Place(f, sent) = sent
  BY <1>1, <1>3 DEF Reach
<1>. QED BY <1>2, <1>3

\* More is made: the places of a head and of data are what they were.
LEMMA FollowMore ==
    ASSUME NEW u \in Seq(Frames), NEW r \in Requests, NEW sent, NEW more, NEW due,
           Follow(u, r, sent, due), \A i \in 1..Len(u) : Piece(u[i], r) => u[i].t \in {"RESP", "DATA"}
    PROVE  Follow(u, r, more, due)
<1>1. \A i \in 1..Len(u) : Piece(u[i], r) => Place(u[i], more) = Place(u[i], sent)
  BY DEF Place
<1>2. \A i \in 1..Len(u) : \A j \in 1..(i - 1) : j \in 1..Len(u)
  OBVIOUS
<1>. QED BY <1>1, <1>2 DEF Follow

LEMMA UpKept ==
    ASSUME TypeOK, Sited, NEW on \in Places, NEW id \in Ids, WorkOK(on, id), UpOK(on, id),
           [Next]_vars
    PROVE  UpOK(on, id)'
<1>1. \A q \in Requests : Grown(q)
  BY HandlerSteps DEF WorkOK
<1>2. up \in [Conns -> Seq(Frames)]
  BY DEF TypeOK
<1>3. ASSUME NEW c \in Conns, NEW i \in 1..Len(up[c]), NEW f \in Frames, f = up[c][i]
      PROVE  Produced(f)' /\ on[f.of] = c /\ id[f.of] = f.sid
  <2>1. Produced(f) /\ on[f.of] = c /\ id[f.of] = f.sid
    BY <1>3 DEF UpOK
  <2>. QED BY <1>1, <2>1, StaysProduced
<1>. SUFFICES ASSUME NEW d \in Conns, NEW i \in 1..Len(up'[d]), NEW f \in Frames, f = up'[d][i]
              PROVE  Produced(f)' /\ on[f.of] = d /\ id[f.of] = f.sid
  <2>1. \A d \in Conns : \A i \in 1..Len(up'[d]) : up'[d][i] \in Frames
    BY TypeKept DEF TypeOK
  <2>2. \A d \in Conns : \A i \in 1..Len(up'[d]) : \A f \in Frames :
            f = up'[d][i] => Produced(f)' /\ on[f.of] = d /\ id[f.of] = f.sid
    BY <1>1
  <2>. QED BY <2>1, <2>2 DEF UpOK
<1>4. CASE up'[d] = up[d]
  BY <1>3, <1>4
<1>5. CASE up[d] # <<>> /\ up'[d] = Tail(up[d])
  <2>1. i + 1 \in 1..Len(up[d]) /\ f = up[d][i + 1]
    BY <1>2, <1>5, TailFacts
  <2>. QED BY <1>3, <2>1
<1>6. CASE up'[d] = <<>>
  BY <1>6
<1>7. ASSUME NEW r \in Requests, HandlerStep(r) PROVE Produced(f)' /\ on[f.of] = d /\ id[f.of] = f.sid
  <2>1. CASE up' = up
    BY <1>4, <2>1
  <2>2. CASE up' # up
    <3>1. PICK c \in Conns, g \in Frames : /\ c = on[r] /\ g.sid = id[r] /\ g.of = r
                                           /\ up' = Written(up, c, g) /\ Produced(g)'
      BY <1>7, <2>2, WritesProduced DEF HandlerStep, Writes
    <3>2. \/ up'[d] = up[d] \/ (d = c /\ up'[d] = Append(up[d], g))
      BY <1>2, <3>1 DEF Written
    <3>3. CASE d = c /\ up'[d] = Append(up[d], g) /\ i \in 1..Len(up[d])
      <4>1. f = up[d][i]
        BY <1>2, <3>3, AppendFacts
      <4>. QED BY <1>3, <3>3, <4>1
    <3>4. CASE d = c /\ up'[d] = Append(up[d], g) /\ i \notin 1..Len(up[d])
      <4>1. f = g
        BY <1>2, <3>4, AppendFacts
      <4>. QED BY <3>1, <3>4, <4>1
    <3>. QED BY <1>4, <3>2, <3>3, <3>4
  <2>. QED BY <2>1, <2>2
<1>8. CASE \E c \in Conns : up[c] # <<>> /\ up' = [up EXCEPT ![c] = Tail(@)]
  BY <1>2, <1>4, <1>5, <1>8
<1>9. CASE \E c \in Conns : up' = [up EXCEPT ![c] = <<>>]
  BY <1>2, <1>4, <1>6, <1>9
<1>. QED BY <1>4, <1>7, <1>8, <1>9, UpSteps

(* What is in a caller's queue *)

LEMMA StaysSeated ==
    ASSUME NEW f \in Frames, NEW r \in Requests, NEW k, Seated(f, r, k),
           \A q \in Requests : Grown(q)
    PROVE  Seated(f, r, k)'
<1>1. CASE f.t = "ERR"
  BY <1>1 DEF Seated
<1>2. CASE f.t # "ERR"
  <2>1. f.of = r /\ Produced(f) /\ Place(f, handler[r].sent) = k
    BY <1>2 DEF Seated
  <2>2. Produced(f)' /\ Place(f, handler'[r].sent) = Place(f, handler[r].sent)
    BY <1>2, <2>1, StaysProduced
  <2>. QED BY <2>1, <2>2 DEF Seated
<1>. QED BY <1>1, <1>2

LEMMA QueueStays ==
    ASSUME TypeOK, NEW r \in Requests, QueueOK(r), \A q \in Requests : Grown(q),
           inbox'[r] = inbox[r],
           call'[r].st \in Live =>
               /\ call[r].st \in Live /\ (call'[r].st = "reading" <=> call[r].st = "reading")
               /\ call'[r].got = call[r].got
    PROVE  QueueOK(r)'
<1>1. inbox[r] \in Seq(Frames)
  BY DEF TypeOK
<1>2. call'[r].st = "reading" => handler'[r].st \in Answered
  BY DEF QueueOK, Grown, Live
<1>3. call'[r].st \in Live => Reads(r)' = Reads(r)
  BY DEF Reads
<1>4. ASSUME call'[r].st \in Live, NEW i \in 1..Len(inbox[r]), NEW f \in Frames, f = inbox[r][i]
      PROVE  Seated(f, r, Reads(r) + i - 1)'
  <2>1. Seated(f, r, Reads(r) + i - 1)
    BY <1>4 DEF QueueOK
  <2>2. PICK k : k = Reads(r) + i - 1
    OBVIOUS
  <2>3. Seated(f, r, k)'
    BY <2>1, <2>2, StaysSeated
  <2>. QED BY <1>3, <1>4, <2>2, <2>3
<1>5. call'[r].st \in Live => \A i \in 1..Len(inbox'[r]) : Seated(inbox[r][i], r, Reads(r) + i - 1)'
  <2>1. \A i \in 1..Len(inbox[r]) : inbox[r][i] \in Frames
    BY <1>1
  <2>. QED BY <1>4, <2>1
<1>. QED BY <1>2, <1>5 DEF QueueOK

LEMMA QueueGone ==
    ASSUME NEW r \in Requests, inbox'[r] = <<>>, call'[r].st \notin Live
    PROVE  QueueOK(r)'
BY DEF QueueOK, Live

LEMMA QueuePops ==
    ASSUME TypeOK, NEW r \in Requests, QueueOK(r), \A q \in Requests : Grown(q),
           inbox[r] # <<>>, inbox'[r] = Tail(inbox[r]), call[r].st \in {"waiting", "reading"},
           call'[r].st = "reading", handler[r].st \in Answered,
           call'[r].got = IF call[r].st = "reading" THEN call[r].got + 1 ELSE 0
    PROVE  QueueOK(r)'
<1>1. /\ inbox[r] \in Seq(Frames) /\ Len(inbox'[r]) = Len(inbox[r]) - 1 /\ Len(inbox[r]) \in Nat \ {0}
      /\ \A i \in 1..Len(inbox'[r]) : inbox'[r][i] = inbox[r][i + 1] /\ i + 1 \in 1..Len(inbox[r])
  <2>1. inbox[r] \in Seq(Frames)
    BY DEF TypeOK
  <2>. QED BY <2>1, TailFacts
<1>2. handler'[r].st \in Answered
  BY DEF Grown
<1>3. Reads(r) \in Nat /\ Reads(r)' = Reads(r) + 1
  BY DEF Reads, TypeOK
<1>4. ASSUME NEW i \in 1..Len(inbox'[r]), NEW f \in Frames, f = inbox'[r][i]
      PROVE  Seated(f, r, Reads(r) + i - 1)'
  <2>1. PICK k : k = Reads(r) + (i + 1) - 1
    OBVIOUS
  <2>2. Seated(f, r, k)
    BY <1>1, <1>4, <2>1 DEF QueueOK, Live
  <2>3. Seated(f, r, k)'
    BY <2>2, StaysSeated
  <2>4. k = Reads(r)' + i - 1
    BY <1>3, <2>1
  <2>. QED BY <2>3, <2>4
<1>5. \A i \in 1..Len(inbox'[r]) : inbox'[r][i] \in Frames /\ inbox'[r][i].of \in {r, None}
  BY <1>1 DEF QueueOK
<1>6. \A i \in 1..Len(inbox'[r]) : Seated(inbox[r][i], r, Reads(r) + i - 1)'
  BY <1>4, <1>5
<1>. QED BY <1>2, <1>5, <1>6 DEF QueueOK

LEMMA QueueGrows ==
    ASSUME TypeOK, NEW r \in Requests, QueueOK(r), NEW f \in Frames,
           inbox'[r] = Append(inbox[r], f), call' = call, handler' = handler,
           f.of \in {r, None}, call[r].st \in Live => Seated(f, r, Due(r))
    PROVE  QueueOK(r)'
<1>1. /\ inbox[r] \in Seq(Frames) /\ Len(inbox'[r]) = Len(inbox[r]) + 1 /\ Len(inbox[r]) \in Nat
      /\ \A i \in 1..Len(inbox[r]) : inbox'[r][i] = inbox[r][i]
      /\ inbox'[r][Len(inbox[r]) + 1] = f
  <2>1. inbox[r] \in Seq(Frames)
    BY DEF TypeOK
  <2>. QED BY <2>1, AppendFacts
<1>2. Reads(r)' = Reads(r) /\ Reads(r) \in Nat
  BY DEF Reads, TypeOK
<1>3. ASSUME NEW g, NEW k, Seated(g, r, k) PROVE Seated(g, r, k)'
  BY <1>3 DEF Seated, Produced
<1>4. ASSUME call[r].st \in Live, NEW i \in 1..Len(inbox'[r]), NEW g, g = inbox'[r][i]
      PROVE  Seated(g, r, Reads(r) + i - 1)'
  <2>1. PICK k : k = Reads(r) + i - 1
    OBVIOUS
  <2>2. CASE i \in 1..Len(inbox[r])
    BY <1>1, <1>2, <1>3, <1>4, <2>1, <2>2 DEF QueueOK
  <2>3. CASE i \notin 1..Len(inbox[r])
    <3>1. i = Len(inbox[r]) + 1 /\ g = f /\ k = Due(r)
      BY <1>1, <1>2, <1>4, <2>1, <2>3 DEF Due
    <3>2. Seated(g, r, k)
      BY <1>4, <3>1
    <3>. QED BY <1>2, <1>3, <2>1, <3>2
  <2>. QED BY <2>2, <2>3
<1>5. call'[r].st \in Live => \A i \in 1..Len(inbox'[r]) : Seated(inbox[r][i], r, Reads(r) + i - 1)'
  BY <1>4
<1>6. \A i \in 1..Len(inbox'[r]) : inbox'[r][i].of \in {r, None}
  BY <1>1 DEF QueueOK
<1>. QED BY <1>5, <1>6 DEF QueueOK

----------------------------------------------------------------------------
(* What a connection carries *)

\* The frame that the router takes from a connection is of the request that it leads
\* the frame to, and the piece that its caller waits for.
LEMMA DispatchMatches ==
    ASSUME TypeOK, NEW on \in Places, NEW id \in Ids, IdsOK(on, id), AnswersOK(on, id),
           NEW c \in Conns, up[c] # <<>>, NEW f \in Frames, f = up[c][1],
           NEW r \in Requests, r = streams[c][f.sid]
    PROVE  /\ f.of = r /\ on[r] = c /\ id[r] = f.sid /\ Produced(f)
           /\ call[r].st \in Live => Attached(on, id, r) /\ Seated(f, r, Due(r))
<1>1. up[c] \in Seq(Frames) /\ 1 \in 1..Len(up[c])
  BY DEF TypeOK
<1>2. Produced(f) /\ on[f.of] = c /\ id[f.of] = f.sid /\ f.of \in Requests
  BY <1>1 DEF AnswersOK, UpOK, Produced
<1>3. f.sid \in Sids
  BY <1>2, Constants DEF IdsOK, CallsOK, Ids, Frames
<1>4. on[r] = c /\ id[r] = f.sid
  BY <1>3, StreamOwners DEF IdsOK
<1>5. f.of = r
  BY <1>2, <1>4, Constants DEF IdsOK, OpenedOnce
<1>6. ASSUME call[r].st \in Live PROVE Attached(on, id, r) /\ Seated(f, r, Due(r))
  <2>1. Attached(on, id, r)
    BY <1>4, <1>6, Constants DEF Attached
  <2>2. CASE f.t = "ERR"
    BY <2>1, <2>2 DEF Seated
  <2>3. CASE f.t # "ERR"
    <3>1. Follow(up[c], r, handler[r].sent, Due(r)) /\ Piece(up[c][1], r)
      BY <1>4, <1>5, <2>1, <2>3 DEF AnswersOK, NoGap, Piece
    <3>2. handler[r].sent \in Nat /\ Due(r) \in Nat
      <4>1. inbox[r] \in Seq(Frames) /\ handler[r].sent \in Nat
        BY DEF TypeOK
      <4>2. Reads(r) \in Nat
        BY DEF TypeOK, Reads
      <4>. QED BY <4>1, <4>2 DEF Due
    <3>3. Place(f, handler[r].sent) = Due(r)
      BY <1>1, <3>1, <3>2, FollowTail
    <3>. QED BY <1>2, <1>5, <2>1, <3>3 DEF Seated
  <2>. QED BY <2>2, <2>3
<1>. QED BY <1>2, <1>4, <1>5, <1>6

LEMMA InboxKept ==
    ASSUME TypeOK, Sited, NEW on \in Places, NEW id \in Ids, IdsOK(on, id), WorkOK(on, id),
           AnswersOK(on, id), [Next]_vars, \A r \in Requests : ~Open(r)
    PROVE  InboxOK'
<1>1. \A q \in Requests : Grown(q) /\ QueueOK(q)
  BY HandlerSteps DEF WorkOK, AnswersOK, InboxOK
<1>2. ASSUME NEW q \in Requests, inbox'[q] = inbox[q], call'[q] = call[q] PROVE QueueOK(q)'
  BY <1>1, <1>2, QueueStays
<1>3. ASSUME NEW r \in Requests, Pick(r) \/ CallerStep(r) \/ CallerGone(r), NEW q \in Requests
      PROVE  QueueOK(q)'
  <2>1. CASE q # r
    <3>1. inbox'[q] = inbox[q] /\ call'[q] = call[q]
      BY <1>3, <2>1, CallerEffects
    <3>. QED BY <1>2, <3>1
  <2>. SUFFICES ASSUME q = r PROVE QueueOK(r)'
    BY <2>1
  <2>2. CASE Pick(r) \/ Send(r) \/ Expire(r) \/ Leave(r)
    <3>1. inbox'[r] = inbox[r] /\ (call'[r].st \in Live => call[r].st = "sending" /\ call'[r].st = "waiting"
                                                     /\ call'[r].got = call[r].got)
      BY <2>2, CallerEffects DEF Live
    <3>. QED BY <1>1, <3>1, QueueStays DEF Live
  <2>3. CASE Ended(r)
    BY <2>3, QueueGone DEF Ended, Over, Live
  <2>4. CASE SendFails(r) \/ CancelSent(r) \/ Abort(r)
    BY <2>3, <2>4, CallerEffects
  <2>5. CASE ReadHead(r) /\ ~Ended(r)
    <3>1. /\ call[r].st = "waiting" /\ inbox[r] # <<>> /\ call'[r].st = "reading" /\ call'[r].got = call[r].got
          /\ inbox[r][1].t = "RESP" /\ inbox'[r] = Tail(inbox[r])
      BY <2>5, CallerEffects
    <3>2. call[r].got = 0
      BY <3>1 DEF IdsOK, CallsOK
    <3>3. 1 \in 1..Len(inbox[r])
      BY <3>1 DEF TypeOK
    <3>4. Seated(inbox[r][1], r, Reads(r) + 1 - 1)
      BY <1>1, <3>1, <3>3 DEF QueueOK, Live
    <3>5. handler[r].st \in Answered
      BY <3>1, <3>4 DEF Seated, Produced
    <3>. QED BY <1>1, <3>1, <3>2, <3>5, QueuePops
  <2>6. CASE Read(r) /\ ~Ended(r)
    <3>1. /\ call[r].st = "reading" /\ inbox[r] # <<>> /\ call'[r].st = "reading" /\ call'[r].got = call[r].got + 1
          /\ inbox'[r] = Tail(inbox[r])
      BY <2>6, CallerEffects
    <3>2. handler[r].st \in Answered
      BY <1>1, <3>1 DEF QueueOK
    <3>. QED BY <1>1, <3>1, <3>2, QueuePops
  <2>. QED BY <1>3, <2>2, <2>3, <2>4, <2>5, <2>6 DEF CallerStep, CallerGone
<1>4. ASSUME NEW c \in Conns, Dispatch(c), NEW q \in Requests PROVE QueueOK(q)'
  <2>1. PICK f \in Frames : f = up[c][1]
    BY <1>4, DispatchEffects
  <2>2. /\ up[c] # <<>> /\ UNCHANGED <<call, handler>>
        /\ inbox'[q] = inbox[q] \/ (q = streams[c][f.sid] /\ inbox'[q] = Append(inbox[q], f))
    BY <1>4, <2>1, DispatchEffects
  <2>3. CASE q = streams[c][f.sid] /\ inbox'[q] = Append(inbox[q], f)
    <3>1. f.of = q /\ (call[q].st \in Live => Seated(f, q, Due(q)))
      <4>1. up[c] # <<>> /\ f = up[c][1] /\ q = streams[c][f.sid]
        BY <2>1, <2>2, <2>3
      <4>2. /\ f.of = q /\ on[q] = c /\ id[q] = f.sid /\ Produced(f)
            /\ call[q].st \in Live => Attached(on, id, q) /\ Seated(f, q, Due(q))
        BY <4>1, DispatchMatches
      <4>. QED BY <4>2
    <3>. QED BY <1>1, <2>2, <2>3, <3>1, QueueGrows
  <2>. QED BY <1>2, <2>2, <2>3
<1>5. ASSUME NEW c \in Conns, Told(c), UNCHANGED <<call, handler>>, NEW q \in Requests PROVE QueueOK(q)'
  <2>1. PICK f \in Frames : f = Frame("ERR", 0, None, 0)
    BY FrameType
  <2>2. f.t = "ERR" /\ f.of = None
    BY <2>1 DEF Frame
  <2>3. CASE inbox'[q] = Append(inbox[q], f)
    BY <1>1, <1>5, <2>2, <2>3, QueueGrows DEF Seated
  <2>. QED BY <1>2, <1>5, <2>1, <2>3 DEF Told
<1>. QED BY <1>2, <1>3, <1>4, <1>5, QueueSteps DEF InboxOK

LEMMA AttachedBefore ==
    ASSUME TypeOK, NEW on \in Places, NEW id \in Ids, IdsOK(on, id), [Next]_vars,
           \A r \in Requests : ~Open(r), NEW q \in Requests, Attached(on, id, q)'
    PROVE  /\ Attached(on, id, q) /\ on[q] \in Conns /\ id[q] \in Sids
           /\ call[q].conn = on[q] /\ Due(q) \in Nat /\ handler[q].sent \in Nat
           /\ inbox[q] \in Seq(Frames) /\ up[on[q]] \in Seq(Frames)
<1>1. on[q] \in Conns /\ id[q] \in Sids
  BY DEF Attached, IdsOK, CallsOK, Places, Ids
<1>2. streams[on[q]][id[q]] = q
  BY <1>1, StreamSteps, Constants DEF Attached
<1>3. call[q].st \in Live
  BY CallSteps DEF Attached, Forward
<1>4. call[q].conn = on[q]
  BY <1>3 DEF IdsOK, CallsOK, Live, Holding
<1>5. Due(q) \in Nat /\ handler[q].sent \in Nat /\ inbox[q] \in Seq(Frames) /\ up[on[q]] \in Seq(Frames)
  BY <1>1 DEF TypeOK, Due, Reads
<1>. QED BY <1>1, <1>2, <1>3, <1>4, <1>5 DEF Attached

\* Nothing that matters changes.
LEMMA NoGapSame ==
    ASSUME NEW on \in Places, NEW q \in Requests, NoGap(on, q),
           \A i \in 1..Len(inbox'[q]) : inbox'[q][i].t # "ERR",
           up'[on[q]] = up[on[q]], handler'[q].sent = handler[q].sent, Due(q)' = Due(q),
           wire'[on[q]] = "up" => wire[on[q]] = "up",
           handler'[q].st = "streaming" => handler[q].st = "streaming"
    PROVE  NoGap(on, q)'
<1>1. PICK u, sent, due : u = up[on[q]] /\ sent = handler[q].sent /\ due = Due(q)
  OBVIOUS
<1>2. Follow(u, q, sent, due)
  BY <1>1 DEF NoGap
<1>3. wire'[on[q]] = "up" /\ handler'[q].st = "streaming" => Reach(u, q, sent, due)
  BY <1>1 DEF NoGap
<1>. QED BY <1>1, <1>2, <1>3 DEF NoGap

\* A caller's own step leaves what its queue waits for.
LEMMA DueOfCaller ==
    ASSUME TypeOK, NEW on \in Places, NEW id \in Ids, IdsOK(on, id), NEW r \in Requests,
           Pick(r) \/ CallerStep(r) \/ CallerGone(r), ~Open(r), call'[r].st \in Live
    PROVE  /\ Due(r)' = Due(r)
           /\ \A i \in 1..Len(inbox'[r]) : \E j \in 1..Len(inbox[r]) : inbox'[r][i] = inbox[r][j]
<1>1. inbox[r] \in Seq(Frames) /\ call[r].got \in Nat
  BY DEF TypeOK
<1>2. ~Ended(r)
  BY DEF Ended, Over, Live
<1>3. CASE Send(r)
  BY <1>1, <1>3, CallerEffects DEF Due, Reads
<1>4. CASE ReadHead(r)
  <2>1. /\ call[r].st = "waiting" /\ inbox[r] # <<>> /\ call'[r].st = "reading" /\ call'[r].got = call[r].got
        /\ inbox'[r] = Tail(inbox[r])
    BY <1>2, <1>4, CallerEffects
  <2>2. call[r].got = 0
    BY <2>1 DEF IdsOK, CallsOK
  <2>3. /\ Len(inbox'[r]) = Len(inbox[r]) - 1 /\ Len(inbox[r]) \in Nat \ {0}
        /\ \A i \in 1..Len(inbox'[r]) : inbox'[r][i] = inbox[r][i + 1] /\ i + 1 \in 1..Len(inbox[r])
    BY <1>1, <2>1, TailFacts
  <2>4. Due(r)' = Due(r)
    BY <2>1, <2>2, <2>3 DEF Due, Reads
  <2>. QED BY <2>3, <2>4
<1>5. CASE Read(r)
  <2>1. /\ call[r].st = "reading" /\ inbox[r] # <<>> /\ call'[r].st = "reading" /\ call'[r].got = call[r].got + 1
        /\ inbox'[r] = Tail(inbox[r])
    BY <1>2, <1>5, CallerEffects
  <2>2. /\ Len(inbox'[r]) = Len(inbox[r]) - 1 /\ Len(inbox[r]) \in Nat \ {0}
        /\ \A i \in 1..Len(inbox'[r]) : inbox'[r][i] = inbox[r][i + 1] /\ i + 1 \in 1..Len(inbox[r])
    BY <1>1, <2>1, TailFacts
  <2>3. Due(r)' = Due(r)
    BY <1>1, <2>1, <2>2 DEF Due, Reads
  <2>. QED BY <2>2, <2>3
<1>6. CASE Pick(r) \/ Expire(r) \/ Leave(r)
  BY <1>6, CallerEffects DEF Live
<1>7. CASE SendFails(r) \/ CancelSent(r) \/ Abort(r)
  BY <1>2, <1>7, CallerEffects
<1>. QED BY <1>3, <1>4, <1>5, <1>6, <1>7 DEF CallerStep, CallerGone

LEMMA NoGapByCaller ==
    ASSUME TypeOK, NEW on \in Places, NEW id \in Ids, IdsOK(on, id), NEW r \in Requests,
           Pick(r) \/ CallerStep(r) \/ CallerGone(r), ~Open(r),
           NEW q \in Requests, call'[q].st \in Live, NoGap(on, q)
    PROVE  NoGap(on, q)'
<1>1. UNCHANGED <<wire, handler, up>>
  BY CallerFrame
<1>2. Due(q)' = Due(q) /\ \A i \in 1..Len(inbox'[q]) : inbox'[q][i].t # "ERR"
  <2>1. CASE q = r
    BY <2>1, DueOfCaller DEF NoGap
  <2>2. CASE q # r
    <3>1. call'[q] = call[q] /\ inbox'[q] = inbox[q]
      BY <2>2, CallerEffects
    <3>. QED BY <3>1 DEF NoGap, Due, Reads
  <2>. QED BY <2>1, <2>2
<1>. QED BY <1>1, <1>2, NoGapSame

\* A frame is written that is no piece of q's answer, or none is.
LEMMA NoGapBeside ==
    ASSUME TypeOK, NEW on \in Places, NEW q \in Requests, on[q] \in Conns, NoGap(on, q),
           UNCHANGED <<call, inbox, wire>>, handler'[q].sent = handler[q].sent,
           handler'[q].st = "streaming" => handler[q].st = "streaming",
           \/ up' = up
           \/ \E c \in Conns, f \in Frames : up' = Written(up, c, f) /\ ~Piece(f, q)
    PROVE  NoGap(on, q)'
<1>1. Due(q)' = Due(q) /\ Due(q) \in Nat /\ handler[q].sent \in Nat /\ up[on[q]] \in Seq(Frames)
  BY DEF TypeOK, Due, Reads
<1>2. \A i \in 1..Len(inbox'[q]) : inbox'[q][i].t # "ERR"
  BY DEF NoGap
<1>3. CASE up'[on[q]] = up[on[q]]
  BY <1>1, <1>2, <1>3, NoGapSame
<1>4. CASE up'[on[q]] # up[on[q]]
  <2>1. PICK c \in Conns, f \in Frames : up' = Written(up, c, f) /\ ~Piece(f, q)
    BY <1>4
  <2>2. up'[on[q]] = Append(up[on[q]], f)
    BY <1>4, <2>1 DEF Written, TypeOK
  <2>3. PICK u \in Seq(Frames), sent \in Nat, due \in Nat :
            u = up[on[q]] /\ sent = handler[q].sent /\ due = Due(q)
    BY <1>1
  <2>4. Follow(u, q, sent, due) /\ (wire[on[q]] = "up" /\ handler[q].st = "streaming" => Reach(u, q, sent, due))
    BY <2>3 DEF NoGap
  <2>5. Follow(Append(u, f), q, sent, due)
    BY <2>1, <2>4, FollowAppend
  <2>6. Reach(u, q, sent, due) => Reach(Append(u, f), q, sent, due)
    BY ReachAppend
  <2>7. wire'[on[q]] = "up" /\ handler'[q].st = "streaming" => Reach(Append(u, f), q, sent, due)
    BY <2>4, <2>6
  <2>. QED BY <1>1, <1>2, <2>2, <2>3, <2>5, <2>7 DEF NoGap
<1>. QED BY <1>3, <1>4

\* While an answer streams, no piece in the connection is beyond what was made.
LEMMA PiecesBelow ==
    ASSUME TypeOK, NEW on \in Places, NEW id \in Ids, WorkOK(on, id), UpOK(on, id),
           NEW q \in Requests, NEW c \in Conns, NEW i \in 1..Len(up[c]), NEW f \in Frames,
           f = up[c][i], Piece(f, q), handler[q].st \in {"calling", "streaming"}
    PROVE  /\ handler[q].st = "streaming" /\ f.t \in {"RESP", "DATA"}
           /\ \A sent : Place(f, sent) \in Nat /\ Place(f, sent) <= handler[q].sent
<1>1. Produced(f) /\ f.of = q /\ f.t # "ERR"
  BY DEF UpOK, Piece
<1>2. ~handler[q].eof /\ handler[q].sent \in Nat
  BY DEF WorkOK, HandlersOK, TypeOK
<1>3. f.t = "RESP" \/ (f.t = "DATA" /\ f.n \in 1..handler[q].sent)
  BY <1>1, <1>2 DEF Produced
<1>4. handler[q].st = "streaming"
  BY <1>1 DEF Produced, Answered
<1>5. ASSUME NEW sent PROVE Place(f, sent) \in Nat /\ Place(f, sent) <= handler[q].sent
  BY <1>2, <1>3 DEF Place
<1>. QED BY <1>3, <1>4, <1>5

\* The service answers: the head, the next piece, the end.
LEMMA NoGapByAnswer ==
    ASSUME TypeOK, NEW on \in Places, NEW id \in Ids, IdsOK(on, id), WorkOK(on, id), AnswersOK(on, id),
           NEW q \in Requests, on[q] \in Conns, NoGap(on, q), call[q].st \in Live,
           UNCHANGED <<call, inbox, wire>>, handler'[q].sent \in Nat,
           \/ /\ Writes(on, id, q, "RESP") /\ handler[q].st = "calling" /\ handler'[q].sent = handler[q].sent
           \/ /\ Writes(on, id, q, "DATA") /\ handler[q].st = "streaming"
              /\ handler'[q].sent = handler[q].sent + 1
           \/ /\ Writes(on, id, q, "END") /\ handler[q].st = "streaming"
              /\ handler'[q].sent = handler[q].sent /\ handler'[q].st = "ending"
    PROVE  NoGap(on, q)'
<1>1. /\ Due(q)' = Due(q) /\ handler[q].sent \in Nat /\ up[on[q]] \in Seq(Frames) /\ inbox[q] \in Seq(Frames)
      /\ Due(q) \in Nat
  BY DEF TypeOK, Due, Reads
<1>2. \A i \in 1..Len(inbox'[q]) : inbox'[q][i].t # "ERR"
  BY DEF NoGap
<1>3. PICK t \in {"RESP", "DATA", "END"} :
          /\ Writes(on, id, q, t)
          /\ t = "RESP" <=> handler[q].st = "calling"
          /\ t \in {"DATA", "END"} <=> handler[q].st = "streaming"
          /\ t = "END" => handler'[q].st = "ending"
          /\ handler'[q].sent = IF t = "DATA" THEN handler[q].sent + 1 ELSE handler[q].sent
  BY <1>1
<1>4. PICK f \in Frames : /\ f.of = q /\ f.t = t /\ (t = "DATA" => f.n = handler[q].sent + 1)
                          /\ up' = Written(up, on[q], f)
  BY <1>3 DEF Writes
<1>5. PICK u \in Seq(Frames), sent \in Nat, more \in Nat, due \in Nat :
          u = up[on[q]] /\ sent = handler[q].sent /\ more = handler'[q].sent /\ due = Due(q)
  BY <1>1
<1>6. /\ Follow(u, q, sent, due)
      /\ wire[on[q]] = "up" /\ handler[q].st = "streaming" => Reach(u, q, sent, due)
  BY <1>5 DEF NoGap
<1>7. \A i \in 1..Len(u) : Piece(u[i], q) =>
          /\ handler[q].st = "streaming" /\ u[i].t \in {"RESP", "DATA"}
          /\ \A m : Place(u[i], m) \in Nat /\ Place(u[i], m) <= sent
  <2>1. \A i \in 1..Len(u) : u[i] \in Frames
    OBVIOUS
  <2>2. handler[q].st \in {"calling", "streaming"}
    BY <1>3
  <2>3. \A i \in 1..Len(u) : \A g \in Frames : g = u[i] /\ Piece(g, q) =>
          /\ handler[q].st = "streaming" /\ g.t \in {"RESP", "DATA"}
          /\ \A m : Place(g, m) \in Nat /\ Place(g, m) <= sent
    BY <1>5, <2>2, PiecesBelow DEF AnswersOK
  <2>. QED BY <2>1, <2>3
<1>8. Follow(u, q, more, due)
  BY <1>6, <1>7, FollowMore
<1>9. CASE wire[on[q]] # "up"
  <2>1. up'[on[q]] = up[on[q]]
    BY <1>4, <1>9 DEF Written
  <2>. QED BY <1>1, <1>2, <1>5, <1>8, <1>9, <2>1 DEF NoGap
<1>10. CASE wire[on[q]] = "up"
  <2>1. up'[on[q]] = Append(u, f)
    BY <1>4, <1>5, <1>10 DEF Written, TypeOK
  <2>2. Piece(f, q) /\ Place(f, more) = (IF t = "RESP" THEN 0 ELSE sent + 1) /\ Place(f, more) \in Nat
    BY <1>3, <1>4, <1>5 DEF Place, Piece
  <2>3. CASE t = "RESP"
    <3>1. \A i \in 1..Len(inbox[q]) : inbox[q][i].t = "ERR" \/ handler[q].st \in Answered
      BY DEF AnswersOK, InboxOK, QueueOK, Seated, Produced
    <3>2. inbox[q] = <<>>
      BY <1>1, <1>2, <1>3, <2>3, <3>1 DEF Answered
    <3>3. call[q].st # "reading"
      BY <1>3, <2>3 DEF AnswersOK, InboxOK, QueueOK, Answered
    <3>4. due = 0
      BY <1>5, <3>2, <3>3 DEF Due, Reads
    <3>5. \A j \in 1..Len(u) : ~Piece(u[j], q)
      BY <1>3, <1>7, <2>3
    <3>6. Follow(Append(u, f), q, more, due)
      BY <1>8, <2>2, <2>3, <3>4, <3>5, FollowAppend
    <3>7. more = 0
      BY <1>3, <1>5, <2>3 DEF WorkOK, HandlersOK
    <3>8. Reach(Append(u, f), q, more, due)
      BY <2>2, <2>3, <3>7, ReachAppend
    <3>. QED BY <1>1, <1>2, <1>5, <2>1, <3>6, <3>8 DEF NoGap
  <2>4. CASE t # "RESP"
    <3>1. handler[q].st = "streaming" /\ Reach(u, q, sent, due)
      BY <1>3, <1>6, <1>10, <2>4
    <3>2. \A j \in 1..Len(u) : Piece(u[j], q) => /\ Place(u[j], more) = Place(u[j], sent)
                                                 /\ Place(u[j], sent) >= due
      BY <1>6, <1>7 DEF Place, Follow
    <3>3. Place(f, more) = sent + 1
      BY <2>2, <2>4
    <3>4. due = sent + 1 \/ \E j \in 1..Len(u) : Piece(u[j], q) /\ Place(u[j], more) = sent
      BY <3>1, <3>2 DEF Reach
    <3>5. due <= sent + 1
      BY <1>7, <3>2, <3>4
    <3>6. \A j \in 1..Len(u) : Piece(u[j], q) => Place(u[j], more) < sent + 1
      <4>1. ASSUME NEW j \in 1..Len(u), Piece(u[j], q), NEW m \in Nat, m = Place(u[j], more)
            PROVE  m < sent + 1
        <5>1. Place(u[j], more) \in Nat /\ Place(u[j], more) <= sent
          BY <1>7, <4>1
        <5>. QED BY <4>1, <5>1
      <4>2. \A j \in 1..Len(u) : Piece(u[j], q) => Place(u[j], more) \in Nat
        BY <1>7
      <4>. QED BY <4>1, <4>2
    <3>7. Follow(Append(u, f), q, more, due)
      BY <1>8, <2>2, <3>3, <3>4, <3>5, <3>6, FollowAppend
    <3>8. t = "DATA" => Reach(Append(u, f), q, more, due)
      BY <1>3, <1>5, <2>2, <3>3, ReachAppend
    <3>. QED BY <1>1, <1>2, <1>3, <1>5, <2>1, <2>4, <3>7, <3>8 DEF NoGap
  <2>. QED BY <2>3, <2>4
<1>. QED BY <1>9, <1>10

LEMMA NoGapByHandler ==
    ASSUME TypeOK, Sited, NEW on \in Places, NEW id \in Ids, IdsOK(on, id), WorkOK(on, id),
           AnswersOK(on, id), NEW r \in Requests, HandlerStep(r), TypeOK',
           NEW q \in Requests, on[q] \in Conns, NoGap(on, q), call[q].st \in Live
    PROVE  NoGap(on, q)'
<1>1. UNCHANGED <<wire, call, inbox>> /\ handler'[q].sent \in Nat
  BY HandlerFrame DEF TypeOK
<1>2. CASE q # r
  <2>1. handler'[q] = handler[q]
    BY <1>2, HandlerEffects
  <2>2. up' = up \/ \E t \in {"RESP", "DATA", "END", "ERR"} : Writes(on, id, r, t)
    BY WritesProduced DEF HandlerStep
  <2>3. up' = up \/ \E c \in Conns, f \in Frames : up' = Written(up, c, f) /\ ~Piece(f, q)
    BY <1>2, <2>2 DEF Writes, Piece
  <2>. QED BY <1>1, <2>1, <2>3, NoGapBeside
<1>3. CASE q = r
  <2>1. CASE Responds(r)
    BY <1>1, <1>3, <2>1, WritesProduced, HandlerEffects, NoGapByAnswer DEF HandlerStep
  <2>2. CASE Sends(r)
    BY <1>1, <1>3, <2>2, WritesProduced, HandlerEffects, NoGapByAnswer DEF HandlerStep
  <2>3. CASE Ends(r)
    BY <1>1, <1>3, <2>3, WritesProduced, HandlerEffects, NoGapByAnswer DEF HandlerStep
  <2>4. CASE Register(r) \/ Breaks(r) \/ WriteFails(r) \/ Unregister(r)
    <3>1. handler'[q].sent = handler[q].sent \/ Sends(r)
      BY <1>3, HandlerEffects
    <3>2. up' = up \/ Writes(on, id, r, "ERR")
      BY <2>4, WritesProduced DEF HandlerStep
    <3>3. up' = up \/ \E c \in Conns, f \in Frames : up' = Written(up, c, f) /\ ~Piece(f, q)
      BY <3>2 DEF Writes, Piece
    <3>4. handler'[q].st # "streaming"
      BY <1>3, <2>4, HandlerEffects
    <3>5. CASE ~Sends(r)
      BY <1>1, <3>1, <3>3, <3>4, <3>5, NoGapBeside
    <3>6. CASE Sends(r)
      BY <1>3, <3>4, <3>6, HandlerEffects
    <3>. QED BY <3>5, <3>6
  <2>. QED BY <2>1, <2>2, <2>3, <2>4 DEF HandlerStep
<1>. QED BY <1>2, <1>3

LEMMA NoGapByDispatch ==
    ASSUME TypeOK, NEW on \in Places, NEW id \in Ids, IdsOK(on, id), AnswersOK(on, id),
           NEW c \in Conns, Dispatch(c), NEW q \in Requests, Attached(on, id, q), Attached(on, id, q)',
           on[q] \in Conns, id[q] \in Sids, NoGap(on, q)
    PROVE  NoGap(on, q)'
<1>1. PICK f \in Frames : f = up[c][1]
  BY DispatchEffects
<1>2. /\ up[c] \in Seq(Frames) /\ up[c] # <<>> /\ 1 \in 1..Len(up[c])
      /\ up' = [up EXCEPT ![c] = Tail(@)] /\ UNCHANGED <<wire, call, handler>>
      /\ q = streams[c][f.sid] /\ call[q].st \notin Over => inbox'[q] = Append(inbox[q], f)
      /\ ~(q = streams[c][f.sid] /\ call[q].st \notin Over) => inbox'[q] = inbox[q]
      /\ streams' = IF f.t \in {"END", "ERR"} THEN [streams EXCEPT ![c][f.sid] = None] ELSE streams
  BY <1>1, DispatchEffects
<1>3. /\ inbox[q] \in Seq(Frames) /\ up[on[q]] \in Seq(Frames) /\ handler[q].sent \in Nat /\ Due(q) \in Nat
      /\ Reads(q) \in Nat /\ Len(inbox[q]) \in Nat /\ Reads(q)' = Reads(q)
  <2>1. inbox[q] \in Seq(Frames) /\ up[on[q]] \in Seq(Frames) /\ handler[q].sent \in Nat
    BY DEF TypeOK
  <2>2. Reads(q) \in Nat
    BY DEF TypeOK, Reads
  <2>3. Reads(q)' = Reads(q)
    BY <1>2 DEF Reads
  <2>. QED BY <2>1, <2>2, <2>3 DEF Due
<1>4. CASE on[q] # c
  <2>1. q # streams[c][f.sid]
    BY <1>1, <1>2, <1>4, DispatchMatches
  <2>2. inbox'[q] = inbox[q] /\ up'[on[q]] = up[on[q]]
    BY <1>2, <1>4, <2>1 DEF TypeOK
  <2>3. Due(q)' = Due(q)
    BY <1>3, <2>2 DEF Due
  <2>4. \A i \in 1..Len(inbox'[q]) : inbox'[q][i].t # "ERR"
    BY <2>2 DEF NoGap
  <2>. QED BY <1>2, <2>2, <2>3, <2>4, NoGapSame
<1>5. CASE on[q] = c
  <2>1. PICK u \in Seq(Frames), sent \in Nat, due \in Nat :
            u = up[on[q]] /\ sent = handler[q].sent /\ due = Due(q)
    BY <1>3
  <2>2. /\ Follow(u, q, sent, due)
        /\ wire[on[q]] = "up" /\ handler[q].st = "streaming" => Reach(u, q, sent, due)
    BY <2>1 DEF NoGap
  <2>3. u # <<>> /\ u[1] = f /\ up'[on[q]] = Tail(u)
    BY <1>1, <1>2, <1>5, <2>1 DEF TypeOK
  <2>4. CASE q = streams[c][f.sid]
    <3>1. f.of = q /\ id[q] = f.sid /\ Produced(f)
      <4>1. up[c] # <<>> /\ f = up[c][1]
        BY <1>1, <1>2
      <4>2. c \in Conns /\ f \in Frames /\ q \in Requests /\ q = streams[c][f.sid]
        BY <2>4
      <4>3. /\ f.of = q /\ on[q] = c /\ id[q] = f.sid /\ Produced(f)
            /\ call[q].st \in Live => Attached(on, id, q) /\ Seated(f, q, Due(q))
        BY ONLY TypeOK, on \in Places, id \in Ids, IdsOK(on, id), AnswersOK(on, id), <4>1, <4>2, DispatchMatches
      <4>. QED BY <4>3
    <3>2. f.t \notin {"END", "ERR"}
      <4>. SUFFICES ASSUME f.t \in {"END", "ERR"} PROVE FALSE
        OBVIOUS
      <4>1. streams'[c][f.sid] = None
        BY <1>2, <1>5, <3>1 DEF TypeOK
      <4>. QED BY <1>5, <3>1, <4>1, Constants DEF Attached
    <3>3. Piece(u[1], q) /\ Place(u[1], sent) <= sent
      BY <2>1, <2>3, <3>1, <3>2 DEF Piece, Place, Produced
    <3>4. Place(u[1], sent) = due /\ Follow(Tail(u), q, sent, due + 1)
      BY <2>2, <2>3, <3>3, FollowTail
    <3>5. Reach(u, q, sent, due) => Reach(Tail(u), q, sent, due + 1)
      BY <2>3, <3>3, <3>4, ReachTail
    <3>6. inbox'[q] = Append(inbox[q], f)
      BY <1>2, <2>4 DEF Attached, Live, Over
    <3>7. Len(inbox'[q]) = Len(inbox[q]) + 1 /\ \A i \in 1..Len(inbox'[q]) : inbox'[q][i].t # "ERR"
      <4>1. /\ Len(inbox'[q]) = Len(inbox[q]) + 1 /\ inbox'[q][Len(inbox[q]) + 1] = f
            /\ \A i \in 1..Len(inbox[q]) : inbox'[q][i] = inbox[q][i]
        BY <1>3, <3>6, AppendFacts
      <4>2. \A i \in 1..Len(inbox[q]) : inbox[q][i].t # "ERR"
        BY DEF NoGap
      <4>3. ASSUME NEW i \in 1..Len(inbox'[q]) PROVE inbox'[q][i].t # "ERR"
        <5>1. CASE i = Len(inbox[q]) + 1
          BY <3>2, <4>1, <5>1
        <5>2. CASE i # Len(inbox[q]) + 1
          <6>1. i \in 1..Len(inbox[q])
            BY <1>3, <4>1, <5>2
          <6>. QED BY <4>1, <4>2, <6>1
        <5>. QED BY <5>1, <5>2
      <4>. QED BY <4>1, <4>3
    <3>8. Due(q)' = due + 1
      BY <1>3, <2>1, <3>7 DEF Due
    <3>9. wire'[on[q]] = "up" /\ handler'[q].st = "streaming" => Reach(Tail(u), q, sent, due + 1)
      BY <1>2, <2>2, <3>5
    <3>. QED BY <1>2, <2>1, <2>3, <3>4, <3>7, <3>8, <3>9 DEF NoGap
  <2>5. CASE q # streams[c][f.sid]
    <3>1. inbox'[q] = inbox[q]
      BY <1>2, <2>5
    <3>2. ~Piece(u[1], q)
      <4>. SUFFICES ASSUME Piece(f, q) PROVE FALSE
        BY <2>3
      <4>1. id[q] = f.sid
        BY <1>1, <1>2 DEF AnswersOK, UpOK, Piece
      <4>. QED BY <1>5, <2>5, <4>1 DEF Attached
    <3>3. Follow(Tail(u), q, sent, due)
      BY <2>2, <2>3, <3>2, FollowTail
    <3>4. Reach(u, q, sent, due) => Reach(Tail(u), q, sent, due)
      BY <2>3, <3>2, ReachTail
    <3>5. Due(q)' = due /\ \A i \in 1..Len(inbox'[q]) : inbox'[q][i].t # "ERR"
      BY <1>3, <2>1, <3>1 DEF Due, NoGap
    <3>6. wire'[on[q]] = "up" /\ handler'[q].st = "streaming" => Reach(Tail(u), q, sent, due)
      BY <1>2, <2>2, <3>4
    <3>. QED BY <1>2, <2>1, <2>3, <3>3, <3>5, <3>6 DEF NoGap
  <2>. QED BY <2>4, <2>5
<1>. QED BY <1>4, <1>5

\* The steps of the connections other than Dispatch: streams end, or nothing of a call.
LEMMA OtherLinkSteps ==
    ASSUME TypeOK, NEW c \in Conns, LinkStep(c) \/ Connect(c) \/ Lose(c) \/ Revoke(c), ~Dispatch(c)
    PROVE  /\ UNCHANGED call
           /\ \A q \in Requests : /\ handler'[q].sent = handler[q].sent
                                  /\ handler'[q].st = "streaming" => handler[q].st = "streaming"
           /\ \/ \E d \in Conns : Told(d) /\ up' = [up EXCEPT ![d] = <<>>]
              \/ UNCHANGED <<inbox, streams, up>>
<1>1. CASE RouterCloses(c)
  BY <1>1, CloseEffects DEF RouterCloses, agentVars
<1>2. CASE Connect(c)
  <2>1. CASE current # 0
    <3>1. current \in Conns /\ CloseAll(current) /\ up' = [up EXCEPT ![current] = <<>>]
      BY <1>2, <2>1 DEF Connect, TypeOK
    <3>. QED BY <1>2, <3>1, CloseEffects DEF Connect, agentVars
  <2>2. CASE current = 0
    BY <1>2, <2>2 DEF Connect, agentVars
  <2>. QED BY <2>1, <2>2
<1>3. CASE AgentReads(c)
  <2>1. UNCHANGED <<call, inbox, streams, up>>
    BY <1>3 DEF AgentReads, callVars, routerVars
  <2>2. \A q \in Requests : /\ handler'[q].sent = handler[q].sent
                            /\ handler'[q].st = "streaming" => handler[q].st = "streaming"
    BY <1>3, ReadsEffects
  <2>. QED BY <2>1, <2>2
<1>4. CASE AgentLoses(c)
  <2>1. UNCHANGED <<call, inbox, streams, up>>
    BY <1>4 DEF AgentLoses, callVars, routerVars
  <2>2. \A q \in Requests : /\ handler'[q].sent = handler[q].sent
                            /\ handler'[q].st = "streaming" => handler[q].st = "streaming"
    BY <1>4, LosesEffects
  <2>. QED BY <2>1, <2>2
<1>5. CASE (\E s \in Sids : SendCancel(c, s)) \/ Lose(c) \/ Revoke(c)
  BY <1>5 DEF SendCancel, Lose, Revoke, ToAgent, callVars, routerVars, agentVars
<1>. QED BY <1>1, <1>2, <1>3, <1>4, <1>5 DEF LinkStep

LEMMA NoGapKept ==
    ASSUME TypeOK, Sited, LinksOK, NEW on \in Places, NEW id \in Ids, IdsOK(on, id), WorkOK(on, id),
           AnswersOK(on, id), [Next]_vars, \A r \in Requests : ~Open(r),
           NEW q \in Requests, Attached(on, id, q)'
    PROVE  NoGap(on, q)'
<1>1. /\ Attached(on, id, q) /\ on[q] \in Conns /\ id[q] \in Sids /\ call[q].conn = on[q]
  BY AttachedBefore
<1>2. NoGap(on, q) /\ call[q].st \in Live /\ call'[q].st \in Live
  BY <1>1 DEF AnswersOK, Attached
<1>3. wire'[on[q]] = "up" => wire[on[q]] = "up"
  <2>1. wire[on[q]] # "new"
    BY <1>1, Constants DEF LinksOK
  <2>. QED BY <1>1, <2>1, WireSteps DEF Connect
<1>4. CASE \E r \in Requests : Pick(r) \/ CallerStep(r) \/ CallerGone(r)
  BY <1>2, <1>4, NoGapByCaller
<1>5. CASE \E r \in Requests : HandlerStep(r)
  BY <1>1, <1>2, <1>5, TypeKept, NoGapByHandler
<1>6. CASE \E c \in Conns : Dispatch(c)
  BY <1>1, <1>2, <1>6, NoGapByDispatch
<1>7. ASSUME inbox'[q] = inbox[q], call' = call, up'[on[q]] = up[on[q]],
             handler'[q].sent = handler[q].sent, handler'[q].st = "streaming" => handler[q].st = "streaming"
      PROVE  NoGap(on, q)'
  <2>1. Due(q)' = Due(q) /\ \A i \in 1..Len(inbox'[q]) : inbox'[q][i].t # "ERR"
    BY <1>2, <1>7 DEF Due, Reads, NoGap
  <2>. QED BY <1>2, <1>3, <1>7, <2>1, NoGapSame
<1>8. ASSUME NEW c \in Conns, LinkStep(c) \/ Connect(c) \/ Lose(c) \/ Revoke(c), ~Dispatch(c)
      PROVE  NoGap(on, q)'
  <2>1. /\ call' = call /\ handler'[q].sent = handler[q].sent
        /\ handler'[q].st = "streaming" => handler[q].st = "streaming"
        /\ \/ \E d \in Conns : Told(d) /\ up' = [up EXCEPT ![d] = <<>>]
           \/ UNCHANGED <<inbox, streams, up>>
    BY <1>8, OtherLinkSteps
  <2>2. CASE UNCHANGED <<inbox, streams, up>>
    BY <1>7, <2>1, <2>2
  <2>3. ASSUME NEW d \in Conns, Told(d), up' = [up EXCEPT ![d] = <<>>] PROVE NoGap(on, q)'
    <3>1. on[q] # d
      <4>. SUFFICES ASSUME on[q] = d PROVE FALSE
        OBVIOUS
      <4>1. streams'[on[q]][id[q]] = None
        BY <1>1, <2>3 DEF Told, TypeOK
      <4>. QED BY <4>1, Constants DEF Attached
    <3>2. \A s \in Sids : streams[d][s] # q
      BY <2>3, <3>1, StreamOwners DEF IdsOK
    <3>3. inbox'[q] = inbox[q]
      BY <2>3, <3>2 DEF Told
    <3>4. up'[on[q]] = up[on[q]]
      BY <1>1, <2>3, <3>1 DEF TypeOK
    <3>. QED BY <1>7, <2>1, <3>3, <3>4
  <2>. QED BY <2>1, <2>2, <2>3
<1>9. CASE UNCHANGED <<wire, current, closed, nextId, streams, call, inbox, cancels, session,
                       running, handler, down, up>>
  BY <1>7, <1>9
<1>. QED BY <1>4, <1>5, <1>6, <1>8, <1>9, Steps

LEMMA AnswersKept ==
    ASSUME TypeOK, Sited, LinksOK, NEW on \in Places, NEW id \in Ids, IdsOK(on, id), WorkOK(on, id),
           AnswersOK(on, id), [Next]_vars, \A r \in Requests : ~Open(r)
    PROVE  AnswersOK(on, id)'
<1>1. UpOK(on, id)'
  BY UpKept DEF AnswersOK
<1>2. InboxOK'
  BY InboxKept
<1>3. \A r \in Requests : Attached(on, id, r)' => NoGap(on, r)'
  BY NoGapKept
<1>. QED BY <1>1, <1>2, <1>3 DEF AnswersOK

LEMMA AnswersOpened ==
    ASSUME TypeOK, NEW on \in Places, NEW id \in Ids, IdsOK(on, id), WorkOK(on, id), AnswersOK(on, id),
           NEW r \in Requests, Open(r),
           NEW on2 \in Places, NEW id2 \in Ids, on2 = OnAfter(on, r), id2 = IdAfter(id, r)
    PROVE  AnswersOK(on2, id2)'
<1>1. /\ call[r].conn \in Conns /\ nextId[call[r].conn] \in Sids /\ on[r] = 0 /\ inbox[r] = <<>>
      /\ call[r].st = "picked" /\ on2[r] = call[r].conn /\ id2[r] = nextId[call[r].conn]
      /\ \A q \in Requests : q # r => on2[q] = on[q] /\ id2[q] = id[q] /\ call'[q] = call[q]
      /\ UNCHANGED <<inbox, wire, handler, up>>
      /\ streams' = [streams EXCEPT ![call[r].conn][nextId[call[r].conn]] = r]
  BY OpenFacts
<1>2. handler[r].st = "none" /\ call'[r].st = "sending"
  BY <1>1, CallerEffects DEF WorkOK, HandlersOK, Unopened
<1>3. up \in [Conns -> Seq(Frames)]
  BY DEF TypeOK
<1>4. ASSUME NEW f, Produced(f) PROVE Produced(f)'
  BY <1>1, <1>4 DEF Produced
<1>5. ASSUME NEW c \in Conns, NEW i \in 1..Len(up[c]), NEW f, f = up[c][i]
      PROVE  Produced(f) /\ f.of # r /\ on[f.of] = c /\ id[f.of] = f.sid /\ f.of \in Requests
  <2>1. Produced(f) /\ on[f.of] = c /\ id[f.of] = f.sid
    BY <1>5 DEF AnswersOK, UpOK
  <2>. QED BY <1>1, <2>1, Constants DEF Produced
<1>6. UpOK(on2, id2)'
  <2>1. ASSUME NEW c \in Conns, NEW i \in 1..Len(up[c]), NEW f, f = up[c][i]
        PROVE  Produced(f)' /\ on2[f.of] = c /\ id2[f.of] = f.sid
    BY <1>1, <1>4, <1>5, <2>1
  <2>. QED BY <1>1, <2>1 DEF UpOK
<1>7. InboxOK'
  <2>1. ASSUME NEW q \in Requests, q # r PROVE QueueOK(q)'
    <3>1. QueueOK(q)
      BY DEF AnswersOK, InboxOK
    <3>2. Reads(q)' = Reads(q)
      BY <1>1, <2>1 DEF Reads
    <3>3. ASSUME NEW f, NEW k, Seated(f, q, k) PROVE Seated(f, q, k)'
      BY <1>1, <1>4, <3>3 DEF Seated
    <3>4. call[q].st \in Live => \A i \in 1..Len(inbox[q]) : Seated(inbox[q][i], q, Reads(q) + i - 1)
      BY <3>1 DEF QueueOK
    <3>5. call[q].st \in Live => \A i \in 1..Len(inbox[q]) : Seated(inbox[q][i], q, Reads(q) + i - 1)'
      <4>1. ASSUME call[q].st \in Live, NEW i \in 1..Len(inbox[q]), NEW f, f = inbox[q][i],
                   NEW k, k = Reads(q) + i - 1
            PROVE  Seated(f, q, k)'
        BY <3>3, <3>4, <4>1
      <4>. QED BY <1>1, <3>2, <4>1
    <3>. QED BY <1>1, <2>1, <3>1, <3>5 DEF QueueOK
  <2>2. QueueOK(r)'
    BY <1>1, <1>2 DEF QueueOK
  <2>. QED BY <2>1, <2>2 DEF InboxOK
<1>8. ASSUME NEW q \in Requests, Attached(on2, id2, q)' PROVE NoGap(on2, q)'
  <2>1. CASE q # r
    <3>1. on2[q] = on[q] /\ id2[q] = id[q] /\ call'[q] = call[q] /\ on[q] \in Conns /\ id[q] \in Sids
      BY <1>1, <1>8, <2>1 DEF Attached, Places, Ids, IdsOK, CallsOK
    <3>2. streams[on[q]][id[q]] = q
      BY <1>1, <1>8, <2>1, <3>1 DEF Attached, TypeOK
    <3>3. NoGap(on, q)
      BY <1>8, <3>1, <3>2 DEF AnswersOK, Attached
    <3>4. Due(q)' = Due(q)
      BY <1>1, <3>1 DEF Due, Reads
    <3>. QED BY <1>1, <3>1, <3>3, <3>4 DEF NoGap
  <2>2. CASE q = r
    <3>1. \A i \in 1..Len(up[on2[r]]) : ~Piece(up[on2[r]][i], r)
      BY <1>1, <1>5 DEF Piece
    <3>. QED BY <1>1, <1>2, <2>2, <3>1 DEF NoGap, Follow
  <2>. QED BY <2>1, <2>2
<1>. QED BY <1>6, <1>7, <1>8 DEF AnswersOK

----------------------------------------------------------------------------
(* The invariant *)

LEMMA Initially == Init => IInv
<1>. SUFFICES ASSUME Init PROVE IInv
  OBVIOUS
<1>1. TypeOK
  <2>1. 1 \in Sids /\ <<>> \in Seq(Frames)
    BY Constants
  <2>. QED BY <2>1 DEF Init, TypeOK, CallStates, HandlerStates
<1>2. LinksOK
  BY DEF Init, LinksOK
<1>. DEFINE zero == [r \in Requests |-> 0]
<1>3. zero \in Places /\ zero \in Ids /\ \A r \in Requests : zero[r] = 0
  BY DEF Places, Ids
<1>. HIDE DEF zero
<1>4. PICK on \in Places, id \in Ids : \A r \in Requests : on[r] = 0 /\ id[r] = 0
  BY <1>3
<1>5. Opened = {} /\ Cardinality(Opened) = 0
  BY FS_EmptySet DEF Opened, Init, Unopened
<1>6. IdsOK(on, id)
  <2>1. \A c \in Conns : nextId[c] <= 1 + Cardinality(Opened)
    BY <1>5 DEF Init
  <2>2. NextIsNew(on, id)
    BY <1>4, <2>1, Constants DEF NextIsNew
  <2>3. OpenedOnce(on, id)
    BY <1>4 DEF OpenedOnce
  <2>4. CallsOK(on, id)
    BY <1>4 DEF CallsOK, Init, Unopened, Holding
  <2>5. StreamsOK(on, id)
    BY DEF StreamsOK, Init
  <2>. QED BY <2>2, <2>3, <2>4, <2>5 DEF IdsOK
<1>7. WorkOK(on, id)
  <2>1. CancelsOK(on, id)
    BY DEF CancelsOK, Init
  <2>2. DownOK(on, id)
    <3>1. \A c \in Conns : Len(down[c]) = 0
      BY DEF Init
    <3>. QED BY <3>1 DEF DownOK
  <2>3. HandlersOK(on, id) /\ RunningOK /\ CancelledOK
    BY DEF HandlersOK, RunningOK, CancelledOK, Init, Working
  <2>. QED BY <2>1, <2>2, <2>3 DEF WorkOK
<1>8. AnswersOK(on, id)
  <2>1. UpOK(on, id)
    <3>1. \A c \in Conns : Len(up[c]) = 0
      BY DEF Init
    <3>. QED BY <3>1 DEF UpOK
  <2>2. \A r \in Requests : inbox[r] = <<>> /\ call[r].st = "idle"
    BY DEF Init
  <2>3. InboxOK
    BY <2>2 DEF InboxOK, QueueOK
  <2>4. \A r \in Requests : ~Attached(on, id, r)
    BY <1>4 DEF Attached
  <2>. QED BY <2>1, <2>3, <2>4 DEF AnswersOK
<1>. QED BY <1>1, <1>2, <1>6, <1>7, <1>8 DEF IInv, Remembers

LEMMA InvarianceStep == IInv /\ [Next]_vars => IInv'
<1>. SUFFICES ASSUME IInv, [Next]_vars PROVE IInv'
  OBVIOUS
<1>1. PICK on \in Places, id \in Ids : Remembers(on, id)
  BY DEF IInv
<1>2. TypeOK /\ LinksOK /\ IdsOK(on, id) /\ WorkOK(on, id) /\ AnswersOK(on, id)
  BY <1>1 DEF IInv, Remembers
<1>3. Sited
  BY <1>2, SomewhereIsSited DEF IdsOK, WorkOK
<1>4. TypeOK' /\ LinksOK'
  BY <1>2, <1>3, TypeKept, LinksKept
<1>5. CASE \A r \in Requests : ~Open(r)
  <2>1. IdsOK(on, id)' /\ WorkOK(on, id)' /\ AnswersOK(on, id)'
    BY <1>2, <1>3, <1>5, IdsKept, WorkKept, AnswersKept DEF AnswersOK
  <2>. QED BY <1>4, <2>1 DEF IInv, Remembers
<1>6. ASSUME NEW r \in Requests, Open(r) PROVE IInv'
  <2>1. OnAfter(on, r) \in Places /\ IdAfter(id, r) \in Ids
    BY <1>2, <1>6, OpenFacts
  <2>2. PICK on2 \in Places, id2 \in Ids : on2 = OnAfter(on, r) /\ id2 = IdAfter(id, r)
    BY <2>1
  <2>3. IdsOK(on2, id2)' /\ WorkOK(on2, id2)' /\ AnswersOK(on2, id2)'
    BY <1>2, <1>6, <2>2, IdsOpened, WorkOpened, AnswersOpened
  <2>. QED BY <1>4, <2>3 DEF IInv, Remembers
<1>. QED BY <1>5, <1>6

\* The invariant: whatever order calls, aborts, losses and sessions come in, there is
\* a way to remember which connection and stream id each request got that explains
\* every table, frame and queue.
THEOREM Invariance == Spec => []IInv
<1>1. Init => IInv
  BY Initially
<1>2. IInv /\ [Next]_vars => IInv'
  BY InvarianceStep
<1>. QED BY <1>1, <1>2, PTL DEF Spec

THEOREM TypeCorrect == Spec => []TypeOK
<1>1. IInv => TypeOK
  BY DEF IInv
<1>. QED BY <1>1, Invariance, PTL

----------------------------------------------------------------------------
(* Results *)

\* Every frame in a caller's queue is of its own request, and the first is the head of
\* the answer or an error, although the router finds the caller by the stream id alone.
THEOREM FramesAreOwn == Spec => []OwnFramesFromTheHead
<1>1. IInv => OwnFramesFromTheHead
  <2>. SUFFICES ASSUME IInv, NEW r \in Requests
                PROVE  /\ \A i \in 1..Len(inbox[r]) : inbox[r][i].of \in {r, None}
                       /\ call[r].st = "waiting" /\ inbox[r] # <<>> => Head(inbox[r]).t \in {"RESP", "ERR"}
    BY DEF OwnFramesFromTheHead
  <2>1. QueueOK(r) /\ inbox[r] \in Seq(Frames)
    BY DEF IInv, Remembers, AnswersOK, InboxOK, TypeOK
  <2>2. ASSUME call[r].st = "waiting", inbox[r] # <<>> PROVE Head(inbox[r]).t \in {"RESP", "ERR"}
    <3>1. Head(inbox[r]) = inbox[r][1] /\ 1 \in 1..Len(inbox[r])
      BY <2>1, <2>2, TailFacts
    <3>2. Seated(inbox[r][1], r, Reads(r) + 1 - 1) /\ Reads(r) = 0
      BY <2>1, <2>2, <3>1 DEF QueueOK, Live, Reads
    <3>3. handler[r].sent \in Nat
      BY DEF IInv, TypeOK
    <3>. QED BY <3>1, <3>2, <3>3 DEF Seated, Produced, Place
  <2>. QED BY <2>1, <2>2 DEF QueueOK
<1>. QED BY <1>1, Invariance, PTL

\* The agent's work for a caller that is still there is never cancelled on a living
\* connection: no CANCEL, cleanup or end of a session reaches another's stream.
THEOREM NoWorkIsCutOff == Spec => []NoWrongCancel
<1>1. IInv => NoWrongCancel
  BY DEF IInv, Remembers, WorkOK, CancelledOK, NoWrongCancel, Live
<1>. QED BY <1>1, Invariance, PTL

(* The refinement: every step is one of the exchange of each request, or none *)

\* What the exchange needs to know of a request.
Explained(r) ==
    /\ call[r].got \in Nat /\ handler[r].sent \in Nat
    /\ call[r].st \in Unopened \cup {"sending"} => handler[r].st = "none"
    /\ handler[r].eof => handler[r].st \in {"ending", "over"}
    /\ call[r].st = "reading" /\ inbox[r] # <<>> =>
           /\ inbox[r][1].t = "DATA" => call[r].got < handler[r].sent
           /\ inbox[r][1].t = "END" => handler[r].eof /\ call[r].got = handler[r].sent

LEMMA AllExplained == IInv => \A r \in Requests : Explained(r)
<1>. SUFFICES ASSUME IInv, NEW r \in Requests PROVE Explained(r)
  OBVIOUS
<1>1. /\ QueueOK(r) /\ inbox[r] \in Seq(Frames) /\ call[r].got \in Nat /\ handler[r].sent \in Nat
      /\ call[r].st \in Unopened \cup {"sending"} => handler[r].st = "none"
      /\ handler[r].eof => handler[r].st \in {"ending", "over"}
  BY DEF IInv, Remembers, AnswersOK, InboxOK, WorkOK, HandlersOK, TypeOK
<1>2. ASSUME call[r].st = "reading", inbox[r] # <<>>
      PROVE  /\ inbox[r][1].t = "DATA" => call[r].got < handler[r].sent
             /\ inbox[r][1].t = "END" => handler[r].eof /\ call[r].got = handler[r].sent
  <2>1. 1 \in 1..Len(inbox[r])
    BY <1>1, <1>2, TailFacts
  <2>2. Seated(inbox[r][1], r, Reads(r) + 1 - 1) /\ Reads(r) = call[r].got + 1
    BY <1>1, <1>2, <2>1 DEF QueueOK, Live, Reads
  <2>3. inbox[r][1].t # "ERR" => /\ inbox[r][1].of = r /\ Produced(inbox[r][1])
                                 /\ Place(inbox[r][1], handler[r].sent) = call[r].got + 1
    BY <1>1, <2>2 DEF Seated
  <2>4. ASSUME inbox[r][1].t = "DATA" PROVE call[r].got < handler[r].sent
    BY <1>1, <2>3, <2>4 DEF Produced, Place
  <2>5. ASSUME inbox[r][1].t = "END" PROVE handler[r].eof /\ call[r].got = handler[r].sent
    BY <1>1, <2>3, <2>5 DEF Produced, Place
  <2>. QED BY <2>4, <2>5
<1>. QED BY <1>1, <1>2 DEF Explained

\* Nothing that the exchange sees.
LEMMA Stutters ==
    ASSUME NEW r \in Requests, Phase(call'[r].st) = Phase(call[r].st), call'[r].got = call[r].got,
           handler'[r].sent = handler[r].sent, handler'[r].eof = handler[r].eof
    PROVE  Carried(r)!Step
BY DEF Carried!Step, Carried!vars

\* A step that changes the caller's phase alone.
LEMMA PhaseSteps ==
    ASSUME NEW r \in Requests, call'[r].got = call[r].got,
           handler'[r].sent = handler[r].sent, handler'[r].eof = handler[r].eof,
           \/ Phase(call[r].st) = "none" /\ Phase(call'[r].st) = "asked"
           \/ Phase(call[r].st) = "asked" /\ Phase(call'[r].st) = "answered"
           \/ Phase(call[r].st) \in {"none", "asked", "answered"} /\ Phase(call'[r].st) = "failed"
           \/ /\ Phase(call[r].st) = "answered" /\ Phase(call'[r].st) = "complete"
              /\ handler[r].eof /\ call[r].got = handler[r].sent
    PROVE  Carried(r)!Step
<1>1. CASE Phase(call[r].st) = "none" /\ Phase(call'[r].st) = "asked"
  BY <1>1 DEF Carried!Step, Carried!Next, Carried!Ask, Carried!Moves
<1>2. CASE Phase(call[r].st) = "asked" /\ Phase(call'[r].st) = "answered"
  BY <1>2 DEF Carried!Step, Carried!Next, Carried!Answer, Carried!Moves
<1>3. CASE Phase(call[r].st) \in {"none", "asked", "answered"} /\ Phase(call'[r].st) = "failed"
  BY <1>3 DEF Carried!Step, Carried!Next, Carried!Fail, Carried!Moves
<1>4. CASE /\ Phase(call[r].st) = "answered" /\ Phase(call'[r].st) = "complete"
           /\ handler[r].eof /\ call[r].got = handler[r].sent
  BY <1>4 DEF Carried!Step, Carried!Next, Carried!Complete, Carried!Moves
<1>. QED BY <1>1, <1>2, <1>3, <1>4

LEMMA CallerRefines ==
    ASSUME TypeOK, NEW r \in Requests, Explained(r), Pick(r) \/ CallerStep(r) \/ CallerGone(r)
    PROVE  Carried(r)!Step
<1>1. handler' = handler
  BY CallerFrame
<1>2. CASE Pick(r) \/ Send(r)
  BY <1>1, <1>2, CallerEffects, Stutters DEF Phase
<1>3. CASE Open(r) \/ Expire(r) \/ Leave(r)
  BY <1>1, <1>3, CallerEffects, PhaseSteps DEF Phase
<1>4. CASE SendFails(r)
  <2>1. call[r].st = "sending" /\ call'[r].st = "failed" /\ call'[r].got = call[r].got
    BY <1>4, CallEffects DEF SendFails
  <2>. QED BY <1>1, <2>1, PhaseSteps DEF Phase
<1>5. CASE ReadHead(r)
  BY <1>1, <1>5, CallerEffects, PhaseSteps DEF Phase, Ended
<1>6. CASE Read(r)
  <2>1. call[r].st = "reading" /\ inbox[r] # <<>>
    BY <1>6, CallerEffects
  <2>2. CASE Ended(r) /\ call'[r].st = "failed"
    BY <1>1, <2>1, <2>2, PhaseSteps DEF Phase, Ended
  <2>3. CASE Ended(r) /\ call'[r].st = "complete" /\ inbox[r][1].t = "END"
    <3>1. handler[r].eof /\ call[r].got = handler[r].sent
      BY <2>1, <2>3 DEF Explained
    <3>. QED BY <1>1, <2>1, <2>3, <3>1, PhaseSteps DEF Phase, Ended
  <2>4. CASE call'[r].st = "reading" /\ call'[r].got = call[r].got + 1 /\ inbox[r][1].t = "DATA"
    <3>1. call[r].got < handler[r].sent
      BY <2>1, <2>4 DEF Explained
    <3>. QED BY <1>1, <2>1, <2>4, <3>1 DEF Phase, Carried!Step, Carried!Next, Carried!Take
  <2>. QED BY <1>6, <2>2, <2>3, <2>4, CallerEffects
<1>7. CASE CancelSent(r)
  BY <1>1, <1>7, CallerEffects, PhaseSteps, Stutters DEF Phase, Ended
<1>8. CASE Abort(r)
  <2>1. /\ call[r].st \in {"picked", "sending", "waiting", "expired", "closing"}
        /\ call'[r].st \in {"failed", "left"} /\ call'[r].got = call[r].got
    BY <1>8, CallerEffects DEF Ended
  <2>2. CASE call[r].st \in {"picked", "sending", "waiting"}
    BY <1>1, <2>1, <2>2, PhaseSteps DEF Phase
  <2>3. CASE call[r].st \in {"expired", "closing"}
    BY <1>1, <2>1, <2>3, Stutters DEF Phase
  <2>. QED BY <2>1, <2>2, <2>3
<1>. QED BY <1>2, <1>3, <1>4, <1>5, <1>6, <1>7, <1>8 DEF CallerStep, CallerGone

LEMMA HandlerRefines ==
    ASSUME TypeOK, NEW r \in Requests, Explained(r), HandlerStep(r)
    PROVE  Carried(r)!Step
<1>1. call' = call
  BY HandlerFrame
<1>2. CASE handler'[r].sent = handler[r].sent /\ handler'[r].eof = handler[r].eof
  BY <1>1, <1>2, Stutters
<1>3. CASE Sends(r)
  <2>1. /\ handler[r].st = "streaming" /\ handler[r].sent < MaxChunks
        /\ handler'[r].sent = handler[r].sent + 1 /\ handler'[r].eof = handler[r].eof
    <3>1. handler[r].st = "streaming" /\ handler'[r].sent = handler[r].sent + 1 /\ handler[r].sent < MaxChunks
      BY <1>3, HandlerEffects DEF Sends
    <3>2. handler'[r].eof = handler[r].eof
      BY <1>3 DEF Sends, TypeOK
    <3>. QED BY <3>1, <3>2
  <2>2. ~handler[r].eof /\ Phase(call[r].st) # "none"
    BY <2>1 DEF Explained, Phase, Unopened
  <2>. QED BY <1>1, <2>1, <2>2 DEF Carried!Step, Carried!Next, Carried!Make
<1>4. CASE Ends(r)
  <2>1. /\ handler[r].st = "streaming" /\ handler'[r].eof = TRUE /\ handler'[r].sent = handler[r].sent
    BY <1>4 DEF Ends, TypeOK
  <2>2. ~handler[r].eof /\ Phase(call[r].st) # "none"
    BY <2>1 DEF Explained, Phase, Unopened
  <2>. QED BY <1>1, <2>1, <2>2 DEF Carried!Step, Carried!Next, Carried!Finish
<1>. QED BY <1>2, <1>3, <1>4, HandlerEffects

LEMMA StepRefines ==
    ASSUME IInv, Next, NEW r \in Requests
    PROVE  Carried(r)!Step
<1>1. TypeOK /\ Explained(r)
  BY AllExplained DEF IInv
<1>2. ASSUME NEW q \in Requests, Pick(q) \/ CallerStep(q) \/ CallerGone(q) PROVE Carried(r)!Step
  <2>1. CASE q = r
    BY <1>1, <1>2, <2>1, CallerRefines
  <2>2. CASE q # r
    BY <1>1, <1>2, <2>2, CallerFrame, CallerEffects, Stutters
  <2>. QED BY <2>1, <2>2
<1>3. ASSUME NEW q \in Requests, HandlerStep(q) PROVE Carried(r)!Step
  <2>1. CASE q = r
    BY <1>1, <1>3, <2>1, HandlerRefines
  <2>2. CASE q # r
    BY <1>1, <1>3, <2>2, HandlerFrame, HandlerEffects, Stutters
  <2>. QED BY <2>1, <2>2
<1>4. ASSUME NEW c \in Conns, LinkStep(c) \/ Connect(c) \/ Lose(c) \/ Revoke(c) PROVE Carried(r)!Step
  <2>1. call' = call /\ (AgentReads(c) \/ AgentLoses(c) \/ handler' = handler)
    BY <1>4, LinkFrame
  <2>2. handler'[r].sent = handler[r].sent /\ handler'[r].eof = handler[r].eof
    BY <1>1, <2>1, ReadsEffects, LosesEffects
  <2>. QED BY <2>1, <2>2, Stutters
<1>5. CASE UNCHANGED <<wire, current, closed, nextId, streams, call, inbox, cancels, session,
                       running, handler, down, up>>
  BY <1>5, Stutters
<1>. QED BY <1>2, <1>3, <1>4, <1>5, Steps

\* For every request, the tunnel is an exchange: its caller gets exactly what the service
\* sent, in order, and success only for a whole answer.
THEOREM AnswersAreCarried == Spec => CarriesExchange
<1>1. Init => \A r \in Requests : Carried(r)!Init
  BY DEF Init, Carried!Init, Phase
<1>2. IInv /\ [Next]_vars => [\A r \in Requests : Carried(r)!Step]_vars
  BY StepRefines
<1>. QED BY <1>1, <1>2, Invariance, PTL DEF Spec, CarriesExchange

----------------------------------------------------------------------------
(* Nothing is left behind: every table entry has a step that takes it away *)

Last == {"END", "ERR"}

\* A closed connection is lost and empty; what a caller still enters there fails.
ClosedOK ==
    \A c \in Conns : closed[c] =>
        /\ wire[c] = "lost" /\ up[c] = <<>>
        /\ \A s \in Sids, r \in Requests : streams[c][s] = r => call[r].st = "sending"
\* Nobody has used a connection that is yet to come; only the present one has orders.
FreshOK ==
    \A c \in Conns : /\ wire[c] = "new" => \A s \in Sids : streams[c][s] = None
                     /\ session # c => down[c] = <<>>
\* Who gives a stream up has left the table before the agent can hear of it.
CancelsGone ==
    /\ \A c \in Conns, s \in Sids : <<c, s>> \in cancels => streams[c][s] = None
    /\ \A c \in Conns : \A i \in 1..Len(down[c]) :
           down[c][i].t = "CANCEL" => streams[c][down[c][i].sid] = None
    /\ \A r \in Requests : call[r].st = "expired" => streams[call[r].conn][call[r].sid] = None
    /\ \A r \in Requests : handler[r].cancelled =>
           wire[handler[r].conn] = "lost" \/ streams[handler[r].conn][handler[r].sid] = None
\* A caller that waits is in the table, or the end of its answer is in its queue.
AwaitedOK ==
    \A r \in Requests : call[r].st \in Live =>
        \/ streams[call[r].conn][call[r].sid] = r
        \/ \E i \in 1..Len(inbox[r]) : inbox[r][i].t \in Last
\* The end of the answer of a stream in the table is yet to be ordered, made or read.
Ordered(c, r) == \E i \in 1..Len(down[c]) : down[c][i].t = "REQ" /\ down[c][i].of = r
Made(r) == handler[r].st \in {"spawned", "calling", "streaming"}
Finished(c, r) == \E i \in 1..Len(up[c]) : up[c][i].of = r /\ up[c][i].t \in Last
ServedOK ==
    \A c \in Conns, s \in Sids, r \in Requests :
        streams[c][s] = r /\ wire[c] = "up" /\ call[r].st # "sending" =>
            Ordered(c, r) \/ Made(r) \/ Finished(c, r)
Onward == ClosedOK /\ FreshOK /\ CancelsGone /\ AwaitedOK /\ ServedOK

\* What IInv says of the places of requests, without the memory of them.
Ties ==
    /\ \A c \in Conns, s \in Sids, r \in Requests : streams[c][s] = r =>
           /\ call[r].st \in Holding => call[r].conn = c /\ call[r].sid = s
           /\ handler[r].st \in Working => handler[r].conn = c /\ handler[r].sid = s
    /\ \A r \in Requests : call[r].st \in Holding =>
           /\ call[r].conn \in Conns /\ call[r].sid \in Sids
           /\ streams[call[r].conn][call[r].sid] \in {r, None}
    /\ \A r \in Requests : handler[r].st \in Working =>
           handler[r].conn \in Conns /\ handler[r].sid \in Sids
    /\ \A r \in Requests : handler[r].cancelled => handler[r].st \in {"calling", "streaming", "ending"}
    /\ \A c \in Conns : \A i \in 1..Len(down[c]) : down[c][i].t = "CANCEL" => down[c][i].sid \in Sids
    /\ \A c \in Conns : \A i \in 1..Len(down[c]) : down[c][i].t = "REQ" => down[c][i].of \in Requests
    /\ \A c \in Conns : \A i \in 1..Len(down[c]) : down[c][i].t \in {"REQ", "CANCEL", "REVOKED"}
    /\ \A c \in Conns, s \in Sids : \A i \in 1..Len(up[c]) : streams[c][s] = up[c][i].of => s = up[c][i].sid
\* The place that a request enters is nobody's.
Unused(c, s) ==
    /\ streams[c][s] = None /\ <<c, s>> \notin cancels
    /\ \A i \in 1..Len(down[c]) : ~(down[c][i].t = "CANCEL" /\ down[c][i].sid = s)
    /\ \A q \in Requests : /\ ~(call[q].st \in Holding /\ call[q].conn = c /\ call[q].sid = s)
                           /\ ~(handler[q].st \in Working /\ handler[q].conn = c /\ handler[q].sid = s)

LEMMA TiesHold == IInv => Ties /\ Sited
<1>. SUFFICES ASSUME IInv PROVE Ties /\ Sited
  OBVIOUS
<1>1. TypeOK /\ LinksOK
  BY DEF IInv
<1>2. PICK on \in Places, id \in Ids : Remembers(on, id)
  BY DEF IInv
<1>3. /\ CallsOK(on, id) /\ StreamsOK(on, id) /\ OpenedOnce(on, id) /\ HandlersOK(on, id) /\ DownOK(on, id)
      /\ UpOK(on, id)
  BY <1>2 DEF Remembers, IdsOK, WorkOK, AnswersOK
<1>4. Sited
  BY <1>1, <1>3, SomewhereIsSited
<1>5. ASSUME NEW c \in Conns, NEW s \in Sids, NEW r \in Requests, streams[c][s] = r
      PROVE  on[r] = c /\ id[r] = s
  BY <1>3, <1>5, Constants DEF StreamsOK
<1>6. ASSUME NEW c \in Conns, NEW s \in Sids, NEW r \in Requests, streams[c][s] = r
      PROVE  /\ call[r].st \in Holding => call[r].conn = c /\ call[r].sid = s
             /\ handler[r].st \in Working => handler[r].conn = c /\ handler[r].sid = s
  BY <1>3, <1>5, <1>6 DEF CallsOK, HandlersOK
<1>7. ASSUME NEW r \in Requests, call[r].st \in Holding
      PROVE  /\ call[r].conn \in Conns /\ call[r].sid \in Sids
             /\ streams[call[r].conn][call[r].sid] \in {r, None}
  <2>1. call[r].conn \in Conns /\ call[r].sid \in Sids
    BY <1>1, <1>4, <1>7 DEF TypeOK, Sited
  <2>2. on[r] # 0 /\ call[r].conn = on[r] /\ call[r].sid = id[r]
    BY <1>3, <1>7 DEF CallsOK
  <2>3. ASSUME NEW q \in Requests, streams[call[r].conn][call[r].sid] = q PROVE q = r
    <3>1. on[q] = on[r] /\ id[q] = id[r]
      BY <1>5, <2>1, <2>2, <2>3
    <3>. QED BY <1>3, <2>2, <3>1 DEF OpenedOnce
  <2>4. streams[call[r].conn][call[r].sid] \in Requests \cup {None}
    BY <1>1, <2>1 DEF TypeOK
  <2>. QED BY <2>1, <2>3, <2>4
<1>8. ASSUME NEW r \in Requests
      PROVE  /\ handler[r].st \in Working => handler[r].conn \in Conns /\ handler[r].sid \in Sids
             /\ handler[r].cancelled => handler[r].st \in {"calling", "streaming", "ending"}
  <2>1. handler[r].st \in Working => handler[r].conn \in Conns /\ handler[r].sid \in Sids
    BY <1>1, <1>4 DEF TypeOK, Sited
  <2>2. handler[r].st \in HandlerStates
    BY <1>1 DEF TypeOK
  <2>. QED BY <1>3, <2>1, <2>2 DEF HandlersOK, HandlerStates
<1>9. ASSUME NEW c \in Conns, NEW i \in 1..Len(down[c])
      PROVE  /\ down[c][i].t = "CANCEL" => down[c][i].sid \in Sids
             /\ down[c][i].t = "REQ" => down[c][i].of \in Requests
             /\ down[c][i].t \in {"REQ", "CANCEL", "REVOKED"}
  BY <1>3 DEF DownOK, OrderOK
<1>10. ASSUME NEW c \in Conns, NEW s \in Sids, NEW i \in 1..Len(up[c]), streams[c][s] = up[c][i].of
       PROVE  s = up[c][i].sid
  <2>1. up[c][i].of \in Requests /\ id[up[c][i].of] = up[c][i].sid
    BY <1>3 DEF UpOK, Produced
  <2>. QED BY <1>5, <1>10, <2>1
<1>. QED BY <1>4, <1>6, <1>7, <1>8, <1>9, <1>10 DEF Ties

LEMMA EntersUnused ==
    ASSUME IInv, NEW r \in Requests, Open(r)
    PROVE  /\ call[r].conn \in Conns /\ nextId[call[r].conn] \in Sids
           /\ Unused(call[r].conn, nextId[call[r].conn])
           /\ streams' = [streams EXCEPT ![call[r].conn][nextId[call[r].conn]] = r]
           /\ \A q \in Requests : q # r => call'[q] = call[q]
           /\ call'[r].st = "sending" /\ call'[r].conn = call[r].conn
           /\ call'[r].sid = nextId[call[r].conn] /\ call[r].st = "picked"
           /\ UNCHANGED <<inbox, cancels, wire, running, handler, down, up, session, closed>>
<1>1. TypeOK
  BY DEF IInv
<1>2. PICK on \in Places, id \in Ids : Remembers(on, id)
  BY DEF IInv
<1>3. IdsOK(on, id) /\ WorkOK(on, id)
  BY <1>2 DEF Remembers
<1>4. /\ call[r].conn \in Conns /\ nextId[call[r].conn] \in Sids
      /\ \A q \in Requests : on[q] = call[r].conn => id[q] < nextId[call[r].conn]
      /\ \A q \in Requests : q # r => call'[q] = call[q]
      /\ UNCHANGED <<inbox, cancels, wire, running, handler, down, up>>
      /\ streams' = [streams EXCEPT ![call[r].conn][nextId[call[r].conn]] = r]
      /\ call[r].st = "picked"
  BY <1>1, <1>3, OpenFacts
<1>5. PICK c \in Conns, s \in Sids : c = call[r].conn /\ s = nextId[c]
  BY <1>4
<1>6. \A q \in Requests : ~(on[q] = c /\ id[q] = s)
  <2>. SUFFICES ASSUME NEW q \in Requests, on[q] = c, id[q] = s PROVE FALSE
    OBVIOUS
  <2>1. s < s /\ s \in Nat
    BY <1>4, <1>5, Constants
  <2>. QED BY <2>1
<1>7. streams[c][s] = None
  <2>1. streams[c][s] \in Requests \cup {None}
    BY <1>1 DEF TypeOK
  <2>2. streams[c][s] # None => on[streams[c][s]] = c /\ id[streams[c][s]] = s
    BY <1>3 DEF IdsOK, StreamsOK
  <2>. QED BY <1>6, <2>1, <2>2
<1>8. <<c, s>> \notin cancels
  BY <1>3, <1>6 DEF WorkOK, CancelsOK, Dead
<1>9. \A i \in 1..Len(down[c]) : ~(down[c][i].t = "CANCEL" /\ down[c][i].sid = s)
  BY <1>3, <1>6 DEF WorkOK, DownOK, OrderOK, Dead
<1>10. \A q \in Requests : /\ ~(call[q].st \in Holding /\ call[q].conn = c /\ call[q].sid = s)
                           /\ ~(handler[q].st \in Working /\ handler[q].conn = c /\ handler[q].sid = s)
  BY <1>3, <1>6 DEF IdsOK, CallsOK, WorkOK, HandlersOK
<1>11. /\ call'[r].st = "sending" /\ call'[r].conn = call[r].conn /\ call'[r].sid = nextId[call[r].conn]
  BY <1>1, CallerEffects
<1>12. UNCHANGED <<session, closed>>
  BY DEF Open, linkVars
<1>. QED BY <1>4, <1>5, <1>7, <1>8, <1>9, <1>10, <1>11, <1>12 DEF Unused

LEMMA StreamsFate ==
    ASSUME IInv, [Next]_vars
    PROVE  \A c \in Conns, s \in Sids :
               \/ streams'[c][s] \in {streams[c][s], None}
               \/ \E r \in Requests : Open(r) /\ c = call[r].conn /\ s = nextId[c] /\ streams'[c][s] = r
<1>1. TypeOK
  BY DEF IInv
<1>2. CASE \A r \in Requests : ~Open(r)
  BY <1>1, <1>2, StreamSteps
<1>3. ASSUME NEW r \in Requests, Open(r), NEW c \in Conns, NEW s \in Sids
      PROVE  streams'[c][s] = streams[c][s] \/ (c = call[r].conn /\ s = nextId[c] /\ streams'[c][s] = r)
  <2>1. streams' = [streams EXCEPT ![call[r].conn][nextId[call[r].conn]] = r] /\ call[r].conn \in Conns
        /\ nextId[call[r].conn] \in Sids
    BY <1>3, EntersUnused
  <2>. QED BY <1>1, <2>1 DEF TypeOK
<1>. QED BY <1>2, <1>3

\* An empty place stays empty but for a request that enters it.
LEMMA StaysEmpty ==
    ASSUME IInv, [Next]_vars, NEW c \in Conns, NEW s \in Sids, streams[c][s] = None
    PROVE  streams'[c][s] = None \/ \E r \in Requests : Open(r) /\ c = call[r].conn /\ Unused(c, s)
<1>1. CASE streams'[c][s] \in {streams[c][s], None}
  BY <1>1
<1>2. ASSUME NEW r \in Requests, Open(r), c = call[r].conn, s = nextId[c]
      PROVE  Unused(c, s)
  BY <1>2, EntersUnused
<1>. QED BY <1>1, <1>2, StreamsFate

\* What a connection to the agent becomes.
Reaches(c, f) == wire[c] = "up" /\ wire'[c] = "up" /\ f \in Frames /\ down'[c] = Append(down[c], f)
LEMMA DownFate ==
    ASSUME IInv, [Next]_vars
    PROVE  \A c \in Conns :
               \/ down'[c] = down[c]
               \/ AgentReads(c) \/ AgentLoses(c)
               \/ \E r \in Requests : /\ Send(r) /\ call[r].conn = c
                                      /\ Reaches(c, Frame("REQ", call[r].sid, r, 0))
               \/ \E r \in Requests : /\ CancelSent(r) /\ call[r].conn = c
                                      /\ Reaches(c, Frame("CANCEL", call[r].sid, None, 0))
               \/ \E s \in Sids : SendCancel(c, s) /\ Reaches(c, Frame("CANCEL", s, None, 0))
               \/ Reaches(c, Frame("REVOKED", 0, None, 0))
<1>1. TypeOK /\ Ties /\ down \in [Conns -> Seq(Frames)]
  BY TiesHold DEF IInv, TypeOK
<1>2. ASSUME NEW d \in Conns, NEW f, f \in Frames, ToAgent(d, f), wire' = wire, NEW c \in Conns
      PROVE  down'[c] = down[c] \/ (c = d /\ Reaches(c, f))
  <2>1. down' = Written(down, d, f)
    BY <1>2 DEF ToAgent
  <2>2. down'[c] = down[c] \/ (c = d /\ wire[c] = "up" /\ down'[c] = Append(down[c], f))
    BY <1>1, <1>2, <2>1 DEF Written
  <2>. QED BY <1>2, <2>2 DEF Reaches
<1>3. ASSUME NEW r \in Requests, Pick(r) \/ CallerStep(r) \/ CallerGone(r)
      PROVE  down' = down \/ Send(r) \/ CancelSent(r)
  BY <1>3 DEF Pick, CallerStep, Open, SendFails, ReadHead, Read, CallerGone, Expire, Leave, Abort
<1>4. ASSUME NEW r \in Requests, Send(r)
      PROVE  /\ wire' = wire /\ call[r].conn \in Conns
             /\ Frame("REQ", call[r].sid, r, 0) \in Frames
             /\ ToAgent(call[r].conn, Frame("REQ", call[r].sid, r, 0))
  BY <1>1, <1>4, FrameType DEF Send, linkVars, Ties, Holding
<1>5. ASSUME NEW r \in Requests, CancelSent(r)
      PROVE  /\ wire' = wire /\ call[r].conn \in Conns
             /\ Frame("CANCEL", call[r].sid, None, 0) \in Frames
             /\ ToAgent(call[r].conn, Frame("CANCEL", call[r].sid, None, 0))
  BY <1>1, <1>5, FrameType DEF CancelSent, linkVars, Ties, Holding
<1>6. ASSUME NEW d \in Conns, NEW s \in Sids, SendCancel(d, s)
      PROVE  /\ wire' = wire /\ Frame("CANCEL", s, None, 0) \in Frames
             /\ ToAgent(d, Frame("CANCEL", s, None, 0))
  BY <1>6, FrameType DEF SendCancel, linkVars
<1>7. ASSUME NEW d \in Conns, Revoke(d)
      PROVE  /\ wire' = wire /\ Frame("REVOKED", 0, None, 0) \in Frames
             /\ ToAgent(d, Frame("REVOKED", 0, None, 0))
  BY <1>7, FrameType DEF Revoke
<1>8. ASSUME NEW d \in Conns, LinkStep(d) \/ Connect(d) \/ Lose(d) \/ Revoke(d)
      PROVE  \/ down' = down \/ Revoke(d)
             \/ AgentReads(d) /\ \A c \in Conns : c # d => down'[c] = down[c]
             \/ AgentLoses(d) /\ \A c \in Conns : c # d => down'[c] = down[c]
             \/ \E s \in Sids : SendCancel(d, s)
  <2>1. CASE AgentReads(d)
    BY <1>1, <2>1, ReadsEffects
  <2>2. CASE AgentLoses(d)
    BY <1>1, <2>2, LosesEffects
  <2>. QED BY <1>8, <2>1, <2>2 DEF LinkStep, Dispatch, RouterCloses, Connect, Lose
<1>. SUFFICES ASSUME NEW c \in Conns
              PROVE  \/ down'[c] = down[c]
                     \/ AgentReads(c) \/ AgentLoses(c)
                     \/ \E r \in Requests : /\ Send(r) /\ call[r].conn = c
                                            /\ Reaches(c, Frame("REQ", call[r].sid, r, 0))
                     \/ \E r \in Requests : /\ CancelSent(r) /\ call[r].conn = c
                                            /\ Reaches(c, Frame("CANCEL", call[r].sid, None, 0))
                     \/ \E s \in Sids : SendCancel(c, s) /\ Reaches(c, Frame("CANCEL", s, None, 0))
                     \/ Reaches(c, Frame("REVOKED", 0, None, 0))
  OBVIOUS
<1>9. ASSUME NEW r \in Requests, Pick(r) \/ CallerStep(r) \/ CallerGone(r)
      PROVE  \/ down'[c] = down[c]
             \/ Send(r) /\ call[r].conn = c /\ Reaches(c, Frame("REQ", call[r].sid, r, 0))
             \/ CancelSent(r) /\ call[r].conn = c /\ Reaches(c, Frame("CANCEL", call[r].sid, None, 0))
  <2>1. CASE Send(r)
    BY <1>2, <1>4, <2>1
  <2>2. CASE CancelSent(r)
    BY <1>2, <1>5, <2>2
  <2>. QED BY <1>3, <1>9, <2>1, <2>2
<1>10. ASSUME NEW d \in Conns, LinkStep(d) \/ Connect(d) \/ Lose(d) \/ Revoke(d)
       PROVE  \/ down'[c] = down[c]
              \/ AgentReads(c) \/ AgentLoses(c)
              \/ \E s \in Sids : SendCancel(c, s) /\ Reaches(c, Frame("CANCEL", s, None, 0))
              \/ Reaches(c, Frame("REVOKED", 0, None, 0))
  <2>1. CASE Revoke(d)
    BY <1>2, <1>7, <2>1
  <2>2. ASSUME NEW s \in Sids, SendCancel(d, s)
        PROVE  down'[c] = down[c] \/ (c = d /\ Reaches(c, Frame("CANCEL", s, None, 0)))
    BY <1>2, <1>6, <2>2
  <2>. QED BY <1>8, <1>10, <2>1, <2>2
<1>. QED BY <1>9, <1>10, Steps, HandlerFrame

\* What a connection to the router becomes.
LEMMA UpFate ==
    ASSUME IInv, [Next]_vars
    PROVE  \A c \in Conns :
               \/ up'[c] = up[c]
               \/ Dispatch(c) /\ up'[c] = Tail(up[c])
               \/ up'[c] = <<>> /\ wire'[c] = "lost"
               \/ wire[c] = "up" /\ \E f \in Frames : up'[c] = Append(up[c], f)
<1>1. TypeOK /\ LinksOK /\ Ties /\ up \in [Conns -> Seq(Frames)]
  BY TiesHold DEF IInv, TypeOK
<1>. SUFFICES ASSUME NEW c \in Conns
              PROVE  \/ up'[c] = up[c]
                     \/ Dispatch(c) /\ up'[c] = Tail(up[c])
                     \/ up'[c] = <<>> /\ wire'[c] = "lost"
                     \/ wire[c] = "up" /\ \E f \in Frames : up'[c] = Append(up[c], f)
  OBVIOUS
<1>2. ASSUME NEW r \in Requests, HandlerStep(r)
      PROVE  up'[c] = up[c] \/ (wire[c] = "up" /\ \E f \in Frames : up'[c] = Append(up[c], f))
  <2>1. \/ up' = up
        \/ \E t \in {"RESP", "DATA", "END", "ERR"}, n \in Nat :
               /\ handler[r].st \in Working
               /\ up' = Written(up, handler[r].conn, Frame(t, handler[r].sid, r, n))
    <3>1. handler[r].sent \in Nat
      BY <1>1 DEF TypeOK
    <3>2. Responds(r) => /\ handler[r].st = "calling"
                         /\ up' = Written(up, handler[r].conn, Frame("RESP", handler[r].sid, r, 0))
      BY DEF Responds, ToRouter
    <3>3. Sends(r) => /\ handler[r].st = "streaming"
                      /\ up' = Written(up, handler[r].conn, Frame("DATA", handler[r].sid, r, handler[r].sent + 1))
      BY DEF Sends, ToRouter
    <3>4. Ends(r) => /\ handler[r].st = "streaming"
                     /\ up' = Written(up, handler[r].conn, Frame("END", handler[r].sid, r, 0))
      BY DEF Ends, ToRouter
    <3>5. Breaks(r) => \/ up' = up
                       \/ /\ handler[r].st \in {"calling", "streaming"}
                          /\ up' = Written(up, handler[r].conn, Frame("ERR", handler[r].sid, r, 0))
      BY DEF Breaks, ToRouter
    <3>6. Register(r) \/ WriteFails(r) \/ Unregister(r) => up' = up
      BY DEF Register, WriteFails, Unregister
    <3>7. 0 \in Nat /\ handler[r].sent + 1 \in Nat
      BY <3>1
    <3>. QED BY <1>2, <3>2, <3>3, <3>4, <3>5, <3>6, <3>7 DEF HandlerStep, Working
  <2>2. CASE up' = up
    BY <2>2
  <2>3. ASSUME NEW t \in {"RESP", "DATA", "END", "ERR"}, NEW n \in Nat, handler[r].st \in Working,
               up' = Written(up, handler[r].conn, Frame(t, handler[r].sid, r, n))
        PROVE  up'[c] = up[c] \/ (wire[c] = "up" /\ \E f \in Frames : up'[c] = Append(up[c], f))
    <3>1. handler[r].conn \in Conns /\ handler[r].sid \in Sids
      BY <1>1, <2>3 DEF Ties
    <3>2. PICK d \in Conns, f \in Frames : d = handler[r].conn /\ f = Frame(t, handler[r].sid, r, n)
      BY <3>1, FrameType
    <3>3. up' = Written(up, d, f)
      BY <2>3, <3>2
    <3>4. up'[c] = up[c] \/ (c = d /\ wire[c] = "up" /\ up'[c] = Append(up[c], f))
      BY <1>1, <3>3 DEF Written
    <3>. QED BY <3>4
  <2>. QED BY <2>1, <2>2, <2>3
<1>3. ASSUME NEW d \in Conns, LinkStep(d) \/ Connect(d) \/ Lose(d) \/ Revoke(d)
      PROVE  \/ up'[c] = up[c]
             \/ Dispatch(c) /\ up'[c] = Tail(up[c])
             \/ up'[c] = <<>> /\ wire'[c] = "lost"
  <2>1. CASE RouterCloses(d)
    BY <1>1, <2>1 DEF RouterCloses, TypeOK
  <2>2. CASE Connect(d)
    <3>1. CASE current = 0
      BY <2>2, <3>1 DEF Connect
    <3>2. CASE current # 0
      <4>1. current \in Conns /\ up' = [up EXCEPT ![current] = <<>>] /\ session = 0 /\ wire[d] = "new"
            /\ wire' = [wire EXCEPT ![d] = "up"]
        BY <1>1, <2>2, <3>2 DEF Connect, TypeOK
      <4>2. wire[current] = "lost" /\ current # d
        <5>1. wire[current] # "new" /\ (wire[current] = "up" => session = current)
          BY <1>1, <3>2, <4>1 DEF LinksOK
        <5>. QED BY <1>1, <3>2, <4>1, <5>1 DEF TypeOK
      <4>3. wire'[current] = "lost"
        BY <1>1, <4>1, <4>2 DEF TypeOK
      <4>. QED BY <1>1, <4>1, <4>3
    <3>. QED BY <3>1, <3>2
  <2>3. CASE Dispatch(d)
    BY <1>1, <2>3, DispatchEffects
  <2>4. CASE AgentReads(d) \/ AgentLoses(d) \/ (\E s \in Sids : SendCancel(d, s)) \/ Lose(d) \/ Revoke(d)
    BY <2>4 DEF AgentReads, AgentLoses, SendCancel, Lose, Revoke, ToAgent
  <2>. QED BY <1>3, <2>1, <2>2, <2>3, <2>4 DEF LinkStep
<1>. QED BY <1>2, <1>3, Steps, CallerFrame

\* Of a call that has not sent its request, the sending or the end is next.
LEMMA StillSending ==
    ASSUME IInv, [Next]_vars, NEW c \in Conns, NEW s \in Sids, NEW r \in Requests,
           streams[c][s] = r, streams'[c][s] = r, call[r].st = "sending"
    PROVE  call'[r].st = "sending" \/ (Send(r) /\ call[r].conn = c)
<1>1. TypeOK /\ call[r].conn = c /\ call[r].sid = s /\ r # None
  BY TiesHold, Constants DEF IInv, Ties, Holding
<1>2. ~Pop(r)
  BY <1>1 DEF Pop, TypeOK
<1>3. ASSUME Pick(r) \/ CallerStep(r) \/ CallerGone(r) PROVE Send(r)
  <2>1. SendFails(r) \/ Abort(r) => Pop(r)
    BY DEF SendFails, Abort
  <2>2. CallerStep(r) \/ Abort(r)
    BY <1>3, CallerEffects, <1>1 DEF CallerGone
  <2>. QED BY <1>1, <1>2, <2>1, <2>2, CallerEffects DEF CallerStep
<1>4. ASSUME NEW q \in Requests, q # r, Pick(q) \/ CallerStep(q) \/ CallerGone(q) PROVE call'[r] = call[r]
  BY <1>1, <1>4, CallerEffects
<1>. QED BY <1>1, <1>3, <1>4, Steps, HandlerFrame, LinkFrame

LEMMA ClosedSteps ==
    ASSUME IInv, [Next]_vars
    PROVE  \A c \in Conns : closed'[c] /\ ~closed[c] =>
               wire'[c] = "lost" /\ up'[c] = <<>> /\ \A s \in Sids : streams'[c][s] = None
<1>1. TypeOK /\ LinksOK
  BY DEF IInv
<1>2. ASSUME NEW d \in Conns, RouterCloses(d), NEW c \in Conns, closed'[c], ~closed[c]
      PROVE  wire'[c] = "lost" /\ up'[c] = <<>> /\ \A s \in Sids : streams'[c][s] = None
  BY <1>1, <1>2 DEF RouterCloses, CloseAll, TypeOK
<1>3. ASSUME NEW d \in Conns, Connect(d), NEW c \in Conns, closed'[c], ~closed[c]
      PROVE  wire'[c] = "lost" /\ up'[c] = <<>> /\ \A s \in Sids : streams'[c][s] = None
  <2>1. /\ c = current /\ c # 0 /\ session = 0 /\ wire[d] = "new" /\ wire' = [wire EXCEPT ![d] = "up"]
        /\ up' = [up EXCEPT ![c] = <<>>] /\ CloseAll(c)
    BY <1>1, <1>3 DEF Connect, TypeOK
  <2>2. wire[c] = "lost"
    BY <1>1, <2>1 DEF LinksOK, TypeOK
  <2>3. wire'[c] = "lost" /\ up'[c] = <<>>
    BY <1>1, <2>1, <2>2 DEF TypeOK
  <2>. QED BY <1>1, <2>1, <2>3 DEF CloseAll, TypeOK
<1>4. ASSUME NEW d \in Conns, LinkStep(d) \/ Connect(d) \/ Lose(d) \/ Revoke(d)
      PROVE  RouterCloses(d) \/ Connect(d) \/ closed' = closed
  BY <1>4 DEF LinkStep, Dispatch, AgentReads, AgentLoses, SendCancel, Lose, Revoke, linkVars
<1>. QED BY <1>2, <1>3, <1>4, Steps, CallerFrame, HandlerFrame

LEMMA ClosedKept == ASSUME IInv, ClosedOK, [Next]_vars PROVE ClosedOK'
<1>1. TypeOK
  BY DEF IInv
<1>. SUFFICES ASSUME NEW c \in Conns, closed'[c]
              PROVE  /\ wire'[c] = "lost" /\ up'[c] = <<>>
                     /\ \A s \in Sids, r \in Requests : streams'[c][s] = r => call'[r].st = "sending"
  BY DEF ClosedOK
<1>2. CASE ~closed[c]
  BY <1>2, ClosedSteps, Constants
<1>3. CASE closed[c]
  <2>1. wire[c] = "lost" /\ up[c] = <<>>
    BY <1>3 DEF ClosedOK
  <2>2. wire'[c] = "lost"
    BY <1>1, <2>1, WireSteps
  <2>3. up'[c] = <<>>
    BY <1>3, <2>1, UpFate DEF Dispatch
  <2>4. ASSUME NEW s \in Sids, NEW r \in Requests, streams'[c][s] = r PROVE call'[r].st = "sending"
    <3>1. ASSUME NEW q \in Requests, Open(q), streams'[c][s] = q PROVE call'[r].st = "sending"
      BY <2>4, <3>1, EntersUnused
    <3>2. CASE streams'[c][s] \in {streams[c][s], None}
      <4>1. streams[c][s] = r
        BY <2>4, <3>2, Constants
      <4>2. call[r].st = "sending"
        BY <1>3, <4>1 DEF ClosedOK
      <4>3. Send(r) /\ call[r].conn = c => FALSE
        BY <1>3 DEF Send
      <4>. QED BY <2>4, <4>1, <4>2, <4>3, StillSending
    <3>. QED BY <3>1, <3>2, StreamsFate
  <2>. QED BY <2>2, <2>3, <2>4
<1>. QED BY <1>2, <1>3

LEMMA FreshKept == ASSUME IInv, FreshOK, [Next]_vars PROVE FreshOK'
<1>1. TypeOK /\ LinksOK /\ LinksOK' /\ wire \in [Conns -> {"new", "up", "lost"}]
  BY LinksKept DEF IInv, TypeOK
<1>2. ASSUME NEW c \in Conns, wire'[c] = "new", NEW s \in Sids PROVE streams'[c][s] = None
  <2>1. wire[c] = "new"
    BY <1>1, <1>2, WireSteps
  <2>2. streams[c][s] = None
    BY <2>1 DEF FreshOK
  <2>3. ASSUME NEW r \in Requests, Open(r), c = call[r].conn PROVE FALSE
    <3>1. c # 0
      BY Constants
    <3>. QED BY <1>1, <2>1, <2>3, <3>1 DEF LinksOK
  <2>. QED BY <2>2, <2>3, StaysEmpty
<1>3. ASSUME NEW c \in Conns, session' # c PROVE down'[c] = <<>>
  <2>1. CASE AgentReads(c)
    <3>1. session = c /\ down' = [down EXCEPT ![c] = <<>>]
      BY <1>3, <2>1 DEF AgentReads
    <3>. QED BY <1>1, <3>1 DEF TypeOK
  <2>2. CASE AgentLoses(c)
    BY <1>1, <2>2, LosesEffects DEF TypeOK
  <2>3. ASSUME NEW f, Reaches(c, f) PROVE FALSE
    BY <1>1, <1>3, <2>3 DEF Reaches, LinksOK
  <2>4. CASE down'[c] = down[c] /\ ~AgentReads(c) /\ ~AgentLoses(c)
    <3>1. session' = session \/ session = 0 \/ (\E d \in Conns : session = d /\ (AgentReads(d) \/ AgentLoses(d)))
      <4>1. ASSUME NEW d \in Conns, LinkStep(d) \/ Connect(d) \/ Lose(d) \/ Revoke(d)
            PROVE  session' = session \/ session = 0 \/ (session = d /\ (AgentReads(d) \/ AgentLoses(d)))
        BY <4>1 DEF LinkStep, Dispatch, RouterCloses, AgentReads, AgentLoses, SendCancel, Connect, Lose,
                    Revoke, linkVars
      <4>. QED BY <4>1, Steps, CallerFrame, HandlerFrame
    <3>2. c # 0
      BY Constants
    <3>3. session # c
      BY <1>3, <2>4, <3>1, <3>2
    <3>. QED BY <2>4, <3>3 DEF FreshOK
  <2>. QED BY <2>1, <2>2, <2>3, <2>4, DownFate
<1>. QED BY <1>2, <1>3 DEF FreshOK

\* What has been tied to one place stays there, or is let go.
LEMMA PlacesKept ==
    ASSUME IInv, [Next]_vars, NEW r \in Requests
    PROVE  /\ call'[r].st \in Holding => (call[r].st \in Holding /\ SamePlace(r)) \/ Open(r)
           /\ call'[r].st = "expired" => call[r].st = "expired" \/ Expire(r)
<1>1. TypeOK
  BY DEF IInv
<1>2. CASE call'[r] = call[r]
  BY <1>2 DEF SamePlace
<1>3. CASE Pick(r) \/ CallerStep(r) \/ CallerGone(r)
  BY <1>1, <1>3, CallerEffects DEF CallerStep, CallerGone, Holding, Ended, Over
<1>4. ASSUME NEW q \in Requests, q # r, Pick(q) \/ CallerStep(q) \/ CallerGone(q) PROVE call'[r] = call[r]
  BY <1>1, <1>4, CallerEffects
<1>. QED BY <1>2, <1>3, <1>4, Steps, HandlerFrame, LinkFrame

LEMMA SentGone ==
    ASSUME IInv, CancelsGone, [Next]_vars, NEW c \in Conns, NEW s \in Sids, <<c, s>> \in cancels'
    PROVE  streams'[c][s] = None
<1>1. TypeOK /\ Ties
  BY TiesHold DEF IInv
<1>2. CASE <<c, s>> \in cancels
  <2>1. streams[c][s] = None
    BY <1>2 DEF CancelsGone
  <2>2. ~Unused(c, s)
    BY <1>2 DEF Unused
  <2>. QED BY <2>1, <2>2, StaysEmpty
<1>3. CASE <<c, s>> \notin cancels
  <2>1. ASSUME NEW r \in Requests, Abort(r) PROVE streams'[c][s] = None
    <3>1. /\ c = call[r].conn /\ s = call[r].sid /\ Pop(r)
      BY <1>1, <1>3, <2>1 DEF Abort
    <3>. QED BY <1>1, <3>1 DEF Pop, TypeOK
  <2>2. ASSUME NEW r \in Requests, Pick(r) \/ CallerStep(r) \/ CallerGone(r), ~Abort(r)
        PROVE  cancels' = cancels
    BY <2>2 DEF Pick, CallerStep, Open, Send, SendFails, ReadHead, Read, CancelSent, CallerGone,
                Expire, Leave, callVars
  <2>3. ASSUME NEW d \in Conns, LinkStep(d) \/ Connect(d) \/ Lose(d) \/ Revoke(d)
        PROVE  cancels' \subseteq cancels
    BY <2>3 DEF LinkStep, Dispatch, RouterCloses, AgentReads, AgentLoses, SendCancel, Connect, Lose,
                Revoke, callVars
  <2>. QED BY <1>3, <2>1, <2>2, <2>3, Steps, HandlerFrame
<1>. QED BY <1>2, <1>3

LEMMA ExpiredGone ==
    ASSUME IInv, CancelsGone, [Next]_vars, NEW r \in Requests, call'[r].st = "expired"
    PROVE  streams'[call'[r].conn][call'[r].sid] = None
<1>1. TypeOK /\ Ties
  BY TiesHold DEF IInv
<1>2. CASE Expire(r)
  <2>1. call[r].st = "waiting" /\ SamePlace(r) /\ Pop(r)
    BY <1>1, <1>2, CallerEffects DEF Expire, CallerGone
  <2>2. call[r].conn \in Conns /\ call[r].sid \in Sids
    BY <1>1, <2>1 DEF Ties, Holding
  <2>. QED BY <1>1, <2>1, <2>2 DEF Pop, SamePlace, TypeOK
<1>3. CASE call[r].st = "expired"
  <2>1. SamePlace(r)
    <3>1. ~Open(r)
      BY <1>3 DEF Open
    <3>. QED BY <3>1, PlacesKept DEF Holding
  <2>2. PICK c \in Conns, s \in Sids : c = call[r].conn /\ s = call[r].sid
    BY <1>1, <1>3 DEF Ties, Holding
  <2>3. streams[c][s] = None
    BY <1>3, <2>2 DEF CancelsGone
  <2>4. ~Unused(c, s)
    BY <1>3, <2>2 DEF Unused, Holding
  <2>5. streams'[c][s] = None
    BY <2>3, <2>4, StaysEmpty
  <2>. QED BY <2>1, <2>2, <2>5 DEF SamePlace
<1>. QED BY <1>2, <1>3, PlacesKept

LEMMA OrderedGone ==
    ASSUME IInv, CancelsGone, [Next]_vars, NEW c \in Conns, NEW i \in 1..Len(down'[c]),
           down'[c][i].t = "CANCEL"
    PROVE  streams'[c][down'[c][i].sid] = None
<1>1. TypeOK /\ Ties /\ down[c] \in Seq(Frames)
  BY TiesHold DEF IInv, TypeOK
<1>2. ASSUME NEW j \in 1..Len(down[c]), down'[c][i] = down[c][j] PROVE streams'[c][down'[c][i].sid] = None
  <2>1. PICK s \in Sids : s = down[c][j].sid
    BY <1>1, <1>2 DEF Ties
  <2>2. streams[c][s] = None
    BY <1>2, <2>1 DEF CancelsGone
  <2>3. ~Unused(c, s)
    BY <1>2, <2>1 DEF Unused
  <2>. QED BY <1>2, <2>1, <2>2, <2>3, StaysEmpty
<1>3. ASSUME NEW f, Reaches(c, f)
      PROVE  (\E j \in 1..Len(down[c]) : down'[c][i] = down[c][j]) \/ down'[c][i] = f
  <2>1. f \in Frames /\ down'[c] = Append(down[c], f)
    BY <1>3 DEF Reaches
  <2>. QED BY <1>1, <2>1, AppendFacts
<1>4. CASE down'[c] = down[c]
  BY <1>2, <1>4
<1>5. CASE AgentReads(c)
  <2>1. down[c] # <<>> /\ (down'[c] = Tail(down[c]) \/ down'[c] = <<>>)
    BY <1>1, <1>5, ReadsEffects DEF TypeOK
  <2>2. down'[c] = Tail(down[c])
    BY <2>1
  <2>3. i + 1 \in 1..Len(down[c]) /\ down'[c][i] = down[c][i + 1]
    BY <1>1, <2>1, <2>2, TailFacts
  <2>. QED BY <1>2, <2>3
<1>6. CASE AgentLoses(c)
  <2>1. down'[c] = <<>>
    BY <1>1, <1>6, LosesEffects DEF TypeOK
  <2>. QED BY <2>1
<1>7. ASSUME NEW r \in Requests, Send(r), Reaches(c, Frame("REQ", call[r].sid, r, 0))
      PROVE  \E j \in 1..Len(down[c]) : down'[c][i] = down[c][j]
  BY <1>3, <1>7 DEF Frame
<1>8. ASSUME NEW r \in Requests, CancelSent(r), call[r].conn = c, Reaches(c, Frame("CANCEL", call[r].sid, None, 0))
      PROVE  streams'[c][down'[c][i].sid] = None
  <2>1. CASE down'[c][i] = Frame("CANCEL", call[r].sid, None, 0)
    <3>1. down'[c][i].sid = call[r].sid
      BY <2>1 DEF Frame
    <3>2. call[r].st \in {"expired", "closing"} /\ call[r].sid \in Sids
      BY <1>1, <1>8 DEF CancelSent, Ties, Holding
    <3>3. CASE call[r].st = "expired"
      <4>1. streams' = streams /\ streams[c][call[r].sid] = None
        BY <1>8, <3>3 DEF CancelSent, CancelsGone
      <4>. QED BY <3>1, <4>1
    <3>4. CASE call[r].st = "closing"
      <4>1. streams' = [streams EXCEPT ![c][call[r].sid] = None]
        BY <1>8, <3>4 DEF CancelSent, Pop
      <4>. QED BY <1>1, <3>1, <3>2, <4>1 DEF TypeOK
    <3>. QED BY <3>2, <3>3, <3>4
  <2>. QED BY <1>2, <1>3, <1>8, <2>1
<1>9. ASSUME NEW s \in Sids, SendCancel(c, s), Reaches(c, Frame("CANCEL", s, None, 0))
      PROVE  streams'[c][down'[c][i].sid] = None
  <2>1. CASE down'[c][i] = Frame("CANCEL", s, None, 0)
    <3>1. down'[c][i].sid = s /\ <<c, s>> \in cancels /\ streams' = streams
      BY <1>9, <2>1 DEF Frame, SendCancel, routerVars
    <3>. QED BY <3>1 DEF CancelsGone
  <2>. QED BY <1>2, <1>3, <1>9, <2>1
<1>10. ASSUME Reaches(c, Frame("REVOKED", 0, None, 0))
       PROVE  \E j \in 1..Len(down[c]) : down'[c][i] = down[c][j]
  BY <1>3, <1>10 DEF Frame
<1>. QED BY <1>2, <1>4, <1>5, <1>6, <1>7, <1>8, <1>9, <1>10, DownFate

\* Who is cancelled is of a lost connection or has left the table.
LEMMA CancelledGone ==
    ASSUME IInv, CancelsGone, [Next]_vars, NEW r \in Requests, handler'[r].cancelled
    PROVE  wire'[handler'[r].conn] = "lost" \/ streams'[handler'[r].conn][handler'[r].sid] = None
<1>1. TypeOK /\ LinksOK /\ Ties /\ handler \in [Requests -> HandlerRecord]
  BY TiesHold DEF IInv, TypeOK, HandlerRecord
<1>. DEFINE Same == handler'[r].conn = handler[r].conn /\ handler'[r].sid = handler[r].sid
<1>2. CASE handler[r].cancelled /\ Same
  <2>1. PICK c \in Conns, s \in Sids : c = handler[r].conn /\ s = handler[r].sid
    BY <1>1, <1>2 DEF Ties, Working
  <2>2. wire[c] = "lost" \/ streams[c][s] = None
    BY <1>2, <2>1 DEF CancelsGone
  <2>3. ~Unused(c, s)
    BY <1>1, <1>2, <2>1 DEF Unused, Ties, Working
  <2>. QED BY <1>1, <1>2, <2>1, <2>2, <2>3, StaysEmpty, WireSteps
<1>3. ASSUME NEW q \in Requests, HandlerStep(q) PROVE handler[r].cancelled /\ Same
  BY <1>1, <1>3, HandlerEffects
<1>4. ASSUME NEW c \in Conns, AgentReads(c), handler'[r] # handler[r]
      PROVE  wire'[handler'[r].conn] = "lost" \/ streams'[handler'[r].conn][handler'[r].sid] = None
  <2>1. /\ session = c /\ running' = running /\ 1 \in 1..Len(down[c]) /\ down[c] # <<>>
    BY <1>1, <1>4, ReadsEffects
  <2>2. CASE down[c][1].t = "REQ"
    <3>1. r = down[c][1].of /\ handler'[r].cancelled = handler[r].cancelled
      BY <1>1, <1>4, <2>2, ReadsEffects
    <3>2. PICK on \in Places, id \in Ids : Remembers(on, id)
      BY DEF IInv
    <3>3. handler[r].st = "none"
      BY <2>1, <2>2, <3>1, <3>2 DEF Remembers, WorkOK, DownOK, OrderOK
    <3>. QED BY <1>1, <3>1, <3>3 DEF Ties
  <2>3. CASE down[c][1].t = "CANCEL"
    <3>1. r = running[down[c][1].sid] /\ Same
      BY <1>1, <1>4, <2>3, ReadsEffects
    <3>2. PICK s \in Sids : s = down[c][1].sid
      BY <1>1, <2>1, <2>3 DEF Ties
    <3>3. handler[r].sid = s /\ handler[r].st \in Working
      BY <3>1, <3>2, Constants DEF IInv, Remembers, WorkOK, RunningOK, Working
    <3>4. PICK d \in Conns : d = handler[r].conn
      BY <1>1, <3>3 DEF Ties
    <3>5. CASE d = c
      <4>1. streams[c][s] = None /\ streams' = streams
        BY <1>4, <2>1, <2>3, <3>2 DEF CancelsGone, AgentReads, routerVars
      <4>. QED BY <3>1, <3>3, <3>4, <3>5, <4>1
    <3>6. CASE d # c
      <4>1. wire[d] = "lost"
        <5>1. wire[d] # "new" /\ wire[d] # "up" /\ d # 0
          BY <1>1, <2>1, <3>4, <3>6, Constants DEF LinksOK
        <5>. QED BY <1>1, <5>1 DEF TypeOK
      <4>. QED BY <1>1, <3>1, <3>4, <4>1, WireSteps
    <3>. QED BY <3>5, <3>6
  <2>4. CASE down[c][1].t \notin {"REQ", "CANCEL"}
    BY <1>1, <1>4, <2>4, ReadsEffects
  <2>. QED BY <2>2, <2>3, <2>4
<1>5. ASSUME NEW c \in Conns, AgentLoses(c), handler'[r] # handler[r]
      PROVE  wire'[handler'[r].conn] = "lost"
  <2>1. session = c /\ wire[c] = "lost" /\ wire' = wire /\ Same /\ \E s \in Sids : running[s] = r
    BY <1>1, <1>5, LosesEffects
  <2>2. handler[r].st \in Working
    BY <2>1, Constants DEF IInv, Remembers, WorkOK, RunningOK, Working
  <2>3. PICK d \in Conns : d = handler[r].conn
    BY <1>1, <2>2 DEF Ties
  <2>4. d # c => wire[d] = "lost"
    <3>1. d # c => wire[d] # "new" /\ wire[d] # "up" /\ d # 0
      BY <1>1, <2>1, <2>3, Constants DEF LinksOK
    <3>. QED BY <1>1, <3>1 DEF TypeOK
  <2>. QED BY <2>1, <2>3, <2>4
<1>6. CASE handler'[r] = handler[r]
  BY <1>2, <1>6
<1>. QED BY <1>2, <1>3, <1>4, <1>5, <1>6, Steps, CallerFrame, LinkFrame

LEMMA CancelsGoneKept == ASSUME IInv, CancelsGone, [Next]_vars PROVE CancelsGone'
<1>1. \A c \in Conns, s \in Sids : <<c, s>> \in cancels' => streams'[c][s] = None
  BY SentGone
<1>2. \A c \in Conns : \A i \in 1..Len(down'[c]) : down'[c][i].t = "CANCEL" => streams'[c][down'[c][i].sid] = None
  BY OrderedGone
<1>3. \A r \in Requests : call'[r].st = "expired" => streams'[call'[r].conn][call'[r].sid] = None
  BY ExpiredGone
<1>4. \A r \in Requests : handler'[r].cancelled =>
          wire'[handler'[r].conn] = "lost" \/ streams'[handler'[r].conn][handler'[r].sid] = None
  BY CancelledGone
<1>. QED BY <1>1, <1>2, <1>3, <1>4 DEF CancelsGone

LEMMA AwaitedKept == ASSUME IInv, AwaitedOK, [Next]_vars PROVE AwaitedOK'
<1>1. TypeOK /\ Ties /\ \A q \in Requests : inbox[q] \in Seq(Frames)
  BY TiesHold DEF IInv, TypeOK
<1>. SUFFICES ASSUME NEW r \in Requests, call'[r].st \in Live
              PROVE  \/ streams'[call'[r].conn][call'[r].sid] = r
                     \/ \E i \in 1..Len(inbox'[r]) : inbox'[r][i].t \in Last
  BY DEF AwaitedOK
<1>. DEFINE Goal == \/ streams'[call'[r].conn][call'[r].sid] = r
                    \/ \E i \in 1..Len(inbox'[r]) : inbox'[r][i].t \in Last
<1>2. CASE Open(r)
  <2>1. /\ call'[r].conn \in Conns /\ call'[r].sid \in Sids
        /\ streams' = [streams EXCEPT ![call'[r].conn][call'[r].sid] = r]
    BY <1>2, EntersUnused
  <2>. QED BY <1>1, <2>1 DEF TypeOK
<1>3. CASE ~Open(r)
  <2>1. call[r].st \in Holding /\ SamePlace(r)
    BY <1>3, PlacesKept DEF Live, Holding
  <2>2. call[r].st \in Live
    <3>1. Live \subseteq Holding /\ {"expired", "closing"} \cap Live = {}
      BY DEF Live, Holding
    <3>2. ASSUME Pick(r) \/ CallerStep(r) \/ CallerGone(r), call[r].st \in {"expired", "closing"} PROVE FALSE
      BY <1>1, <3>2, CallerEffects DEF CallerStep, CallerGone, Ended, Over, Live
    <3>3. ASSUME NEW q \in Requests, q # r, Pick(q) \/ CallerStep(q) \/ CallerGone(q) PROVE call'[r] = call[r]
      BY <1>1, <3>3, CallerEffects
    <3>4. call'[r] = call[r] \/ call[r].st \notin {"expired", "closing"}
      BY <3>2, <3>3, Steps, HandlerFrame, LinkFrame
    <3>. QED BY <2>1, <3>4 DEF Live, Holding
  <2>3. PICK c \in Conns, s \in Sids : c = call[r].conn /\ s = call[r].sid
    BY <1>1, <2>1 DEF Ties
  <2>4. streams[c][s] = r \/ \E i \in 1..Len(inbox[r]) : inbox[r][i].t \in Last
    BY <2>2, <2>3 DEF AwaitedOK
  <2>5. streams[c][s] = r => streams'[c][s] = r \/ streams'[c][s] = None
    <3>1. ASSUME NEW q \in Requests, Open(q), c = call[q].conn, s = nextId[c], streams[c][s] = r PROVE FALSE
      BY <3>1, EntersUnused, Constants DEF Unused
    <3>. QED BY <3>1, StreamsFate
  <2>6. ASSUME streams'[c][s] = streams[c][s], inbox'[r] = inbox[r] PROVE Goal
    BY <2>1, <2>3, <2>4, <2>6 DEF SamePlace
  <2>7. ASSUME NEW f, f \in Frames, inbox'[r] = Append(inbox[r], f),
               streams'[c][s] = streams[c][s] \/ f.t \in Last
        PROVE  Goal
    <3>1. /\ Len(inbox'[r]) = Len(inbox[r]) + 1 /\ Len(inbox[r]) \in Nat
          /\ \A i \in 1..Len(inbox[r]) : inbox'[r][i] = inbox[r][i]
          /\ inbox'[r][Len(inbox[r]) + 1] = f
      BY <1>1, <2>7, AppendFacts
    <3>2. CASE f.t \in Last
      <4>1. Len(inbox[r]) + 1 \in 1..Len(inbox'[r])
        BY <3>1
      <4>. QED BY <3>1, <3>2, <4>1
    <3>3. CASE streams'[c][s] = streams[c][s] /\ streams[c][s] = r
      BY <2>1, <2>3, <3>3 DEF SamePlace
    <3>4. ASSUME NEW i \in 1..Len(inbox[r]), inbox[r][i].t \in Last PROVE Goal
      <4>1. i \in 1..Len(inbox'[r])
        BY <3>1
      <4>. QED BY <3>1, <3>4, <4>1
    <3>. QED BY <2>4, <2>7, <3>2, <3>3, <3>4
  <2>8. ASSUME NEW q \in Requests, q # r, Pick(q) \/ CallerStep(q) \/ CallerGone(q) PROVE Goal
    <3>1. inbox'[r] = inbox[r]
      BY <1>1, <2>8, CallerEffects
    <3>2. \/ UNCHANGED streams
          \/ Pop(q) /\ call[q].st \in Holding
          \/ Open(q)
      BY <1>1, <2>8, CallerEffects
         DEF Pick, CallerStep, Send, SendFails, ReadHead, Read, CancelSent, CallerGone, Expire,
             Leave, Abort, routerVars, Holding
    <3>3. CASE Pop(q) /\ call[q].st \in Holding
      <4>1. streams[call[q].conn][call[q].sid] \in {q, None} /\ call[q].conn \in Conns /\ call[q].sid \in Sids
        BY <1>1, <3>3 DEF Ties
      <4>2. streams[c][s] \in {r, None}
        BY <1>1, <2>1, <2>3 DEF Ties
      <4>3. streams'[c][s] = streams[c][s]
        <5>1. CASE c = call[q].conn /\ s = call[q].sid
          BY <1>1, <2>8, <3>3, <4>1, <4>2, <5>1 DEF Pop, TypeOK
        <5>2. CASE ~(c = call[q].conn /\ s = call[q].sid)
          BY <1>1, <3>3, <4>1, <5>2 DEF Pop, TypeOK
        <5>. QED BY <5>1, <5>2
      <4>. QED BY <2>6, <3>1, <4>3
    <3>4. CASE Open(q)
      <4>1. ~(c = call[q].conn /\ s = nextId[c])
        BY <2>1, <2>3, <3>4, EntersUnused DEF Unused
      <4>2. PICK d \in Conns, k \in Sids : d = call[q].conn /\ k = nextId[d]
        BY <3>4, EntersUnused
      <4>3. streams' = [streams EXCEPT ![d][k] = q]
        BY <3>4, <4>2, EntersUnused
      <4>4. streams'[c][s] = streams[c][s]
        BY <1>1, <4>1, <4>2, <4>3 DEF TypeOK
      <4>. QED BY <2>6, <3>1, <4>4
    <3>. QED BY <2>6, <3>1, <3>2, <3>3, <3>4
  <2>9. ASSUME Pick(r) \/ CallerStep(r) \/ CallerGone(r) PROVE Goal
    <3>1. Pick(r) \/ Send(r) \/ ReadHead(r) \/ Read(r)
      BY <1>1, <1>3, <2>9, CallerEffects DEF CallerStep, CallerGone, Ended, Over, Live
    <3>2. CASE Pick(r) \/ Send(r)
      BY <1>1, <2>6, <3>2 DEF Pick, Send, routerVars
    <3>3. CASE ReadHead(r) \/ Read(r)
      <4>1. /\ inbox[r] # <<>> /\ inbox'[r] = Tail(inbox[r]) /\ inbox[r][1].t \in {"RESP", "DATA"}
        BY <1>1, <3>3, CallerEffects DEF CallerStep, Ended, Over, Live
      <4>2. streams' = streams
        <5>1. Head(inbox[r]) = inbox[r][1]
          BY <1>1, <4>1
        <5>2. CallEnds(r, "complete") \/ CallEnds(r, "failed") => FALSE
          BY <1>1, CallEffects DEF Live
        <5>. QED BY <3>3, <4>1, <5>1, <5>2 DEF ReadHead, Read
      <4>3. ASSUME NEW i \in 1..Len(inbox[r]), inbox[r][i].t \in Last PROVE Goal
        <5>1. i # 1
          BY <4>1, <4>3 DEF Last
        <5>2. /\ Len(inbox'[r]) = Len(inbox[r]) - 1 /\ Len(inbox[r]) \in Nat
              /\ \A j \in 1..Len(inbox'[r]) : inbox'[r][j] = inbox[r][j + 1]
          BY <1>1, <4>1, TailFacts
        <5>3. i - 1 \in 1..Len(inbox'[r]) /\ (i - 1) + 1 = i
          BY <5>1, <5>2
        <5>4. inbox'[r][i - 1] = inbox[r][i]
          BY <5>2, <5>3
        <5>. QED BY <4>3, <5>3, <5>4
      <4>. QED BY <2>1, <2>3, <2>4, <4>2, <4>3 DEF SamePlace
    <3>. QED BY <3>1, <3>2, <3>3
  <2>10. ASSUME NEW d \in Conns, Dispatch(d) PROVE Goal
    <3>1. PICK f \in Frames : f = up[d][1]
      BY <1>1, <2>10, DispatchEffects
    <3>2. /\ r = streams[d][f.sid] => inbox'[r] = Append(inbox[r], f)
          /\ r # streams[d][f.sid] => inbox'[r] = inbox[r]
          /\ streams' = IF f.t \in Last THEN [streams EXCEPT ![d][f.sid] = None] ELSE streams
      BY <1>1, <2>2, <2>10, <3>1, DispatchEffects DEF Live, Over, Last
    <3>3. streams'[c][s] = streams[c][s] \/ (f.t \in Last /\ c = d /\ s = f.sid)
      BY <1>1, <3>2 DEF TypeOK
    <3>4. CASE r = streams[d][f.sid]
      BY <2>7, <3>2, <3>3, <3>4
    <3>5. CASE r # streams[d][f.sid]
      <4>1. streams'[c][s] = streams[c][s]
        <5>1. CASE c = d /\ s = f.sid
          <6>1. streams[c][s] = None
            <7>1. streams[c][s] \in {r, None}
              BY <1>1, <2>1, <2>3 DEF Ties
            <7>. QED BY <3>5, <5>1, <7>1
          <6>. QED BY <1>1, <3>2, <6>1 DEF TypeOK
        <5>2. CASE ~(c = d /\ s = f.sid)
          BY <3>3, <5>2
        <5>. QED BY <5>1, <5>2
      <4>. QED BY <2>6, <3>2, <3>5, <4>1
    <3>. QED BY <3>4, <3>5
  <2>11. ASSUME NEW d \in Conns, Told(d) PROVE Goal
    <3>1. PICK f \in Frames : f = Frame("ERR", 0, None, 0)
      BY FrameType
    <3>2. f.t \in Last
      BY <3>1 DEF Frame, Last
    <3>3. inbox'[r] = inbox[r] \/ inbox'[r] = Append(inbox[r], f)
      BY <2>11, <3>1 DEF Told
    <3>4. streams[c][s] = r /\ c = d => inbox'[r] = Append(inbox[r], f)
      BY <2>2, <2>11, <3>1 DEF Told, Live, Over
    <3>5. c # d => streams'[c][s] = streams[c][s]
      BY <1>1, <2>11 DEF Told, TypeOK
    <3>6. CASE inbox'[r] = Append(inbox[r], f)
      BY <2>7, <3>2, <3>6
    <3>7. CASE inbox'[r] = inbox[r] /\ c # d
      BY <2>6, <3>5, <3>7
    <3>8. CASE inbox'[r] = inbox[r] /\ streams[c][s] # r
      BY <2>4, <3>8
    <3>. QED BY <3>3, <3>4, <3>6, <3>7, <3>8
  <2>. HIDE DEF Goal
  <2>12. UNCHANGED <<inbox, streams>> => Goal
    BY <2>6
  <2>13. (\E q \in Requests : Pick(q) \/ CallerStep(q) \/ CallerGone(q)) => Goal
    BY <2>8, <2>9
  <2>14. Goal
    BY <1>1, <2>10, <2>11, <2>12, <2>13, QueueSteps
  <2>. QED BY <2>14 DEF Goal
<1>. QED BY <1>2, <1>3

\* An order, a piece of work, an end of an answer: each leads to the next.
LEMMA OrderedKept ==
    ASSUME IInv, [Next]_vars, NEW c \in Conns, NEW r \in Requests, wire[c] = "up", wire'[c] = "up",
           Ordered(c, r)
    PROVE  Ordered(c, r)' \/ Made(r)'
<1>1. TypeOK /\ down \in [Conns -> Seq(Frames)] /\ down[c] \in Seq(Frames)
  BY DEF IInv, TypeOK
<1>2. PICK i \in 1..Len(down[c]) : down[c][i].t = "REQ" /\ down[c][i].of = r
  BY DEF Ordered
<1>3. ASSUME NEW f, Reaches(c, f) PROVE Ordered(c, r)'
  <2>1. /\ Len(down'[c]) = Len(down[c]) + 1 /\ Len(down[c]) \in Nat /\ down'[c][i] = down[c][i]
    BY <1>1, <1>3, AppendFacts DEF Reaches
  <2>2. i \in 1..Len(down'[c])
    BY <2>1
  <2>. QED BY <1>2, <2>1, <2>2 DEF Ordered
<1>4. CASE down'[c] = down[c]
  BY <1>2, <1>4 DEF Ordered
<1>5. CASE AgentLoses(c)
  BY <1>1, <1>5, LosesEffects
<1>6. CASE AgentReads(c)
  <2>1. down[c] # <<>>
    BY <1>1, <1>6, ReadsEffects
  <2>2. CASE i = 1
    <3>1. handler'[r].st = "spawned"
      <4>1. down[c][1].t = "REQ" /\ r = down[c][1].of
        BY <1>2, <2>2
      <4>2. Head(down[c]) = down[c][1]
        BY <1>1, <2>1
      <4>3. handler' = [handler EXCEPT ![r].st = "spawned", ![r].conn = c, ![r].sid = down[c][1].sid]
        BY <1>6, <4>1, <4>2 DEF AgentReads
      <4>. QED BY <1>1, <4>3 DEF TypeOK
    <3>. QED BY <3>1 DEF Made
  <2>3. CASE i # 1
    <3>1. down'[c] = Tail(down[c])
      <4>1. Head(down[c]).t # "REVOKED"
        BY <1>1, <1>6 DEF AgentReads, TypeOK
      <4>. QED BY <1>1, <1>6, <4>1 DEF AgentReads
    <3>2. /\ Len(down'[c]) = Len(down[c]) - 1 /\ Len(down[c]) \in Nat
          /\ \A j \in 1..Len(down'[c]) : down'[c][j] = down[c][j + 1]
      BY <1>1, <2>1, <3>1, TailFacts
    <3>3. i - 1 \in 1..Len(down'[c]) /\ (i - 1) + 1 = i
      BY <2>3, <3>2
    <3>4. down'[c][i - 1] = down[c][i]
      BY <3>2, <3>3
    <3>. QED BY <1>2, <3>3, <3>4 DEF Ordered
  <2>. QED BY <2>2, <2>3
<1>. QED BY <1>3, <1>4, <1>5, <1>6, DownFate

LEMMA MadeKept ==
    ASSUME IInv, CancelsGone, [Next]_vars, NEW c \in Conns, NEW s \in Sids, NEW r \in Requests,
           streams[c][s] = r, wire[c] = "up", Made(r)
    PROVE  Made(r)' \/ Finished(c, r)'
<1>1. TypeOK /\ Ties /\ up \in [Conns -> Seq(Frames)] /\ up[c] \in Seq(Frames) /\ r # None
  BY TiesHold, Constants DEF IInv, TypeOK
<1>2. handler[r].conn = c /\ handler[r].sid = s
  BY <1>1 DEF Ties, Made, Working
<1>3. ~handler[r].cancelled
  BY <1>1, <1>2 DEF CancelsGone
<1>4. CASE HandlerStep(r)
  <2>1. ASSUME NEW t \in Last, NEW n \in Nat, ToRouter(c, Frame(t, s, r, n)) PROVE Finished(c, r)'
    <3>1. PICK f \in Frames : f = Frame(t, s, r, n)
      BY <2>1, FrameType DEF Last
    <3>2. up'[c] = Append(up[c], f)
      BY <1>1, <2>1, <3>1 DEF ToRouter, Written
    <3>3. Len(up'[c]) = Len(up[c]) + 1 /\ Len(up[c]) \in Nat /\ up'[c][Len(up[c]) + 1] = f
      BY <1>1, <3>2, AppendFacts
    <3>4. Len(up[c]) + 1 \in 1..Len(up'[c])
      BY <3>3
    <3>5. f.of = r /\ f.t \in Last
      BY <2>1, <3>1 DEF Frame
    <3>. QED BY <3>3, <3>4, <3>5 DEF Finished
  <2>2. Register(r) \/ Responds(r) \/ Sends(r) => Made(r)'
    BY <1>1, HandlerEffects DEF Made
  <2>3. Ends(r) => Finished(c, r)'
    BY <1>2, <2>1 DEF Ends, Last
  <2>4. Breaks(r) => Finished(c, r)'
    BY <1>2, <1>3, <2>1 DEF Breaks, Last
  <2>5. ~WriteFails(r) /\ ~Unregister(r)
    BY <1>2 DEF WriteFails, Unregister, Made
  <2>. QED BY <1>4, <2>2, <2>3, <2>4, <2>5 DEF HandlerStep
<1>5. ASSUME NEW q \in Requests, q # r, HandlerStep(q) PROVE Made(r)'
  <2>1. handler'[r] = handler[r]
    BY <1>1, <1>5, HandlerEffects
  <2>. QED BY <2>1 DEF Made
<1>6. ASSUME NEW d \in Conns, AgentReads(d) \/ AgentLoses(d) PROVE Made(r)'
  <2>1. handler'[r].st \in {handler[r].st, "spawned"}
    BY <1>1, <1>6, ReadsEffects, LosesEffects
  <2>. QED BY <2>1 DEF Made
<1>7. handler' = handler => Made(r)'
  BY DEF Made
<1>. QED BY <1>4, <1>5, <1>6, <1>7, Steps, CallerFrame, LinkFrame

LEMMA FinishedKept ==
    ASSUME IInv, [Next]_vars, NEW c \in Conns, NEW s \in Sids, NEW r \in Requests,
           streams[c][s] = r, streams'[c][s] = r, wire'[c] = "up", Finished(c, r)
    PROVE  Finished(c, r)'
<1>1. TypeOK /\ Ties /\ up \in [Conns -> Seq(Frames)] /\ up[c] \in Seq(Frames) /\ r # None
  BY TiesHold, Constants DEF IInv, TypeOK
<1>2. PICK i \in 1..Len(up[c]) : up[c][i].of = r /\ up[c][i].t \in Last
  BY DEF Finished
<1>3. ASSUME NEW f \in Frames, up'[c] = Append(up[c], f) PROVE Finished(c, r)'
  <2>1. Len(up'[c]) = Len(up[c]) + 1 /\ Len(up[c]) \in Nat /\ up'[c][i] = up[c][i]
    BY <1>1, <1>3, AppendFacts
  <2>2. i \in 1..Len(up'[c])
    BY <2>1
  <2>. QED BY <1>2, <2>1, <2>2 DEF Finished
<1>4. CASE up'[c] = up[c]
  BY <1>2, <1>4 DEF Finished
<1>5. CASE Dispatch(c) /\ up'[c] = Tail(up[c])
  <2>1. up[c] # <<>>
    BY <1>5 DEF Dispatch
  <2>2. i # 1
    <3>. SUFFICES ASSUME i = 1 PROVE FALSE
      OBVIOUS
    <3>1. s = up[c][1].sid
      BY <1>1, <1>2 DEF Ties
    <3>2. streams' = [streams EXCEPT ![c][s] = None]
      BY <1>1, <1>2, <1>5, <3>1, DispatchEffects DEF Last
    <3>. QED BY <1>1, <3>2 DEF TypeOK
  <2>3. /\ Len(up'[c]) = Len(up[c]) - 1 /\ Len(up[c]) \in Nat
        /\ \A j \in 1..Len(up'[c]) : up'[c][j] = up[c][j + 1]
    BY <1>1, <1>5, <2>1, TailFacts
  <2>4. i - 1 \in 1..Len(up'[c]) /\ (i - 1) + 1 = i
    BY <2>2, <2>3
  <2>5. up'[c][i - 1] = up[c][i]
    BY <2>3, <2>4
  <2>. QED BY <1>2, <2>4, <2>5 DEF Finished
<1>. QED BY <1>3, <1>4, <1>5, UpFate

LEMMA ServedKept ==
    ASSUME IInv, FreshOK, CancelsGone, ServedOK, [Next]_vars
    PROVE  ServedOK'
<1>1. TypeOK /\ Ties
  BY TiesHold DEF IInv
<1>. SUFFICES ASSUME NEW c \in Conns, NEW s \in Sids, NEW r \in Requests,
                     streams'[c][s] = r, wire'[c] = "up", call'[r].st # "sending"
              PROVE  Ordered(c, r)' \/ Made(r)' \/ Finished(c, r)'
  BY DEF ServedOK
<1>2. streams[c][s] = r
  <2>1. ASSUME NEW q \in Requests, Open(q), streams'[c][s] = q PROVE FALSE
    BY <2>1, EntersUnused
  <2>. QED BY <2>1, StreamsFate, Constants
<1>3. wire[c] = "up"
  <2>1. Connect(c) => wire[c] = "new"
    BY DEF Connect
  <2>2. wire[c] # "new"
    BY <1>2, Constants DEF FreshOK
  <2>. QED BY <1>1, <2>1, <2>2, WireSteps
<1>4. CASE call[r].st = "sending"
  <2>1. Send(r) /\ call[r].conn = c
    BY <1>2, <1>4, StillSending
  <2>2. PICK f \in Frames : f = Frame("REQ", call[r].sid, r, 0)
    BY <1>1, <2>1, FrameType DEF Send, Ties, Holding
  <2>3. down'[c] = Append(down[c], f) /\ down[c] \in Seq(Frames)
    BY <1>1, <1>3, <2>1, <2>2 DEF Send, ToAgent, Written, TypeOK
  <2>4. Len(down'[c]) = Len(down[c]) + 1 /\ Len(down[c]) \in Nat /\ down'[c][Len(down[c]) + 1] = f
    BY <2>3, AppendFacts
  <2>5. Len(down[c]) + 1 \in 1..Len(down'[c])
    BY <2>4
  <2>6. f.of = r /\ f.t = "REQ"
    BY <2>2 DEF Frame
  <2>. QED BY <2>4, <2>5, <2>6 DEF Ordered
<1>5. CASE call[r].st # "sending"
  <2>1. Ordered(c, r) \/ Made(r) \/ Finished(c, r)
    BY <1>2, <1>3, <1>5 DEF ServedOK
  <2>. QED BY <1>2, <1>3, <2>1, OrderedKept, MadeKept, FinishedKept
<1>. QED BY <1>4, <1>5

\* The invariant of what goes on: nothing is in a table without a step that ends it.
THEOREM GoesOn == Spec => []Onward
<1>1. Init => Onward
  BY Constants DEF Init, Onward, ClosedOK, FreshOK, CancelsGone, AwaitedOK, ServedOK, Live
<1>2. IInv /\ Onward /\ [Next]_vars => Onward'
  BY ClosedKept, FreshKept, CancelsGoneKept, AwaitedKept, ServedKept DEF Onward
<1>. QED BY <1>1, <1>2, Invariance, PTL DEF Spec

\* Where no step of either side can be taken, no caller waits, the router has no stream and
\* the agent has no request: whatever calls, aborts, losses and sessions came before.
THEOREM NothingIsLeft == Spec => []NothingLeftBehind
<1>1. IInv /\ Onward => NothingLeftBehind
  <2>. SUFFICES ASSUME IInv, Onward, ~CanGoOn
                PROVE  /\ \A r \in Requests : /\ call[r].st \in Over \cup {"idle"}
                                              /\ handler[r].st \in {"none", "over"}
                       /\ \A c \in Conns, s \in Sids : streams[c][s] = None
                       /\ \A s \in Sids : running[s] = None
    BY DEF NothingLeftBehind
  <2>1. TypeOK /\ LinksOK /\ Ties /\ Sited
    BY TiesHold DEF IInv
  <2>2. \A r \in Requests : ~CallerCanGo(r) /\ ~HandlerCanGo(r)
    BY DEF CanGoOn
  <2>3. \A c \in Conns : ~LinkCanGo(c)
    BY DEF CanGoOn
  <2>4. ASSUME NEW c \in Conns PROVE Len(down[c]) < Window /\ (wire[c] = "up" => Len(up[c]) < Window)
    <3>1. down[c] = <<>>
      BY <2>3 DEF LinkCanGo, Onward, FreshOK
    <3>2. wire[c] = "up" => up[c] = <<>>
      BY <2>3 DEF LinkCanGo, Onward, ClosedOK
    <3>. QED BY <3>1, <3>2, BoundAssumption
  <2>5. ASSUME NEW r \in Requests PROVE handler[r].st \in {"none", "over"}
    <3>1. handler[r].st \in HandlerStates
      BY <2>1 DEF TypeOK
    <3>2. ASSUME handler[r].st \in {"calling", "streaming"} PROVE FALSE
      <4>1. PICK c \in Conns : c = handler[r].conn
        BY <2>1, <3>2 DEF Ties, Working
      <4>2. wire[c] # "lost" /\ ~(Len(up[c]) < Window)
        BY <2>2, <3>2, <4>1 DEF HandlerCanGo
      <4>3. wire[c] # "new"
        BY <2>1, <4>1, Constants DEF LinksOK
      <4>. QED BY <2>1, <2>4, <4>2, <4>3 DEF TypeOK
    <3>. QED BY <2>2, <3>1, <3>2 DEF HandlerCanGo, HandlerStates
  <2>6. ASSUME NEW s \in Sids PROVE running[s] = None
    <3>1. running[s] # None =>
              running[s] \in Requests /\ handler[running[s]].st \in {"calling", "streaming", "ending"}
      BY <2>1 DEF IInv, Remembers, WorkOK, RunningOK, TypeOK
    <3>. QED BY <2>5, <3>1
  <2>7. ASSUME NEW r \in Requests
        PROVE  call[r].st \notin {"picked", "sending", "expired", "closing"}
    <3>1. call[r].st \in {"expired", "closing"} => FALSE
      <4>. SUFFICES ASSUME call[r].st \in {"expired", "closing"} PROVE FALSE
        OBVIOUS
      <4>1. call[r].conn \in Conns
        BY <2>1 DEF Ties, Holding
      <4>. QED BY <2>2, <2>4, <4>1 DEF CallerCanGo
    <3>2. call[r].st = "sending" => FALSE
      <4>. SUFFICES ASSUME call[r].st = "sending" PROVE FALSE
        OBVIOUS
      <4>1. PICK c \in Conns : c = call[r].conn
        BY <2>1 DEF Ties, Holding
      <4>2. wire[c] # "lost" /\ closed[c]
        BY <2>2, <2>4, <4>1 DEF CallerCanGo
      <4>. QED BY <4>2 DEF Onward, ClosedOK
    <3>. QED BY <2>2, <3>1, <3>2 DEF CallerCanGo
  <2>8. ASSUME NEW c \in Conns, NEW s \in Sids PROVE streams[c][s] = None
    <3>. SUFFICES ASSUME streams[c][s] # None PROVE FALSE
      OBVIOUS
    <3>1. PICK r \in Requests : r = streams[c][s]
      BY <2>1 DEF TypeOK
    <3>2. call[r].st # "sending"
      BY <2>7
    <3>3. wire[c] = "up"
      <4>1. wire[c] # "new"
        BY DEF Onward, FreshOK
      <4>2. wire[c] # "lost"
        BY <2>3, <3>1, <3>2 DEF LinkCanGo, Onward, ClosedOK
      <4>. QED BY <2>1, <4>1, <4>2 DEF TypeOK
    <3>4. Ordered(c, r) \/ Made(r) \/ Finished(c, r)
      BY <3>1, <3>2, <3>3 DEF Onward, ServedOK
    <3>5. down[c] = <<>> /\ up[c] = <<>>
      BY <2>3, <3>3 DEF LinkCanGo, Onward, FreshOK, ClosedOK
    <3>6. ~Ordered(c, r) /\ ~Finished(c, r)
      BY <3>5 DEF Ordered, Finished
    <3>7. ~Made(r)
      BY <2>5 DEF Made
    <3>. QED BY <3>4, <3>6, <3>7
  <2>9. ASSUME NEW r \in Requests PROVE call[r].st \in Over \cup {"idle"}
    <3>1. ASSUME call[r].st \in {"waiting", "reading"} PROVE FALSE
      <4>1. inbox[r] = <<>>
        BY <2>2, <3>1 DEF CallerCanGo
      <4>2. call[r].conn \in Conns /\ call[r].sid \in Sids
        BY <2>1, <3>1 DEF Ties, Holding
      <4>3. streams[call[r].conn][call[r].sid] = r
        BY <3>1, <4>1 DEF Onward, AwaitedOK, Live
      <4>. QED BY <2>8, <4>2, <4>3, Constants
    <3>2. call[r].st \in CallStates
      BY <2>1 DEF TypeOK
    <3>. QED BY <2>7, <3>1, <3>2 DEF CallStates, Over
  <2>. QED BY <2>5, <2>6, <2>8, <2>9
<1>. QED BY <1>1, Invariance, GoesOn, PTL
=============================================================================
