------------------------------- MODULE Access -------------------------------
(* Who may ask the router for what: identity and limits at the API port and the     *)
(* login at the control port (auth.py), the demands of a request and what can meet  *)
(* them (request.py), and what the content check takes out of a request that leaves *)
(* the house (privacy.py, cloud.py).                                                *)
(*                                                                                  *)
(* What the router remembers of clients and logins is a record; a sequence of       *)
(* requests and of clock ticks is folded over it. A token stands for its hash.      *)
EXTENDS Integers, Sequences, FiniteSets
LOCAL INSTANCE Functions

CONSTANTS
    Nobody,      \* no name, no token, no address
    Window,      \* 60 s of the rate limit in ticks of the clock
    AuditEvery,  \* _UNAUTH_AUDIT_EVERY_S
    OkFor, FailFor, FailMax,   \* BASIC_CACHE_S, BASIC_FAIL_S, BASIC_FAIL_MAX
    SessionFor, MaxSessions    \* session_affinity_ttl_s, the 5000 of remember_session

ASSUME TimesAssumption ==
    /\ {Window, AuditEvery, OkFor, FailFor, FailMax, MaxSessions} \subseteq Nat \ {0} /\ SessionFor \in Nat

Has(f, k) == k \in DOMAIN f
Bind(f, k, v) == [i \in DOMAIN f \cup {k} |-> IF i = k THEN v ELSE f[i]]
Since(times, limit) == SelectSeq(times, LAMBDA t : t >= limit)
Without(s, i) == SubSeq(s, 1, i - 1) \o SubSeq(s, i + 1, Len(s))

----------------------------------------------------------------------------
(* Clients of the API port *)

\* A client of the configuration; a request [auth, user, token, key, remote, path, roles].
\* auth: the scheme of the Authorization header; a token that cannot be read is Nobody.
Localhost == "localhost"
Internal == [name |-> "skirnir-ui", via |-> "internal"]
Unknown(why) == [name |-> Nobody, via |-> why]

\* resolve_client: the first client that fits. A token that does not fit is an error; no
\* token at all, an empty or an unreadable one leave the address.
Presented(q) ==
    IF q.auth \in {"bearer", "basic"} THEN [user |-> q.user, token |-> q.token, via |-> q.auth]
    ELSE [user |-> Nobody, token |-> q.key, via |-> "x-api-key"]
ResolveClient(clients, internal, q) ==
    LET p == Presented(q)
        byToken == {i \in DOMAIN clients : clients[i].token = p.token /\ p.user \in {Nobody, clients[i].name}}
        byAddress == {i \in DOMAIN clients : q.remote \in clients[i].ip}
        first(S, via) == [name |-> clients[CHOOSE i \in S : \A k \in S : i <= k].name, via |-> via]
    IN  IF p.token # Nobody
        THEN IF p.user = Nobody /\ q.remote = Localhost /\ p.token = internal THEN Internal
             ELSE IF byToken # {} THEN first(byToken, IF p.user # Nobody THEN "basic" ELSE p.via)
             ELSE Unknown("bad_token")
        ELSE IF byAddress # {} THEN first(byAddress, "ip") ELSE Unknown("no_credentials")

NoLimits == [name |-> Nobody, token |-> Nobody, ip |-> {}, rpm |-> 0, inference |-> TRUE, models |-> TRUE, roles |-> {"*"}]
SpecOf(clients, name) ==
    LET hits == SelectSeq(clients, LAMBDA c : c.name = name)
    IN  IF hits = <<>> THEN NoLimits ELSE hits[1]

NonInferenceAllowed == {"/rerank", "/info"}
InferenceRefused(c, path) == ~c.inference /\ path \notin NonInferenceAllowed
\* client_allows: of a request that is let in; `concrete`: it names a model, not a role.
ClientAllows(c, role, concrete) ==
    IF concrete THEN c.models ELSE "*" \in c.roles \/ role \in c.roles

NewDoor == [now |-> 0, recent |-> [c \in {} |-> <<>>], audited |-> [a \in {} |-> 0], log |-> 0, out |-> <<>>]
Answers(s, status, who) == [s EXCEPT !.out = Append(@, [status |-> status, who |-> who, at |-> s.now])]

\* client_auth_middleware. Refused requests count for the limit as well.
Unidentified(s, mode, q) ==
    LET due == mode = "enforce" \/ ~Has(s.audited, q.remote) \/ s.now - s.audited[q.remote] >= AuditEvery
        t == [s EXCEPT !.audited = IF due THEN Bind(@, q.remote, s.now) ELSE @, !.log = IF due THEN @ + 1 ELSE @]
    IN  Answers(t, IF mode = "enforce" THEN 401 ELSE 200, Nobody)
Identified(s, c, name, q) ==
    LET times == IF Has(s.recent, name) THEN s.recent[name] ELSE <<>>
        recent == IF c.rpm > 0 THEN Since(Append(times, s.now), s.now - Window) ELSE times
        t == [s EXCEPT !.recent = Bind(@, name, recent)]
    IN  IF c.rpm > 0 /\ Len(recent) > c.rpm THEN Answers([t EXCEPT !.log = @ + 1], 429, name)
        ELSE IF InferenceRefused(c, q.path) THEN Answers([t EXCEPT !.log = @ + 1], 403, name)
        ELSE Answers(t, 200, name)
Admits(s, clients, mode, internal, q) ==
    LET who == ResolveClient(clients, internal, q).name
    IN  IF q.path = "/api/version" \/ (clients = <<>> /\ mode # "enforce") THEN Answers(s, 200, Nobody)
        ELSE IF who = Nobody THEN Unidentified(s, mode, q)
        ELSE Identified(s, SpecOf(clients, who), who, q)

----------------------------------------------------------------------------
(* Logins of the control port *)

\* A login [user, pw, from]; its key is the header and the stored hash. `ok`, `fail`: until
\* when a key is known good or bad; `src`: failures of an address.
NewGate(stored) ==
    [now |-> 0, stored |-> stored, ok |-> [k \in {} |-> 0], fail |-> [k \in {} |-> 0], src |-> [a \in {} |-> <<>>],
     hashing |-> <<>>, out |-> <<>>]
KeyOf(s, l) == <<l.user, l.pw, s.stored[l.user]>>
Fresh(cache, key, now) == Has(cache, key) /\ cache[key] > now
FailuresOf(s, from) == IF Has(s.src, from) THEN Since(s.src[from], s.now - FailFor + 1) ELSE <<>>
Noted(s, from) == [s EXCEPT !.src = Bind(@, from, Append(FailuresOf(s, from), s.now))]
Replies(s, l, status) == [s EXCEPT !.out = Append(@, [login |-> l, status |-> status, stored |-> s.stored])]

\* basic_auth_middleware up to the hashing in a thread, and after it; the i-th is done.
LoginArrives(s, l) ==
    IF ~Has(s.stored, l.user) THEN Replies(Noted(s, l.from), l, 401)
    ELSE LET key == KeyOf(s, l)
         IN  IF Fresh(s.ok, key, s.now) THEN Replies(s, l, 200)
             ELSE IF Fresh(s.fail, key, s.now) THEN Replies(Noted(s, l.from), l, 401)
             ELSE IF Len(FailuresOf(s, l.from)) >= FailMax THEN Replies(s, l, 429)
             ELSE [s EXCEPT !.hashing = Append(@, [login |-> l, key |-> key])]
LoginHashed(s, i) ==
    LET h == s.hashing[i]
        t == [s EXCEPT !.hashing = Without(@, i)]
        good == h.login.pw = h.key[3]
    IN  IF good THEN Replies([t EXCEPT !.ok = Bind(@, h.key, s.now + OkFor)], h.login, 200)
        ELSE Replies(Noted([t EXCEPT !.fail = Bind(@, h.key, s.now + FailFor)], h.login.from), h.login, 401)
\* A call of /admin/ that changes something carries a header that no foreign form can set.
CsrfRefused(method, header, site) == method = "POST" /\ (~header \/ site = "cross-site")

----------------------------------------------------------------------------
(* Demands of a request *)

DefaultTrue == {"chat", "generate"}
\* lacks: only what is known to be missing; an entry of the catalog wins over /api/show.
Lacks(raw, over, caps) ==
    {c \in caps : IF Has(over, c) THEN ~over[c] ELSE c \notin DefaultTrue /\ raw # {} /\ c \notin raw}
EffectiveCaps(raw, over) ==
    ((raw \cup DefaultTrue) \cup {c \in DOMAIN over : over[c]}) \ {c \in DOMAIN over : ~over[c]}
ImplicitCaps(b) ==
    (IF b.tools > 0 THEN {"tools"} ELSE {}) \cup (IF b.images > 0 THEN {"vision"} ELSE {})
    \cup (IF b.think THEN {"thinking"} ELSE {}) \cup (IF b.format THEN {"structured"} ELSE {})
    \cup (IF b.suffix THEN {"insert"} ELSE {})
TooLarge(b, limits) == b.images > limits.images \/ b.tools > limits.tools \/ b.messages > limits.messages

\* parse: a field of the routing block is absent (Nobody), a value, or of the wrong kind.
RoutingFields == {"require", "prefer", "min_context", "session_id", "request_id", "priority", "deadline_ms",
                  "execution", "data_class", "session", "memory"}
Parses(rb) == DOMAIN rb \subseteq RoutingFields /\ \A f \in DOMAIN rb : rb[f] # "wrong"
Required(rb, b) == (IF Has(rb, "require") THEN rb.require ELSE {}) \cup ImplicitCaps(b)

\* affinity, remember_session: when there are too many, the oldest go (1000 of them; here one).
Affinity(s, id) == IF Has(s.sessions, id) /\ s.now - s.sessions[id].at <= SessionFor THEN s.sessions[id].node ELSE Nobody
Remember(s, id, node) ==
    LET all == Bind(s.sessions, id, [node |-> node, at |-> s.now])
        oldest == CHOOSE k \in DOMAIN all : \A j \in DOMAIN all : all[k].at <= all[j].at
    IN  [s EXCEPT !.sessions = IF Cardinality(DOMAIN all) <= MaxSessions THEN all
                               ELSE [k \in DOMAIN all \ {oldest} |-> all[k]]]

----------------------------------------------------------------------------
(* What leaves the house *)

\* A message [role, tool, texts, entries]: texts the user wrote, or a tool's result with the
\* entries of the house in it; an entry [domain, device, name].
Hidden(e, cfg) == e.domain \in cfg.domains \/ e.device \in cfg.devices \/ e.name \in cfg.names
Redacted(m, cfg) ==
    IF m.role # "tool" THEN m
    ELSE IF m.tool \in cfg.tools THEN [m EXCEPT !.texts = {"redacted"}, !.entries = <<>>]
    ELSE [m EXCEPT !.entries = SelectSeq(@, LAMBDA e : ~Hidden(e, cfg))]
RedactBody(body, cfg) == [i \in DOMAIN body |-> Redacted(body[i], cfg)]
UserTexts(body) == UNION {body[i].texts : i \in {k \in DOMAIN body : body[k].role = "user"}}
RuleHit(texts, cfg) == texts \cap (cfg.terms \cup (IF cfg.keywords THEN {"keyword"} ELSE {}) \cup {"pattern"}) # {}
\* check: `p` the classifier's answer, below the threshold or not, or none.
CheckBody(body, cfg, p) ==
    LET texts == UserTexts(body)
        why == IF RuleHit(texts, cfg) THEN "personal"
               ELSE IF texts = {} \/ p = "below" THEN "passed"
               ELSE IF p = "above" THEN "personal" ELSE "unavailable"
    IN  [result |-> why, body |-> IF why = "passed" THEN RedactBody(body, cfg) ELSE <<>>]
\* scan_secrets looks at every text, whoever wrote it.
ScanSecrets(body) == \E i \in DOMAIN body : "secret" \in body[i].texts

----------------------------------------------------------------------------
(* What holds *)

Who == {Nobody, "panel", "car"}
Clients == <<[NoLimits EXCEPT !.name = "panel", !.token = "t1", !.rpm = 2],
             [NoLimits EXCEPT !.name = "car", !.token = "t2", !.ip = {"10.0.0.2"}, !.inference = FALSE, !.roles = {"code"}]>>
Asks == [auth : {"none", "bearer", "basic"}, user : Who, token : {Nobody, "t1", "t2", "wrong", "own"},
         key : {Nobody, "t2"}, remote : {"10.0.0.2", Localhost}, path : {"/api/chat", "/rerank"}]
Calls == {q \in Asks : (q.auth = "basic") <=> (q.user # Nobody)}

\* Who presents a token is the client of that token or nobody: never the one of his address,
\* and with a user name no other client. The router's own token counts only from its host.
ASSUME IdentityIsProven ==
    \A q \in Calls : \E who \in {ResolveClient(Clients, "own", q)} : \E p \in {Presented(q)} :
        /\ who.via = "ip" => p.token = Nobody
        /\ who.name \in {"panel", "car"} /\ who.via # "ip" => SpecOf(Clients, who.name).token = p.token
        /\ who.name # Nobody /\ q.auth = "basic" /\ p.token # Nobody => who.name = q.user
        /\ who = Internal => q.remote = Localhost
        /\ InferenceRefused(SpecOf(Clients, "car"), "/api/chat") /\ ~ClientAllows(SpecOf(Clients, "car"), "assist", FALSE)

Tick(s) == [s EXCEPT !.now = @ + 1]
Sequences(n, S) == UNION {[1..k -> S] : k \in 0..n}
Panel == CHOOSE q \in Calls : q.auth = "bearer" /\ q.token = "t1" /\ q.path = "/api/chat"
Stranger == CHOOSE q \in Calls : q.auth = "bearer" /\ q.token = "wrong"
Door(events, mode) ==
    LET Then(s, e) == IF e = "tick" THEN Tick(s)
                      ELSE Admits(s, Clients, mode, "own", IF e = "panel" THEN Panel ELSE Stranger)
        after[k \in 0..Len(events)] == IF k = 0 THEN NewDoor ELSE Then(after[k - 1], events[k])
    IN  after[Len(events)]
\* In no window of the clock more requests of a client pass than its limit, and an unknown
\* address fills the log of an observing router no faster than the interval allows.
ASSUME LimitsHold ==
    \A events \in [1..8 -> {"panel", "stranger", "tick"}] :
        \E s \in {Door(events, "observe")} :
            /\ \A t \in 0..s.now :
                Cardinality({i \in DOMAIN s.out : s.out[i].who = "panel" /\ s.out[i].status = 200
                                                  /\ s.out[i].at \in t..(t + Window)}) <= 2
            /\ s.log <= Cardinality({i \in DOMAIN s.out : s.out[i].status = 429}) + 1 + s.now \div AuditEvery

Logins == {[user |-> "op", pw |-> p, from |-> "10.0.0.9"] : p \in {"right", "wrong", "worse"}}
Gate(events) ==
    LET Then(s, e) ==
            IF e = "tick" THEN Tick(s)
            ELSE IF e \in {"first", "last"}
            THEN IF s.hashing = <<>> THEN s ELSE LoginHashed(s, IF e = "first" THEN 1 ELSE Len(s.hashing))
            ELSE IF e = "change" THEN [s EXCEPT !.stored = [u \in DOMAIN @ |-> "worse"]]
            ELSE LoginArrives(s, CHOOSE l \in Logins : l.pw = e)
        after[k \in 0..Len(events)] ==
            IF k = 0 THEN NewGate([u \in {"op"} |-> "right"]) ELSE Then(after[k - 1], events[k])
    IN  after[Len(events)]
\* Whoever passes had the password of the time he came; one whose password was changed does
\* not live on in the cache. A throttled address still gets in with a login known to be good.
ASSUME LoginsAreChecked ==
    \A events \in [1..6 -> {"right", "wrong", "worse", "first", "last", "tick", "change"}] :
        \E s \in {Gate(events)} :
            /\ \A i \in DOMAIN s.out : s.out[i].status = 200 =>
                s.out[i].login.pw \in {"right"} \cup {"worse" : k \in {j \in DOMAIN events : events[j] = "change"}}
            /\ \A l \in Logins : Fresh(s.ok, KeyOf(s, l), s.now) => l.pw = s.stored["op"]
            /\ \A l \in Logins : Fresh(s.ok, KeyOf(s, l), s.now) =>
                LoginArrives(s, l).out[Len(s.out) + 1].status = 200

\* What /admin/state shows of a model is what requests are measured by, once it is known.
ASSUME ShownIsUsed ==
    \A raw \in SUBSET {"tools", "vision"}, over \in UNION {[D -> BOOLEAN] : D \in SUBSET {"tools", "chat"}} :
        raw # {} => \A caps \in SUBSET {"tools", "vision", "chat"} :
            Lacks(raw, over, caps) = caps \ EffectiveCaps(raw, over)

\* A session that is remembered is the last one of its name, and they never exceed the bound.
ASSUME SessionsAreBounded ==
    \A events \in Sequences(5, {"a", "b", "c", "tick"}) :
        LET Then(t, e) == IF e = "tick" THEN Tick(t) ELSE Remember(t, e, <<e, t.now>>)
            after[k \in 0..Len(events)] ==
                IF k = 0 THEN [now |-> 0, sessions |-> [i \in {} |-> 0]] ELSE Then(after[k - 1], events[k])
        IN  \E s \in {after[Len(events)]} :
            /\ Cardinality(DOMAIN s.sessions) <= MaxSessions
            /\ \A k \in {"a", "b", "c"} : Affinity(s, k) # Nobody =>
                /\ Affinity(s, k)[1] = k /\ s.now - Affinity(s, k)[2] <= SessionFor

Check == [terms |-> {"term"}, keywords |-> TRUE, domains |-> {"person"}, devices |-> {"door"}, names |-> {"alice"},
          tools |-> {"todo"}]
EntriesOf == [domain : {"person", "light"}, device : {"door", "none"}, name : {"alice", "lamp"}]
Bodies == {<<[role |-> "user", tool |-> "none", texts |-> T, entries |-> <<>>],
             [role |-> "tool", tool |-> t, texts |-> {}, entries |-> <<e, f>>]>> :
            T \in SUBSET {"hello", "term"}, t \in {"todo", "state"}, e \in EntriesOf, f \in EntriesOf}
\* What passes the content check shows nothing of the house that is to be hidden, and all of
\* the rest; without an answer of the classifier nothing the user wrote passes.
ASSUME CheckHidesTheHouse ==
    \A body \in Bodies, p \in {"below", "above", "none"} : \E v \in {CheckBody(body, Check, p)} :
        /\ v.result = "passed" =>
            /\ "term" \notin UserTexts(body) /\ (UserTexts(body) # {} => p = "below")
            /\ v.body[1] = body[1]
            /\ \A e \in EntriesOf : e \in Range(v.body[2].entries) <=>
                e \in Range(body[2].entries) /\ ~Hidden(e, Check) /\ body[2].tool # "todo"
        /\ v.result # "passed" => v.body = <<>>
=============================================================================
