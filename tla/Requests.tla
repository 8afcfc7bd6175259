------------------------------ MODULE Requests ------------------------------
(* The life of a request of the Ollama API in the router, from its idempotency     *)
(* key to the last byte of its answer: route_request, _route_inner and _Relay of   *)
(* skirnir_router/proxy.py with ops.py, the guards and budget of cloud.py, and the *)
(* content check of privacy.py.                                                    *)
(*                                                                                 *)
(* A role has one tier on an Ollama node, one on a node that fronts an OpenAI      *)
(* server and one in the cloud. What polls, breakers, settings and the operator    *)
(* make of a candidate is `up`; queue and slots in detail are in Admission, managed*)
(* turns in ManagedTurns. A request that meets a fault before the first byte may   *)
(* go on to the next candidate, afterwards it may not: headers, keep-alive pings   *)
(* and the two ways an answer is streamed draw that line at different places.      *)
EXTENDS Integers, FiniteSets

CONSTANTS
    Requests,
    Kind,          \* per request: what its client sent
    None,
    MaxInflight,   \* per candidate
    Budget,        \* budget_month_chf in units of the cost of an answer, the same for all
    DefaultClass,  \* default_data_class
    MaxClass,      \* max_cloud_data_class
    MaxEvents      \* bound: changes of candidates, months, disconnects, shadow runs

Candidates == {"node", "server", "cloud"}
Place == [node |-> 1, server |-> 2, cloud |-> 3]      \* order of the tiers
Unset == -1
Personal == 2                                         \* public, internal, personal, secret
Kinds == [key : BOOLEAN, stream : BOOLEAN, pings : BOOLEAN, embed : BOOLEAN,
          serves : SUBSET Candidates, execution : {"auto", "local", "cloud"},
          declared : Unset..3, floor : Unset..3, check : BOOLEAN,
          secret : BOOLEAN,     \* credential_scan would find one
          hit : BOOLEAN]        \* a rule of the content check would match

ASSUME RequestsAssumption ==
    /\ IsFiniteSet(Requests) /\ None \notin Requests /\ None \notin Candidates
    /\ Kind \in [Requests -> Kinds] /\ \A r \in Requests : Kind[r].key => ~Kind[r].stream
    /\ MaxInflight \in [Candidates -> Nat \ {0}] /\ Budget \in Nat \ {0}
    /\ DefaultClass \in 0..3 /\ MaxClass \in 0..3 /\ MaxEvents \in Nat

VARIABLES
    pc,       \* where a request is
    waits,    \* the request whose future a repeat waits for
    entry,    \* IDEM[key]: [fut |-> who reserved it, body |-> whose answer it holds]
    cand,     \* the candidate of the running attempt
    tried,
    open,     \* a stream to the client has begun
    broken,   \* Ollama wrote an error line into it
    answer,   \* what the client got in the end
    up,       \* a candidate may be chosen
    bill,     \* spend_month
    shadow,   \* [planned, running, busy]: spawned, on the node, SHADOW_BUSY
    events,
    voice,    \* history: candidates whose bytes the client has
    saw,      \* history: what of a request the provider got
    spoiled   \* history: a keyed request failed, gave up waiting, or its answer expired

route == <<cand, tried, open, broken, voice, saw>>
idem == <<waits, entry, spoiled>>
vars == <<pc, waits, entry, cand, tried, open, broken, answer, up, bill, shadow, events, voice, saw, spoiled>>

Running == {"prepare", "choose", "check", "sent", "read", "stream"}
OnCandidate == {"check", "sent", "read", "stream"}
Absent == [fut |-> None, body |-> None]

TypeOK ==
    /\ pc \in [Requests -> {"new", "wait", "woken", "ended"} \cup Running]
    /\ waits \in [Requests -> Requests \cup {None}]
    /\ entry \in [fut : Requests \cup {None}, body : Requests \cup {None}]
    /\ cand \in [Requests -> Candidates \cup {None}] /\ tried \in [Requests -> SUBSET Candidates]
    /\ open \in [Requests -> BOOLEAN] /\ broken \in [Requests -> BOOLEAN]
    /\ answer \in [Requests -> {"none", "ok", "refusal", "error", "replay", "gone"}]
    /\ up \in [Candidates -> BOOLEAN] /\ bill \in Nat /\ events \in 0..MaxEvents
    /\ shadow \in [planned : Nat, running : Nat, busy : BOOLEAN]
    /\ voice \in [Requests -> SUBSET Candidates]
    /\ saw \in [Requests -> {"nothing", "redacted", "raw"}] /\ spoiled \in BOOLEAN

Init ==
    /\ pc = [r \in Requests |-> "new"] /\ waits = [r \in Requests |-> None]
    /\ entry = Absent /\ spoiled = FALSE
    /\ cand = [r \in Requests |-> None] /\ tried = [r \in Requests |-> {}]
    /\ open = [r \in Requests |-> FALSE] /\ broken = [r \in Requests |-> FALSE]
    /\ answer = [r \in Requests |-> "none"] /\ up = [c \in Candidates |-> TRUE]
    /\ bill = 0 /\ shadow = [planned |-> 0, running |-> 0, busy |-> FALSE] /\ events = 0
    /\ voice = [r \in Requests |-> {}] /\ saw = [r \in Requests |-> "nothing"]

Goes(r, where) == pc' = [pc EXCEPT ![r] = where]
Event == events < MaxEvents /\ events' = events + 1

----------------------------------------------------------------------------
(* What may leave the house *)

\* A class configured for the client is a floor; an undeclared one falls back to it.
Declared(k) == IF k.declared # Unset THEN k.declared ELSE IF k.floor # Unset THEN k.floor ELSE DefaultClass
Effective(k) == IF k.floor > Declared(k) THEN k.floor ELSE Declared(k)
Above(k) == Effective(k) > MaxClass
\* Mutant: the content check also clears what the client itself declared personal.
NeedsCheckAnyway(k) == Above(k) /\ Effective(k) = Personal /\ k.check
NeedsCheck(k) == Above(k) /\ Effective(k) = Personal /\ k.declared = Unset /\ k.check
\* request_block_reason
CloudBlock(k) == k.execution = "local" \/ (Above(k) /\ ~NeedsCheck(k)) \/ k.secret

\* provider_block_reason
\* Mutant: an exhausted budget shows one answer later.
BudgetExhaustedLate == bill > Budget
BudgetExhausted == bill >= Budget

\* Routing.tier_blocked: capabilities, and the two for the cloud tier.
Blocked(r, c) ==
    \/ c \notin Kind[r].serves
    \/ c = "cloud" /\ (CloudBlock(Kind[r]) \/ BudgetExhausted)

----------------------------------------------------------------------------
(* Idempotency *)

\* Mutant: the key is reserved only once the answer is there.
ReserveLate(r) == UNCHANGED entry
Reserve(r) == entry' = [fut |-> r, body |-> None]
\* idem_wait up to its first await, and again after it with the entry of that moment.
LooksUp(r) ==
    IF entry.body # None
    THEN /\ Goes(r, "ended") /\ answer' = [answer EXCEPT ![r] = "replay"] /\ UNCHANGED entry
    ELSE /\ Goes(r, "prepare") /\ Reserve(r) /\ UNCHANGED answer

Arrive(r) ==
    /\ pc[r] = "new"
    /\ IF Kind[r].key /\ entry.fut # None
       THEN /\ Goes(r, "wait") /\ waits' = [waits EXCEPT ![r] = entry.fut] /\ UNCHANGED <<entry, answer>>
       ELSE /\ IF Kind[r].key THEN LooksUp(r) ELSE Goes(r, "prepare") /\ UNCHANGED <<entry, answer>>
            /\ UNCHANGED waits
    /\ UNCHANGED <<route, up, bill, shadow, events, spoiled>>
Wakes(r) ==
    /\ pc[r] = "woken" /\ LooksUp(r)
    /\ waits' = [waits EXCEPT ![r] = None]
    /\ UNCHANGED <<route, up, bill, shadow, events, spoiled>>

\* request_timeout_s is over: it runs without a reservation.
WaitExpires(r) ==
    /\ pc[r] = "wait" /\ Goes(r, "prepare")
    /\ waits' = [waits EXCEPT ![r] = None] /\ spoiled' = TRUE
    /\ UNCHANGED <<entry, route, answer, up, bill, shadow, events>>

\* idempotency_ttl_s is over (_prune, or the look at the age).
EntryExpires ==
    /\ entry.body # None /\ entry' = Absent /\ spoiled' = TRUE
    /\ UNCHANGED <<pc, waits, route, answer, up, bill, shadow, events>>

\* Mutant: a failed request leaves the reservation.
SettlesGood(r, good) ==
    IF Kind[r].key /\ good
    THEN entry' = IF entry # Absent THEN [fut |-> None, body |-> r] ELSE entry
    ELSE UNCHANGED entry
SettlesGoodOnly(r, good) == SettlesGood(r, good) /\ spoiled' = (spoiled \/ (Kind[r].key /\ ~good))
\* idem_finish, idem_abort: whoever reserved it, the entry gets the answer or goes.
Settles(r, good) ==
    IF Kind[r].key
    THEN /\ entry' = IF entry # Absent /\ good THEN [fut |-> None, body |-> r] ELSE Absent
         /\ spoiled' = (spoiled \/ ~good)
    ELSE UNCHANGED <<entry, spoiled>>
\* The future of the entry wakes those who wait for it, later and in any order.
Ended(r) ==
    [q \in Requests |-> IF q = r THEN "ended"
                        ELSE IF Kind[r].key /\ entry.fut # None /\ pc[q] = "wait" /\ waits[q] = entry.fut THEN "woken"
                        ELSE pc[q]]

----------------------------------------------------------------------------
(* The end of a request *)

\* maybe_shadow after an answer of the relay: drawn, and no shadow is known to run.
MayShadow ==
    \/ UNCHANGED <<shadow, events>>
    \/ ~shadow.busy /\ Event /\ shadow' = [shadow EXCEPT !.planned = @ + 1]

\* `fits`: the answer is not too large to be kept.
Ends(r, a) ==
    /\ pc' = Ended(r)
    /\ answer' = [answer EXCEPT ![r] = a]
    /\ \E fits \in BOOLEAN : Settles(r, a \in {"ok", "refusal"} /\ fits)
    /\ cand' = [cand EXCEPT ![r] = None]
    /\ bill' = IF cand[r] = "cloud" /\ a = "ok" THEN bill + 1 ELSE bill
    /\ UNCHANGED <<waits, tried, open>>
Answered(r, a) == Ends(r, a) /\ MayShadow
\* An exception ends the handler.
Raises(r) == Ends(r, "error") /\ UNCHANGED <<shadow, events>>

Heard(r) == voice' = [voice EXCEPT ![r] = @ \cup {cand[r]}]
\* None of dispatch: the next candidate.
NextCandidate(r) ==
    /\ Goes(r, "choose") /\ cand' = [cand EXCEPT ![r] = None]
    /\ UNCHANGED <<waits, entry, spoiled, tried, open, broken, answer, bill, shadow, events, voice, saw>>

----------------------------------------------------------------------------
(* Preparation and choice *)

\* _prepare: nothing else it refuses depends on the state.
Prepare(r) ==
    /\ pc[r] = "prepare"
    /\ IF \A c \in Candidates : Blocked(r, c)
       THEN Ends(r, "error") /\ UNCHANGED <<broken, voice, saw>>
       ELSE Goes(r, "choose") /\ UNCHANGED <<idem, route, answer, bill>>
    /\ UNCHANGED <<up, shadow, events>>

Rank(r, c) == IF c = "cloud" /\ Kind[r].execution = "cloud" THEN 0 ELSE Place[c]
Candidate(r, c) == c \notin tried[r] /\ up[c] /\ ~Blocked(r, c)
First(r, c) == Candidate(r, c) /\ \A d \in Candidates : Candidate(r, d) => Rank(r, c) <= Rank(r, d)
Inflight(c) ==
    Cardinality({r \in Requests : pc[r] \in OnCandidate /\ cand[r] = c}) + IF c = "node" THEN shadow.running ELSE 0
Saturated(c) == Inflight(c) >= MaxInflight[c]

\* What the provider gets as the request is sent.
Sends(r, c, what) == saw' = IF c = "cloud" THEN [saw EXCEPT ![r] = what] ELSE saw

\* next_candidate, dispatch and _begin without an await between them.
Choose(r) ==
    /\ pc[r] = "choose"
    /\ \E c \in Candidates :
        /\ First(r, c) /\ ~Saturated(c)
        /\ cand' = [cand EXCEPT ![r] = c] /\ tried' = [tried EXCEPT ![r] = @ \cup {c}]
        /\ IF c = "cloud" /\ NeedsCheck(Kind[r])
           THEN Goes(r, "check") /\ UNCHANGED saw
           ELSE Goes(r, "sent") /\ Sends(r, c, "raw")
    /\ UNCHANGED <<idem, open, broken, answer, up, bill, shadow, events, voice>>
\* No candidate is left, or the deadline comes in the queue.
Refuse(r) ==
    /\ pc[r] = "choose"
    /\ \A c \in Candidates : First(r, c) => Saturated(c)
    /\ Ends(r, "error")
    /\ UNCHANGED <<up, broken, voice, saw, shadow, events>>

\* privacy.check: rules, then a classifier that fails closed.
Verdicts(k) == IF k.hit THEN {"personal"} ELSE {"passed", "personal", "unavailable"}
CheckContent(r) ==
    /\ pc[r] = "check"
    /\ IF Kind[r].embed THEN NextCandidate(r)
       ELSE \E v \in Verdicts(Kind[r]) :
            IF v = "passed"
            THEN /\ Goes(r, "sent") /\ Sends(r, "cloud", "redacted")
                 /\ UNCHANGED <<idem, cand, tried, open, broken, voice, answer, bill, shadow, events>>
            ELSE Answered(r, "refusal") /\ UNCHANGED <<broken, voice, saw>>
    /\ UNCHANGED up

----------------------------------------------------------------------------
(* The attempt *)

Translated(r) == cand[r] \in {"server", "cloud"}

\* _connect: the client gets the head of the stream and pings before the node answers.
Ping(r) ==
    /\ pc[r] = "sent" /\ cand[r] = "node" /\ Kind[r].stream /\ Kind[r].pings /\ ~open[r]
    /\ open' = [open EXCEPT ![r] = TRUE] /\ Heard(r)
    /\ UNCHANGED <<pc, idem, cand, tried, broken, answer, up, bill, shadow, events, saw>>

\* Mutant: an open stream does not keep a request from the next candidate.
BreaksQuietly(r) ==
    /\ pc[r] = "sent" /\ NextCandidate(r) /\ UNCHANGED up
\* The network fails or the time is over before the headers. A translated stream is
\* only begun while it is read: there the exception ends the handler.
Breaks(r) ==
    /\ pc[r] = "sent"
    /\ IF open[r] THEN Answered(r, "error") /\ Heard(r) /\ UNCHANGED <<broken, saw>>
       ELSE IF Translated(r) /\ Kind[r].stream THEN Raises(r) /\ UNCHANGED <<broken, voice, saw>>
       ELSE NextCandidate(r)
    /\ UNCHANGED up

\* The model is not there; the candidate is at fault; the client is.
Rejects(r, why) ==
    /\ pc[r] = "sent"
    /\ LET late == open[r]
           toClient == why = "client" /\ ~(Translated(r) /\ Kind[r].stream)
           discards == why = "missing" /\ (cand[r] = "node" \/ (cand[r] = "server" /\ ~Kind[r].stream))
       IN  /\ IF late \/ toClient
              THEN Answered(r, "error") /\ Heard(r) /\ UNCHANGED <<broken, saw>>
              ELSE NextCandidate(r)
           /\ up' = IF discards THEN [up EXCEPT ![cand[r]] = FALSE] ELSE up
\* ensure_loaded: the server was stopped and does not start in time.
NotLoaded(r) ==
    /\ pc[r] = "sent" /\ cand[r] = "server" /\ NextCandidate(r) /\ UNCHANGED up

\* The headers of the node; the first chunk of a translated stream.
Begins(r) ==
    /\ pc[r] = "sent" /\ (cand[r] = "node" \/ Kind[r].stream)
    /\ IF Kind[r].stream
       THEN Goes(r, "stream") /\ open' = [open EXCEPT ![r] = TRUE] /\ Heard(r)
       ELSE Goes(r, "read") /\ UNCHANGED <<open, voice>>
    /\ UNCHANGED <<idem, cand, tried, broken, answer, up, bill, shadow, events, saw>>

\* Ollama breaks off with an error line: passed on, the rest of the stream as well.
ErrorLine(r) ==
    /\ pc[r] = "stream" /\ cand[r] = "node" /\ ~broken[r]
    /\ broken' = [broken EXCEPT ![r] = TRUE]
    /\ UNCHANGED <<pc, idem, cand, tried, open, answer, up, bill, shadow, events, voice, saw>>

\* The network fails while the answer is read.
Aborts(r) ==
    /\ pc[r] \in {"read", "stream"}
    /\ Raises(r) \/ (pc[r] = "stream" /\ Answered(r, "error"))
    /\ UNCHANGED <<up, broken, voice, saw>>

\* The whole answer.
Completes(r) ==
    /\ pc[r] \in {"read", "stream"} \/ (pc[r] = "sent" /\ Translated(r) /\ ~Kind[r].stream)
    /\ Answered(r, IF broken[r] THEN "error" ELSE "ok")
    /\ Heard(r) /\ UNCHANGED <<up, broken, saw>>

\* The client goes: the handler is cancelled wherever it waits.
Disconnects(r) ==
    /\ pc[r] \in Running \cup {"wait"} /\ Event
    /\ IF pc[r] = "wait"
       THEN /\ Goes(r, "ended") /\ answer' = [answer EXCEPT ![r] = "gone"]
            /\ UNCHANGED <<idem, cand, tried, open, bill>>
       ELSE Ends(r, "gone")
    /\ UNCHANGED <<up, broken, voice, saw, shadow>>

----------------------------------------------------------------------------
(* Shadow runs, and the world *)

\* run_shadow up to its request: the flag is set here, not as it was planned.
ShadowStarts ==
    /\ shadow.planned > 0
    /\ LET runs == up["node"] /\ ~Saturated("node")
       IN  shadow' = [planned |-> shadow.planned - 1, busy |-> runs,
                      running |-> IF runs THEN shadow.running + 1 ELSE shadow.running]
    /\ UNCHANGED <<pc, idem, route, answer, up, bill, events>>
ShadowEnds ==
    /\ shadow.running > 0
    /\ shadow' = [shadow EXCEPT !.running = @ - 1, !.busy = FALSE]
    /\ UNCHANGED <<pc, idem, route, answer, up, bill, events>>

Changes(c) ==
    /\ Event /\ up' = [up EXCEPT ![c] = ~@]
    /\ UNCHANGED <<pc, idem, route, answer, bill, shadow>>
NewMonth ==
    /\ Event /\ bill > 0 /\ bill' = 0
    /\ UNCHANGED <<pc, idem, route, answer, up, shadow>>

----------------------------------------------------------------------------
Steps(r) ==
    \/ Wakes(r) \/ WaitExpires(r) \/ Prepare(r) \/ Choose(r) \/ Refuse(r) \/ CheckContent(r)
    \/ Breaks(r) \/ NotLoaded(r) \/ Begins(r) \/ Aborts(r) \/ Completes(r)
    \/ \E why \in {"missing", "fault", "client"} : Rejects(r, why)

\* The bounded run is over: every request has ended, and nothing is kept or under way.
Quiescent ==
    /\ \A r \in Requests : pc[r] = "ended"
    /\ entry = Absent /\ shadow.planned = 0 /\ shadow.running = 0 /\ events = MaxEvents
    /\ UNCHANGED vars

Next ==
    \/ \E r \in Requests : Arrive(r) \/ Steps(r) \/ Ping(r) \/ ErrorLine(r) \/ Disconnects(r)
    \/ EntryExpires \/ ShadowStarts \/ ShadowEnds \/ NewMonth
    \/ \E c \in Candidates : Changes(c)
    \/ Quiescent

Spec == Init /\ [][Next]_vars

----------------------------------------------------------------------------
(* Properties *)

\* What a client hears comes from one candidate: once a byte is out, headers and pings
\* included, no other one is tried (proxy.py: "error before the first byte").
OneVoice == \A r \in Requests : Cardinality(voice[r]) <= 1

\* A key is never left reserved by a request that has ended. As long as nothing failed,
\* gave up or expired, every repeat that waits does so for a request that still runs.
\* After a failure those who were woken reserve the key one over the other (ops.py:
\* idem_wait), and who waits for a future that was replaced waits for its timeout.
ReservationHasOwner ==
    /\ entry.fut # None => pc[entry.fut] \in Running
    /\ ~spoiled => \A r \in Requests : pc[r] = "wait" => pc[waits[r]] \in Running

\* As long as nothing failed, gave up or expired, one request of a key runs.
OneRunUnlessSpoiled ==
    ~spoiled => Cardinality({r \in Requests : Kind[r].key /\ pc[r] \in Running}) <= 1

\* The budget is looked at when a request starts and paid when it ends: it is exceeded
\* by no more than the requests that ran at that time.
OverspendIsBounded == bill + Inflight("cloud") <= Budget - 1 + MaxInflight["cloud"]

\* Nothing above max_cloud_data_class leaves the house, unless a content check has let
\* it pass; nothing a rule of that check matches, and no secret.
PersonalStaysHome ==
    \A r \in Requests :
        /\ saw[r] = "raw" => ~Above(Kind[r]) /\ ~Kind[r].secret
        /\ saw[r] = "redacted" => Effective(Kind[r]) = Personal /\ Kind[r].declared = Unset /\ ~Kind[r].hit /\ ~Kind[r].secret
=============================================================================
