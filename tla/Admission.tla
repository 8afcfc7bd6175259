------------------------------ MODULE Admission ------------------------------
(* How the router gives a request a node: candidate selection with the
   circuit breaker (scheduler.candidates_for), the priority queue of
   admission.py, and the bookkeeping of one relayed attempt (proxy._Relay).

   One action is what one asyncio task does between two awaits.  The VRAM
   budget, the drain window and the score are data: an online node that offers
   the model may be a candidate or not, and any candidate may be chosen.  Time
   is a discrete clock whose unit is longer than admission.RECHECK_S, so a
   waiter may recheck at every instant. *)
EXTENDS Integers, FiniteSets

CONSTANTS
    Requests, Nodes, Models,
    None,          \* no node, no model
    Managed,       \* requests whose dispatch awaits between choice and start
    Tiers,         \* [Requests -> SUBSET Models]: the models of the role's tiers
    Class,         \* [Requests -> 0..2]: interactive 0, normal 1, batch 2
    MaxInflight,   \* [Nodes -> Nat]: policy value of the node
    ThrottledMax,  \* cap while the GPU guard throttles the node
    MaxParallel,   \* [Models -> Nat]: catalog max_parallel, 0 = no limit
    MaxQueue, MaxWait, AgingS,       \* modes.admission
    Failures, WindowS, OpenS,        \* modes.breaker
    Offered,                         \* sets of models that a report may name (bound)
    MaxTime, MaxReports              \* bounds of the model

ASSUME SetsAssumption == IsFiniteSet(Requests) /\ Managed \subseteq Requests
ASSUME NoneAssumption == None \notin Nodes \cup Models
ASSUME OfferedAssumption == Offered \subseteq SUBSET Models
ASSUME RequestAssumption == /\ Tiers \in [Requests -> SUBSET Models]
                            /\ Class \in [Requests -> 0..2]
                            /\ MaxWait \in [0..2 -> Nat]
ASSUME CapAssumption == /\ MaxInflight \in [Nodes -> Nat]
                        /\ MaxParallel \in [Models -> Nat]
                        /\ ThrottledMax \in Nat /\ MaxQueue \in Nat
ASSUME TimeAssumption == /\ AgingS \in Nat /\ Failures \in Nat /\ WindowS \in Nat
                         /\ OpenS \in Nat /\ MaxTime \in Nat /\ MaxReports \in Nat

VARIABLES
    now,
    req,                                       \* one request: _Acquire and _Relay
    online, offers, throttled, reports,        \* what the node last reported
    inflight, inflightModels, loading,         \* Node: running work, load claims
    breaker, until, fails                      \* Breaker

reportVars  == <<online, offers, throttled, reports>>
loadVars    == <<inflight, inflightModels, loading>>
breakerVars == <<breaker, until, fails>>
vars == <<now, req, reportVars, loadVars, breakerVars>>

NotQueued == -1        \* _Acquire.t_enq is None
States == {"idle", "select", "waiting", "woken", "loadwait", "waking",
           "target", "running", "failing", "answered"}
Placed == {"waiting", "woken", "loadwait", "target", "running", "failing"}
\* The fields of a request are those of _Acquire (tried, woke, loads, enq,
\* deadline) and of its _Relay (node, model, whether it began as the probe).
Fresh == [st |-> "idle", node |-> None, model |-> None, tried |-> {}, woke |-> FALSE,
          loads |-> {}, enq |-> NotQueued, deadline |-> 0, probe |-> FALSE]
Answered == [Fresh EXCEPT !.st = "answered"]

In(states) == {r \in Requests : req[r].st \in states}
Active == In({"running", "failing"})
ActiveOn(n) == {r \in Active : req[r].node = n}
ActiveFor(n, m) == {r \in ActiveOn(n) : req[r].model = m}
Waiting == In({"waiting", "woken"})

RequestType ==
    [st : States, node : Nodes \cup {None}, model : Models \cup {None},
     tried : SUBSET Nodes, woke : BOOLEAN, loads : SUBSET (Nodes \X Models),
     enq : Nat \cup {NotQueued}, deadline : Nat, probe : BOOLEAN]

TypeOK ==
    /\ now \in Nat /\ reports \in Nat
    /\ req \in [Requests -> RequestType]
    /\ \A r \in In(Placed) : req[r].node \in Nodes /\ req[r].model \in Models
    /\ online \in [Nodes -> BOOLEAN] /\ throttled \in [Nodes -> BOOLEAN]
    /\ offers \in [Nodes -> SUBSET Models] /\ loading \in [Nodes -> SUBSET Models]
    /\ inflight \in [Nodes -> Nat]
    /\ inflightModels \in [Nodes -> [Models -> Nat]]
    /\ breaker \in [Nodes -> {"closed", "open", "half_open"}]
    /\ until \in [Nodes -> Nat]
    /\ fails \in [Nodes -> SUBSET (Nat \X Requests)]

Init ==
    /\ now = 0 /\ reports = 0
    /\ req = [r \in Requests |-> Fresh]
    /\ online = [n \in Nodes |-> TRUE] /\ throttled = [n \in Nodes |-> FALSE]
    /\ offers = [n \in Nodes |-> Models] /\ loading = [n \in Nodes |-> {}]
    /\ inflight = [n \in Nodes |-> 0]
    /\ inflightModels = [n \in Nodes |-> [m \in Models |-> 0]]
    /\ breaker = [n \in Nodes |-> "closed"] /\ until = [n \in Nodes |-> 0]
    /\ fails = [n \in Nodes |-> {}]

----------------------------------------------------------------------------
(* Circuit breaker and capacity *)

\* candidates_for asks breaker_allows of every node it reaches: an open breaker
\* whose time is up turns half_open even if the node is then not chosen.
Reached(r) == {n \in Nodes \ req[r].tried : online[n] /\ offers[n] \cap Tiers[r] # {}}
BreakerAsked(r) == [n \in Nodes |->
    IF n \in Reached(r) /\ breaker[n] = "open" /\ now >= until[n]
    THEN "half_open" ELSE breaker[n]]
\* Mutant: the half-open node is not reserved for its probe.
AllowsAnyNumber(asked, n) == asked # "open"
Allows(asked, n) == asked = "closed" \/ (asked = "half_open" /\ inflight[n] = 0)

Candidates(r) == {c \in Reached(r) \X Tiers[r] :
                    c[2] \in offers[c[1]] /\ Allows(BreakerAsked(r)[c[1]], c[1])}

SmallerOf(a, b) == IF a <= b THEN a ELSE b
EffectiveMax(n) == IF throttled[n] THEN SmallerOf(MaxInflight[n], ThrottledMax)
                   ELSE MaxInflight[n]
Full(n, m, total, ofModel) == \/ total >= EffectiveMax(n)
                              \/ MaxParallel[m] # 0 /\ ofModel >= MaxParallel[m]
\* Mutant: off by one, a full node takes one more.
SaturatedAboveCap(n, m) == inflight[n] > EffectiveMax(n)
Saturated(n, m) == Full(n, m, inflight[n], inflightModels[n][m])

\* admission.rank_key at any one instant, times AgingS and without the common
\* term `now`: smaller is better, the earlier entry wins a tie.
RankKey(w) == Class[w] * AgingS + req[w].enq
Before(v, w) == \/ RankKey(v) < RankKey(w)
                \/ RankKey(v) = RankKey(w) /\ req[v].enq < req[w].enq

\* admission.release on n, whose counts are `total` and `ofModels` by now: what
\* the requests `rs` may become when it has woken at most one waiter.
AfterRelease(rs, n, total, ofModels) ==
    LET startable == {w \in Requests : /\ rs[w].st = "waiting" /\ rs[w].node = n
                                       /\ ~Full(n, rs[w].model, total, ofModels[rs[w].model])}
        best == {w \in startable : \A v \in startable : ~Before(v, w)}
    IN  IF startable = {} THEN {rs} ELSE {[rs EXCEPT ![w].st = "woken"] : w \in best}

----------------------------------------------------------------------------
(* Choosing a node: _Acquire.next_candidate *)

\* _route_inner has prepared the request; its wait budget starts.
Arrive(r) ==
    LET limit == now + MaxWait[Class[r]]
    IN  /\ req[r].st = "idle" /\ limit < MaxTime
        /\ req' = [req EXCEPT ![r] = [Fresh EXCEPT !.st = "select", !.deadline = limit]]
        /\ UNCHANGED <<now, reportVars, loadVars, breakerVars>>

Queued(q) == IF q.enq = NotQueued THEN now ELSE q.enq

\* _Relay._begin for the request in form q: the attempt is counted and, if the
\* model is cold, its load announced.
Begin(r, q, asked) ==
    LET n == q.node
        m == q.model
    IN  /\ req' = [req EXCEPT ![r] = [q EXCEPT !.st = "running",
                                               !.probe = asked[n] = "half_open"]]
        /\ inflight' = [inflight EXCEPT ![n] = @ + 1]
        /\ inflightModels' = [inflightModels EXCEPT ![n][m] = @ + 1]
        /\ \/ loading' = [loading EXCEPT ![n] = @ \cup {m}]
           \/ UNCHANGED loading

\* The chosen node has room.  An ordinary request starts in the same step.
Choose(r, n, m) ==
    LET q == [req[r] EXCEPT !.node = n, !.model = m, !.tried = @ \cup {n}]
    IN  /\ req[r].st = "select" /\ <<n, m>> \in Candidates(r) /\ ~Saturated(n, m)
        /\ breaker' = BreakerAsked(r)
        /\ IF r \in Managed
           THEN req' = [req EXCEPT ![r] = [q EXCEPT !.st = "target"]] /\ UNCHANGED loadVars
           ELSE Begin(r, q, BreakerAsked(r))
        /\ UNCHANGED <<now, reportVars, until, fails>>

\* A managed turn fits its context to the tier (turn.target: database calls);
\* a switch to the standby waits for a gap on the server.  Then the relay
\* starts, without another look at the node.
StartDeferred(r) ==
    /\ req[r].st = "target"
    /\ Begin(r, req[r], breaker)
    /\ UNCHANGED <<now, reportVars, breakerVars>>

\* The chosen node is full: queue, or refuse (deadline reached, queue full).
WaitForSlot(r, n, m) ==
    /\ req[r].st = "select" /\ <<n, m>> \in Candidates(r) /\ Saturated(n, m)
    /\ breaker' = BreakerAsked(r)
    /\ req' = [req EXCEPT ![r] =
          IF now >= req[r].deadline \/ Cardinality(Waiting) >= MaxQueue THEN Answered
          ELSE [@ EXCEPT !.st = "waiting", !.node = n, !.model = m, !.enq = Queued(req[r])]]
    /\ UNCHANGED <<now, reportVars, loadVars, until, fails>>

\* loading_for: a node that could be a candidate is loading a model.
LoadsFor(r) == {l \in Reached(r) \X Models : l[2] \in loading[l[1]]}
NoLoadToAwait(r) ==
    now >= req[r].deadline \/ LoadsFor(r) = {} \/ LoadsFor(r) \cap req[r].loads # {}

\* No candidate (none left, or none fits the budget): wait once for a load in
\* progress, else wake a node once, else refuse.
NoCandidate(r) ==
    /\ req[r].st = "select"
    /\ breaker' = BreakerAsked(r)
    /\ \/ /\ now < req[r].deadline
          /\ \E l \in LoadsFor(r) \ req[r].loads :
                req' = [req EXCEPT ![r] = [req[r] EXCEPT
                          !.st = "loadwait", !.node = l[1], !.model = l[2],
                          !.loads = @ \cup {l}, !.enq = Queued(req[r])]]
       \/ /\ NoLoadToAwait(r) /\ ~req[r].woke
          /\ \E n \in Nodes : /\ ~online[n]
                             /\ req' = [req EXCEPT ![r] = [req[r] EXCEPT
                                          !.st = "waking", !.node = n, !.woke = TRUE]]
       \/ /\ NoLoadToAwait(r)
          /\ req' = [req EXCEPT ![r] = Answered]
    /\ UNCHANGED <<now, reportVars, loadVars, until, fails>>

\* Mutant: a retry forgets which nodes it has tried.
AgainUntried(q) == [Fresh EXCEPT !.st = "select", !.deadline = q.deadline,
                                 !.enq = q.enq, !.woke = q.woke, !.loads = q.loads]
\* The request is at the top of the loop of next_candidate again.
Again(q) == [q EXCEPT !.st = "select", !.node = None, !.model = None, !.probe = FALSE]

\* wait_for_slot returns (woken by release, or RECHECK_S or the deadline passed),
\* _wait_for_load ends (model loaded, claim gone, or deadline), or wol.wake has
\* brought a node up: select again.
Reselect(r) ==
    /\ \/ req[r].st \in {"waiting", "woken"}
       \/ req[r].st = "waking" /\ online[req[r].node]
       \/ /\ req[r].st = "loadwait"
          /\ req[r].model \notin loading[req[r].node] \/ now >= req[r].deadline
    /\ req' = [req EXCEPT ![r] = Again(@)]
    /\ UNCHANGED <<now, reportVars, loadVars, breakerVars>>

\* A failed wake, or a managed turn that does not fit the tier: refused.
Refused(r) ==
    /\ req[r].st \in {"waking", "target"}
    /\ req' = [req EXCEPT ![r] = Answered]
    /\ UNCHANGED <<now, reportVars, loadVars, breakerVars>>

\* The handler is cancelled before a relay runs (shutdown of the server; a
\* client's disconnect where aiohttp cancels handlers).
Disconnect(r) ==
    /\ req[r].st \in {"waiting", "woken", "loadwait", "waking", "target"}
    /\ req' = [req EXCEPT ![r] = Answered]
    /\ UNCHANGED <<now, reportVars, loadVars, breakerVars>>

----------------------------------------------------------------------------
(* One attempt: _Relay.run *)

\* _fail: a backend error counts for the breaker.  The response may still have
\* to be closed before _finish runs.
Fail(r) ==
    LET n == req[r].node
        inWindow == {f \in fails[n] : now - f[1] <= WindowS} \cup {<<now, r>>}
        opens == breaker[n] = "half_open" \/ Cardinality(inWindow) >= Failures
    IN  /\ req[r].st = "running"
        /\ req' = [req EXCEPT ![r].st = "failing"]
        /\ fails' = [fails EXCEPT ![n] = IF opens THEN {} ELSE inWindow]
        /\ breaker' = [breaker EXCEPT ![n] = IF opens THEN "open" ELSE @]
        /\ until' = [until EXCEPT ![n] = IF opens THEN now + OpenS ELSE @]
        /\ UNCHANGED <<now, reportVars, loadVars>>

\* _finish, in the finally of run: the counts go down, the load claim ends and
\* one waiter is woken.  `next` is the request afterwards.
Finish(r, next) ==
    LET n == req[r].node
        m == req[r].model
    IN  /\ inflight' = [inflight EXCEPT ![n] = @ - 1]
        /\ inflightModels' = [inflightModels EXCEPT ![n][m] = @ - 1]
        /\ loading' = [loading EXCEPT ![n] = @ \ {m}]
        /\ req' \in AfterRelease([req EXCEPT ![r] = next], n, inflight'[n], inflightModels'[n])
        /\ UNCHANGED now

\* Complete answer: outcome ok closes the breaker, whatever state it is in.
FinishOk(r) ==
    LET n == req[r].node
    IN  /\ req[r].st = "running"
        /\ breaker' = [breaker EXCEPT ![n] = "closed"]
        /\ fails' = [fails EXCEPT ![n] = {}]
        /\ Finish(r, Answered)
        /\ UNCHANGED <<until, reportVars>>

\* After _fail: next candidate before the first byte, the client's error after it.
FinishFailed(r) ==
    /\ req[r].st = "failing"
    /\ Finish(r, Again(req[r])) \/ Finish(r, Answered)
    /\ UNCHANGED <<breakerVars, reportVars>>

\* HTTP 404: the node has lost the model; next candidate, or the client's error
\* if the stream to it is open already (keep-alive).
FinishNotFound(r) ==
    /\ req[r].st = "running"
    /\ Finish(r, Again(req[r])) \/ Finish(r, Answered)
    /\ offers' = [offers EXCEPT ![req[r].node] = @ \ {req[r].model}]
    /\ UNCHANGED <<breakerVars, online, throttled, reports>>

\* Neither success nor a backend error: the server could not be started in time
\* (next candidate), or a 4xx is passed on, the stream breaks after its first
\* byte, or the client goes away (answered).
FinishNeutral(r) ==
    /\ req[r].st = "running"
    /\ Finish(r, Again(req[r])) \/ Finish(r, Answered)
    /\ UNCHANGED <<breakerVars, reportVars>>

----------------------------------------------------------------------------
(* Nodes and time *)

\* A poll, push or heartbeat of an online node: models offered to these tiers
\* (busy and drained nodes offer none) and the guard state.
Report(n) ==
    /\ reports < MaxReports /\ online[n]
    /\ reports' = reports + 1
    /\ \E o \in Offered, t \in BOOLEAN :
          /\ offers' = [offers EXCEPT ![n] = o]
          /\ throttled' = [throttled EXCEPT ![n] = t]
    /\ UNCHANGED <<now, online, req, loadVars, breakerVars>>

\* Mutant: a node that goes offline forgets its running attempts.
GoOfflineForgets(n) ==
    /\ reports < MaxReports /\ online[n]
    /\ reports' = reports + 1
    /\ online' = [online EXCEPT ![n] = FALSE]
    /\ inflight' = [inflight EXCEPT ![n] = 0]
    /\ UNCHANGED <<now, offers, throttled, req, inflightModels, loading, breakerVars>>
\* Node.go_offline: load claims are dropped, running attempts stay counted.
GoOffline(n) ==
    /\ reports < MaxReports /\ online[n]
    /\ reports' = reports + 1
    /\ online' = [online EXCEPT ![n] = FALSE]
    /\ loading' = [loading EXCEPT ![n] = {}]
    /\ UNCHANGED <<now, offers, throttled, req, inflight, inflightModels, breakerVars>>

\* First successful poll of an offline node: its models, free, breaker reset.
ComeOnline(n) ==
    /\ ~online[n]
    /\ online' = [online EXCEPT ![n] = TRUE]
    /\ \E o \in Offered : offers' = [offers EXCEPT ![n] = o]
    /\ breaker' = [breaker EXCEPT ![n] = "closed"]
    /\ until' = [until EXCEPT ![n] = 0]
    /\ fails' = [fails EXCEPT ![n] = {}]
    /\ UNCHANGED <<now, throttled, reports, req, loadVars>>

\* /api/ps shows the model, or the claim's 300 s are over.
LoadOver(n, m) ==
    /\ m \in loading[n]
    /\ loading' = [loading EXCEPT ![n] = @ \ {m}]
    /\ UNCHANGED <<now, req, reportVars, inflight, inflightModels, breakerVars>>

Tick ==
    /\ now < MaxTime
    /\ now' = now + 1
    /\ UNCHANGED <<req, reportVars, loadVars, breakerVars>>

\* The bounded run is over: no request is under way and the clock has stopped.
Quiescent ==
    /\ now = MaxTime /\ In({"idle", "answered"}) = Requests
    /\ UNCHANGED vars

RequestStep(r) ==
    \/ \E n \in Nodes, m \in Models : Choose(r, n, m) \/ WaitForSlot(r, n, m)
    \/ NoCandidate(r) \/ Reselect(r) \/ StartDeferred(r) \/ Refused(r)
    \/ Fail(r) \/ FinishOk(r) \/ FinishFailed(r) \/ FinishNotFound(r) \/ FinishNeutral(r)
NodeStep(n) == \/ Report(n) \/ GoOffline(n) \/ ComeOnline(n)
               \/ \E m \in Models : LoadOver(n, m)

Next == \/ \E r \in Requests : Arrive(r) \/ RequestStep(r) \/ Disconnect(r)
        \/ \E n \in Nodes : NodeStep(n)
        \/ Tick \/ Quiescent

Spec == Init /\ [][Next]_vars

\* The event loop runs every runnable task, and each await of a request ends:
\* the wait for a slot after RECHECK_S, a relay after request_timeout_s.
Fairness == WF_vars(Tick) /\ \A r \in Requests : WF_vars(RequestStep(r))
FairSpec == Spec /\ Fairness

----------------------------------------------------------------------------
(* Correctness *)

\* Every started attempt is counted on its node and its model exactly while it
\* runs: whichever way run() leaves (answer, 404, failure, cancellation, node
\* gone offline meanwhile), _begin and _finish pair up.
Bookkeeping ==
    \A n \in Nodes : /\ inflight[n] = Cardinality(ActiveOn(n))
                     /\ \A m \in Models : inflightModels[n][m] = Cardinality(ActiveFor(n, m))

\* Requests that do not await between choice and start never exceed the node's
\* max_inflight nor a model's max_parallel, however waiters, newcomers, retries
\* and guard changes interleave (admission.saturated before _begin).
OrdinaryWithinLimits ==
    \A n \in Nodes :
        /\ Cardinality(ActiveOn(n) \ Managed) <= MaxInflight[n]
        /\ \A m \in Models : MaxParallel[m] # 0 =>
               Cardinality(ActiveFor(n, m) \ Managed) <= MaxParallel[m]

\* README.md:240, "half_open with exactly one probe", for ordinary requests:
\* no two of them are ever on a node as its probe, across reopened breakers,
\* stale answers and restarts of the node.
OneOrdinaryProbe ==
    \A r, s \in Active \ Managed :
        req[r].probe /\ req[s].probe /\ req[r].node = req[s].node => r = s

\* An ordinary request never starts on a node whose breaker has it out of
\* service, nor beside another request on a half-open one (candidates_for and
\* breaker_allows, evaluated before a wait or a retry).
StartAllowed(r) ==
    LET n == req'[r].node
    IN  req[r].st # "running" /\ req'[r].st = "running" =>
            /\ breaker'[n] # "open"
            /\ breaker'[n] = "half_open" => inflight[n] = 0
StartOnlyWhereAllowed == [][\A r \in Requests \ Managed : StartAllowed(r)]_vars

\* A waiter is never passed over in favour of one that has come more than two
\* aging periods later, whatever their classes: batch does not starve behind
\* interactive (admission.release, rank_key).
AgingBeatsClass ==
    [][\A w, v \in Requests :
         (/\ req[w].st = "waiting" /\ req'[w].st = "woken"
          /\ req[v].st = "waiting" /\ req'[v].st = "waiting"
          /\ req[v].node = req[w].node /\ req[v].model = req[w].model)
         => req[w].enq <= req[v].enq + 2 * AgingS]_vars

\* No request is left without an answer: not in the queue after a lost or
\* wasted wake, not between retries, waits for a load and wakes.
EveryRequestAnswered ==
    \A r \in Requests : req[r].st # "idle" ~> req[r].st = "answered"
=============================================================================
