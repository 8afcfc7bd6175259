---------------------------- MODULE UpstreamHold ----------------------------
(* Freeing the GPU from a node's OpenAI-compatible server (agent/upstream_hold.go
   with a standby Ollama): the router's orders hold and release, the two children
   of the supervisor, the switch that says where the
   tunnel's requests go, and what the
   watcher (agent/ollamawatch.go) reports of it all to the router.

   Orders wait for u.mu in goroutines of their own; one at a time goes through
   its steps, each of them one call that takes a lock or waits.  Times (30 s for
   a stop, 2 min for the drain) are "may be over".  Whether the RAM has room and
   whether models are remembered at the agent's start is a free choice. *)
EXTENDS Supervisor, Naturals

CONSTANTS
    Upstream, Standby,     \* the two children
    MaxOrders              \* orders of the router (bound)

ASSUME ChildrenAssumption == Children = {Upstream, Standby} /\ Upstream # Standby
ASSUME OrdersAssumption == MaxOrders \in Nat

VARIABLES
    orders, sent,                  \* orders that wait for u.mu; how many have come (bound)
    step,                          \* of the order that holds u.mu
    uHeld, fbRunning, blocked,     \* upstreamHold
    swOn,                          \* upstreamSwitch.on: requests go to the standby
    wHeld, fbOn, grace,            \* OllamaWatcher: held, fbOn, startEnd
    told, serving, poll            \* its report (upstream_state, serving); a poll under way

orderVars == <<orders, sent>>
holdVars == <<step, uHeld, fbRunning, blocked>>
watchVars == <<wHeld, fbOn, grace, told, serving>>
agentVars == <<supervisorVars, orderVars, holdVars, swOn, watchVars, poll>>

Kinds == {"hold", "release"}
Steps == {"idle", "stop", "stopping", "standby", "switch", "report",
          "drain", "drained", "park", "parking", "release"}
NoPoll == [at |-> "none", result |-> "none"]

HoldTypeOK ==
    /\ SupervisorTypeOK
    /\ orders \in [Kinds -> Nat] /\ sent \in Nat
    /\ step \in Steps
    /\ uHeld \in BOOLEAN /\ fbRunning \in BOOLEAN /\ blocked \in BOOLEAN
    /\ swOn \in BOOLEAN
    /\ wHeld \in BOOLEAN /\ fbOn \in BOOLEAN /\ grace \in BOOLEAN
    /\ told \in {"none", "answering", "starting", "held", "down"} /\ serving \in BOOLEAN
    /\ poll \in [at : {"none", "upstream", "standby"},
                 result : {"none", "asked", "ok", "error"}]

\* app.go parks the standby; startHeld, with remembered models, parks the
\* upstream instead and starts the standby, all before the supervisor runs.
HoldInit ==
    /\ \E startHeld \in BOOLEAN :
          /\ SupervisorInit(IF startHeld THEN Upstream ELSE Standby)
          /\ uHeld = startHeld /\ fbRunning = startHeld /\ swOn = startHeld
          /\ wHeld = startHeld /\ fbOn = startHeld /\ grace = ~startHeld
          /\ told = IF startHeld THEN "held" ELSE "none"
    /\ orders = [k \in Kinds |-> 0] /\ sent = 0
    /\ step = "idle" /\ blocked = FALSE /\ serving = FALSE
    /\ poll = NoPoll

----------------------------------------------------------------------------
(* The watcher's report *)

SetHeld == /\ wHeld' = TRUE /\ grace' = FALSE
           /\ told' = "held" /\ serving' = FALSE
           /\ UNCHANGED fbOn
SetReleased == /\ wHeld' = FALSE /\ fbOn' = FALSE /\ grace' = TRUE
               /\ told' = "starting" /\ serving' = FALSE

\* poll: which server is asked; a held one without standby is not.
PollAsk ==
    /\ poll = NoPoll
    /\ wHeld => fbOn
    /\ poll' = [at |-> IF wHeld THEN "standby" ELSE "upstream", result |-> "asked"]
    /\ UNCHANGED <<supervisorVars, orderVars, holdVars, swOn, watchVars>>

\* The request to the server ends.  A live one may not answer yet.
PollFetch ==
    /\ poll.result = "asked"
    /\ \/ /\ proc[IF poll.at = "standby" THEN Standby ELSE Upstream] = "alive"
          /\ poll' = [poll EXCEPT !.result = "ok"]
       \/ poll' = [poll EXCEPT !.result = "error"]
    /\ UNCHANGED <<supervisorVars, orderVars, holdVars, swOn, watchVars>>

\* What an answer of the upstream changes.
TellUpstream ==
    \/ poll.result = "ok" /\ told' = "answering" /\ grace' = FALSE
    \/ poll.result = "error" /\ grace /\ told' = "starting" /\ UNCHANGED grace
    \/ poll.result = "error" /\ told' \in {told, "down"} /\ UNCHANGED grace

\* poll takes the lock again; what was held meanwhile stays held.
PollUpstream ==
    /\ poll.at = "upstream" /\ poll.result # "asked"
    /\ IF wHeld THEN UNCHANGED <<told, grace>> ELSE TellUpstream
    /\ poll' = NoPoll
    /\ UNCHANGED <<supervisorVars, orderVars, holdVars, swOn, wHeld, fbOn, serving>>

\* pollFallback: the standby's models are reported, or after failures no more.
PollStandby ==
    /\ poll.at = "standby" /\ poll.result # "asked"
    /\ IF ~wHeld \/ ~fbOn THEN UNCHANGED <<told, serving>>
       ELSE \/ poll.result = "ok" /\ told' = "held" /\ serving' = TRUE
            \/ poll.result = "error" /\ serving' \in {serving, FALSE} /\ UNCHANGED told
    /\ poll' = NoPoll
    /\ UNCHANGED <<supervisorVars, orderVars, holdVars, swOn, wHeld, fbOn, grace>>

----------------------------------------------------------------------------
(* Orders *)

\* Handle: an order has arrived, its goroutine is under way to u.mu.
Handle(k) ==
    /\ sent < MaxOrders
    /\ sent' = sent + 1
    /\ orders' = [orders EXCEPT ![k] = @ + 1]
    /\ UNCHANGED <<supervisorVars, holdVars, swOn, watchVars, poll>>

Takes(k) == /\ step = "idle" /\ orders[k] > 0
            /\ orders' = [orders EXCEPT ![k] = @ - 1]
            /\ UNCHANGED <<sent, supervisorVars, swOn, poll>>
OrderGoes(from, to) == step = from /\ step' = to

Repeated(k) == /\ Takes(k) /\ uHeld = (k = "hold")
               /\ UNCHANGED <<holdVars, watchVars>>

\* apply(hold): the report comes first.
BeginHold ==
    /\ Takes("hold") /\ ~uHeld
    /\ OrderGoes("idle", "stop") /\ SetHeld
    /\ UNCHANGED <<uHeld, fbRunning, blocked>>

StopUpstream ==
    /\ OrderGoes("stop", "stopping") /\ Hold(Upstream)
    /\ UNCHANGED <<orderVars, uHeld, fbRunning, blocked, swOn, watchVars, poll>>

\* Mutant: Hold waits without a limit.
UpstreamStoppedOnly ==
    /\ HoldStopped(Upstream) /\ OrderGoes("stopping", "standby")
    /\ uHeld' = TRUE
    /\ UNCHANGED <<supervisorVars, orderVars, fbRunning, blocked, swOn, watchVars, poll>>
\* Hold returns: no standby for a server that has not stopped in time.
UpstreamStopped ==
    /\ \/ HoldStopped(Upstream) /\ OrderGoes("stopping", "standby")
       \/ HoldTimedOut(Upstream) /\ OrderGoes("stopping", "idle")
    /\ uHeld' = TRUE
    /\ UNCHANGED <<supervisorVars, orderVars, fbRunning, blocked, swOn, watchVars, poll>>

\* startFallback
StartStandby ==
    /\ OrderGoes("standby", "switch") /\ Release(Standby)
    /\ UNCHANGED <<orderVars, uHeld, fbRunning, blocked, swOn, watchVars, poll>>
SwitchOn ==
    /\ OrderGoes("switch", "report") /\ swOn' = TRUE
    /\ UNCHANGED <<supervisorVars, orderVars, uHeld, fbRunning, blocked, watchVars, poll>>
ReportStandby ==
    /\ OrderGoes("report", "idle") /\ fbOn' = TRUE /\ fbRunning' = TRUE
    /\ UNCHANGED <<supervisorVars, orderVars, uHeld, blocked, swOn,
                   wHeld, grace, told, serving, poll>>

\* Mutant: the RAM is looked at after the standby was given up.
RefuseLate ==
    /\ Takes("release") /\ uHeld /\ fbRunning
    /\ OrderGoes("idle", "drain") /\ SetReleased /\ blocked' = TRUE
    /\ UNCHANGED <<uHeld, fbRunning>>
\* apply(release) with too little RAM: nothing changes but the reason.
Refuse ==
    /\ Takes("release") /\ uHeld
    /\ blocked' = TRUE
    /\ UNCHANGED <<step, uHeld, fbRunning, watchVars>>

\* Mutant: the standby is not stopped before the start.
BeginReleaseKeeps ==
    /\ Takes("release") /\ uHeld
    /\ OrderGoes("idle", "release")
    /\ blocked' = FALSE /\ SetReleased
    /\ UNCHANGED <<uHeld, fbRunning>>
\* Otherwise the report comes first, and the standby stops before the start.
BeginRelease ==
    /\ Takes("release") /\ uHeld
    /\ OrderGoes("idle", IF fbRunning THEN "drain" ELSE "release")
    /\ blocked' = FALSE /\ SetReleased
    /\ UNCHANGED <<uHeld, fbRunning>>

\* stopFallback: drain returns when the standby has no request, or in time.
Drained ==
    /\ OrderGoes("drain", "drained")
    /\ UNCHANGED <<supervisorVars, orderVars, uHeld, fbRunning, blocked, swOn, watchVars, poll>>
\* Mutant: requests go to the standby until it has ended.
SwitchOffNever ==
    /\ OrderGoes("drained", "park")
    /\ UNCHANGED <<supervisorVars, orderVars, uHeld, fbRunning, blocked, swOn, watchVars, poll>>
SwitchOff ==
    /\ OrderGoes("drained", "park") /\ swOn' = FALSE
    /\ UNCHANGED <<supervisorVars, orderVars, uHeld, fbRunning, blocked, watchVars, poll>>
StopStandby ==
    /\ OrderGoes("park", "parking") /\ Hold(Standby)
    /\ UNCHANGED <<orderVars, uHeld, fbRunning, blocked, swOn, watchVars, poll>>
\* Stopped or not, the release goes on.
StandbyStopped ==
    /\ HoldStopped(Standby) \/ HoldTimedOut(Standby)
    /\ OrderGoes("parking", "release")
    /\ fbRunning' = FALSE /\ SetReleased
    /\ UNCHANGED <<supervisorVars, orderVars, uHeld, blocked, swOn, poll>>
StartUpstream ==
    /\ OrderGoes("release", "idle") /\ Release(Upstream)
    /\ uHeld' = FALSE
    /\ UNCHANGED <<orderVars, fbRunning, blocked, swOn, watchVars, poll>>

\* sample, every 30 s: the RAM has room again.
Unblock ==
    /\ step = "idle" /\ uHeld /\ blocked
    /\ blocked' = FALSE
    /\ UNCHANGED <<supervisorVars, orderVars, step, uHeld, fbRunning, swOn, watchVars, poll>>

----------------------------------------------------------------------------
OrderStep == \/ \E k \in Kinds : Repeated(k)
             \/ BeginHold \/ StopUpstream \/ UpstreamStopped
             \/ StartStandby \/ SwitchOn \/ ReportStandby
             \/ Refuse \/ BeginRelease \/ Drained \/ SwitchOff \/ StopStandby
             \/ StandbyStopped \/ StartUpstream
ChildStep(c) == /\ LoopStep(c) \/ Dies(c)
                /\ UNCHANGED <<orderVars, holdVars, swOn, watchVars, poll>>

\* Both children are held after a server that did not end in time, and the
\* bounded run has no further order.
Quiescent ==
    /\ sent = MaxOrders /\ step = "idle" /\ \A k \in Kinds : orders[k] = 0
    /\ \A c \in Children : held[c] /\ proc[c] = "none"
    /\ UNCHANGED agentVars

HoldNext == \/ \E k \in Kinds : Handle(k)
        \/ OrderStep \/ Unblock
        \/ \E c \in Children : ChildStep(c)
        \/ PollAsk \/ PollFetch \/ PollUpstream \/ PollStandby
        \/ Quiescent

HoldSpec == HoldInit /\ [][HoldNext]_agentVars

\* The goroutines run: the order that has u.mu goes on (its waits are bounded),
\* u.mu is given to the waiting ones, the loops of the children go on, and a
\* killed process ends.
HoldFairness ==
    /\ WF_agentVars(OrderStep)
    /\ \A c \in Children : /\ WF_agentVars(ChildStep(c) /\ loop' # loop)
                           /\ WF_agentVars(ChildStep(c) /\ proc[c] = "dying" /\ proc'[c] = "none")
HoldFairSpec == HoldSpec /\ HoldFairness

----------------------------------------------------------------------------
(* Correctness *)

\* The upstream and the standby are never both allowed to run: at every moment,
\* between any two calls of an order and from the agent's start on, the
\* supervisor keeps at least one of them held.
OneMayRun == held[Upstream] \/ held[Standby]

\* A server that an order has killed is gone before the standby may start; if it
\* does not end in time there is no standby at all (apply, startFallback).
GoneBeforeStandby == proc[Upstream] = "dying" => held[Standby]

\* The tunnel's requests are not sent to a parked standby, and between two orders
\* the three notions of who serves agree: u.held with the supervisor, the standby
\* with the switch and with what the watcher polls.
WhoServes ==
    /\ swOn => ~held[Standby]
    /\ step = "idle" => /\ uHeld = held[Upstream] /\ uHeld = wHeld
                        /\ fbRunning = ~held[Standby] /\ fbRunning = swOn
                        /\ fbRunning = fbOn /\ (fbRunning => uHeld)

\* A refused release has cost nothing: the server is still held, and a standby
\* that served still runs and gets the requests.
BlockedKeepsServing ==
    blocked => /\ uHeld /\ held[Upstream] /\ wHeld
               /\ fbRunning => swOn /\ ~held[Standby] /\ fbOn

\* While the server is being stopped or is held, the router is told so: no late
\* answer of a poll that was under way turns the report back to "answering", and
\* the standby is only reported while it stands in (poll, pollFallback).
HeldIsTold == /\ wHeld => told = "held"
              /\ step \in {"stop", "stopping", "standby", "switch", "report"} => wHeld
              /\ serving => wHeld /\ fbOn

\* Every order is carried out: none waits for ever behind a server that does not
\* end or a standby that is still answering.
EveryOrderEnds == \A k \in Kinds : orders[k] > 0 ~> orders[k] = 0

\* A released child is started, wherever its loop was when it was held.
ReleasedIsStarted ==
    \A c \in Children : ~held[c] ~> held[c] \/ loop[c] = "launch" \/ proc[c] = "alive"

\* upstream_hold.go:26, "stops it, and only then starts the upstream: the two never
\* share the card": the documented bound.  A process that is just being started
\* escapes Hold, and a standby that does not end in time is not waited for.
NeverShareTheCard == proc[Upstream] = "none" \/ proc[Standby] = "none"
=============================================================================
