---------------------------- MODULE MCNodeState ----------------------------
(* A card for one model and a half; a game that needs half of it, and a load that no *)
(* agent reports. The assumptions of Placement are evaluated with it, over nodes      *)
(* that differ in what their card holds, worlds of two nodes, and a few requests.     *)
EXTENDS NodeState, Placement

Nothing == [vram |-> 0, util |-> "low", fact |-> "none"]
Heavy == [vram |-> 1, util |-> "mid", fact |-> "heavy"]
Unreported == [vram |-> 2, util |-> "high", fact |-> "none"]
AllGames == {Nothing, Heavy, Unreported}

----------------------------------------------------------------------------
(* Placement *)

\* A model that takes most of a card of 24 GiB, an alias of it, one of the standby, one that no
\* catalog knows, one of the cloud, and the model of a server.
SomeCatalog == [m \in {"big", "small"} |->
    IF m = "big" THEN [weights |-> 36, perThousand |-> 1, real |-> TRUE, parallel |-> 1]
    ELSE [weights |-> 12, perThousand |-> 1, real |-> FALSE, parallel |-> 0]]
SomeDigests == [m \in {"big", "pet", "small"} |-> IF m = "small" THEN 2 ELSE 1]
Sizes == [m \in {"big", "pet", "small", "found", "strata"} |-> 20]
NotAble == [m \in {"big", "pet", "small", "found", "strata", "claude"} |-> IF m = "small" THEN {"tools"} ELSE {}]
Reserves == [s \in {"free", "busy", "offline"} |-> IF s = "busy" THEN 4 ELSE 2]
DefaultWeights == [warm |-> 10000, inflight |-> 1000, saturated |-> 5000, vram_free |-> 200, weight |-> 100,
                   speed |-> 200, errors |-> 2000, half_open |-> 500, switch |-> 6000, guard |-> 4000]

Loads(m, gib, ctx) == [l \in {m} |-> [gib |-> gib, ctx |-> ctx]]
OneNode ==
    [name |-> 1, state |-> "free", models |-> {"big", "pet", "small", "found"}, standby |-> {}, servers |-> {},
     openai |-> FALSE, switchable |-> FALSE, standbyServes |-> FALSE, blocked |-> FALSE,
     pressure |-> FALSE, draining |-> FALSE, breaker |-> "closed", inflight |-> 0,
     running |-> [m \in DOMAIN NotAble |-> 0], cap |-> 2, guard |-> "normal", guarded |-> TRUE,
     loaded |-> [l \in {} |-> 0], claim |-> 0, frozen |-> 0, used |-> 0, policy |-> -1, spec |-> 0,
     learned |-> -1, children |-> 0, total |-> 48, weight |-> 1, speed |-> 0, recent |-> << >>,
     report |-> "answering", order |-> "", prewarmed |-> FALSE]
OwnCards ==
    {[OneNode EXCEPT !.state = s, !.draining = d, !.breaker = b[1], !.inflight = b[2], !.pressure = p,
                     !.loaded = l, !.used = u, !.learned = f[1], !.claim = f[2], !.frozen = f[3]] :
        s \in {"free", "busy", "offline"}, d \in BOOLEAN,
        b \in {<<"closed", 0>>, <<"open", 0>>, <<"due", 1>>, <<"due", 0>>}, p \in BOOLEAN,
        l \in {[m \in {} |-> 0], Loads("pet", 30, 4), Loads("small", 13, 0)}, u \in {-1, 8, 20, 46},
        f \in {<<-1, 0, 0>>, <<3, 0, 0>>, <<-1, 14, 4>>}}
Shares(n) == [n EXCEPT !.openai = TRUE, !.servers = {"strata"},
                       !.models = IF n.standbyServes THEN {"big", "small", "strata"} ELSE {"strata"},
                       !.standby = {"big", "small"},
                       !.loaded = IF n.standbyServes THEN n.loaded ELSE Loads("strata", 0, 8)]
SharedCards ==
    {Shares([OneNode EXCEPT !.switchable = w, !.standbyServes = h[1], !.report = h[2], !.order = h[3], !.blocked = b,
                            !.pressure = p, !.used = u, !.learned = f, !.state = s, !.prewarmed = FALSE]) :
        w \in BOOLEAN, h \in {<<FALSE, "answering", "">>, <<FALSE, "answering", "release">>, <<FALSE, "starting", "">>,
                              <<FALSE, "held", "">>, <<TRUE, "held", "">>, <<TRUE, "held", "hold">>},
        b \in BOOLEAN, p \in BOOLEAN, u \in {-1, 8, 46}, f \in {-1, 3}, s \in {"free", "busy", "offline"}}
AllCards == OwnCards \cup SharedCards

Rubbed ==
    {[OneNode EXCEPT !.name = k, !.loaded = Loads("small", 13, 4), !.inflight = i, !.guard = g, !.speed = v, !.recent = r,
                     !.breaker = b, !.used = 13] :
        k \in {1}, i \in {0, 1, 2}, g \in {"none", "normal", "high_load", "throttled"}, v \in {0, 150}, b \in {"closed", "half_open"},
        r \in {<< >>, <<"error", "timeout">>, <<"ok", "error">>}}

Tier(m, ctx, ok, cloud, canary) == [model |-> m, ctx |-> ctx, busyOk |-> ok, cloud |-> cloud, canary |-> canary]
SomeTierLists ==
    {<<Tier("big", 8, FALSE, FALSE, FALSE), Tier("small", 4, TRUE, FALSE, FALSE), Tier("claude", 8, TRUE, TRUE, FALSE)>>,
     <<Tier("claude", 8, TRUE, TRUE, FALSE), Tier("found", 8, FALSE, FALSE, FALSE), Tier("pet", 4, FALSE, FALSE, TRUE)>>,
     <<Tier("strata", 8, FALSE, FALSE, FALSE), Tier("small", 8, TRUE, FALSE, FALSE)>>}
Plainly == [require |-> {}, prefer |-> {}, minContext |-> 0, ctx |-> 0, cloudBlock |-> FALSE, canary |-> FALSE,
            interactive |-> FALSE, affinity |-> [node |-> 0, model |-> "none"]]
SomeRequests ==
    {Plainly, [Plainly EXCEPT !.require = {"tools"}, !.cloudBlock = TRUE], [Plainly EXCEPT !.minContext = 6],
     [Plainly EXCEPT !.canary = TRUE, !.interactive = TRUE], [Plainly EXCEPT !.prefer = {"tools"}, !.ctx = 4],
     [Plainly EXCEPT !.interactive = TRUE], [Plainly EXCEPT !.interactive = TRUE, !.cloudBlock = TRUE],
     [Plainly EXCEPT !.affinity = [node |-> 1, model |-> "small"]]}

Running(n, m) == [n EXCEPT !.inflight = 1, !.running = [@ EXCEPT ![m] = 1]]
FirstNodes ==
    {OneNode, [OneNode EXCEPT !.loaded = Loads("small", 13, 8), !.used = 13],
     Running([OneNode EXCEPT !.loaded = Loads("big", 30, 8), !.used = 44], "big"),
     [Running([OneNode EXCEPT !.loaded = Loads("small", 13, 8), !.used = 13], "small") EXCEPT !.cap = 1],
     [OneNode EXCEPT !.used = 40], [OneNode EXCEPT !.used = 40, !.children = 40], [OneNode EXCEPT !.state = "busy", !.used = 20], [OneNode EXCEPT !.draining = TRUE],
     [OneNode EXCEPT !.total = 24], [OneNode EXCEPT !.breaker = "open"], [OneNode EXCEPT !.pressure = TRUE]}
SecondNodes ==
    {[n EXCEPT !.name = 2] : n \in
        {[OneNode EXCEPT !.state = "offline"], [OneNode EXCEPT !.total = 24],
         [OneNode EXCEPT !.loaded = Loads("small", 13, 8), !.used = 13, !.total = 24],
         Shares([OneNode EXCEPT !.switchable = TRUE]),
         Shares([OneNode EXCEPT !.switchable = TRUE, !.standbyServes = TRUE, !.report = "held", !.blocked = TRUE]),
         Running(Shares([OneNode EXCEPT !.switchable = TRUE, !.standbyServes = TRUE, !.loaded = Loads("small", 13, 8)]), "small")}}
Cloud == [OneNode EXCEPT !.name = 9, !.models = {"claude"}, !.used = -1, !.total = 0, !.guarded = FALSE, !.cap = 8]
SomeWorlds == {[nodes |-> {a, b}, targets |-> c] : a \in FirstNodes, b \in SecondNodes, c \in {{}, {Cloud}, {[Cloud EXCEPT !.breaker = "open"]}}}
=============================================================================
