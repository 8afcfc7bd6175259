----------------------------- MODULE Placement -----------------------------
(* Which node a request gets, and what it is told when it gets none:               *)
(* skirnir_router/scheduler.py with what it asks of nodes.py, config.py and perf.py.*)
(*                                                                                 *)
(* A pure module: a node, a tier and a request are records, memory is counted in   *)
(* half GiB, contexts in thousands of tokens. A name has the same digest on every  *)
(* node. The assumptions at the end relate the selection to the other readings of  *)
(* the same state: the refusal a client is told, the tiers it is kept from, the    *)
(* learned baseline and the window of a server that shares the card.               *)
EXTENDS Integers, Sequences, FiniteSets
LOCAL INSTANCE Functions
LOCAL INSTANCE FiniteSetsExt

CONSTANTS
    Catalog,      \* per model [weights, perThousand, real, parallel]; parallel 0: no limit
    Digest,       \* per known name its digest; an alias shares that of its base
    FileSize,     \* per name the size Ollama lists
    Lacking,      \* per name the capabilities it is known to lack
    Overhead,     \* modes.fit_overhead_gib
    Reserve,      \* modes.vram_reserve_gib
    Weight,       \* modes.score with gpu_guard.score_penalty, in hundredths
    DefaultCap,   \* modes.admission.max_inflight_default
    ThrottledCap, \* modes.gpu_guard.throttled_max_inflight
    FreshGuard,   \* modes.gpu_guard.require_fresh_status: no status, or a stale one, throttles too
    Cards,        \* inputs: nodes,
    Worn,         \* nodes with a record,
    Worlds,       \* sets of nodes with the targets of cloud tiers,
    TierLists,    \* lists of tiers,
    Asked,        \* requests
    AnyRequest    \* and the one of them that asks for nothing

Unknown == -1
NoneLoaded == [l \in {} |-> 0]
NoPick == [tier |-> 0, node |-> 0, why |-> "none"]
Largest(a, b) == IF a > b THEN a ELSE b
Smallest(a, b) == IF a < b THEN a ELSE b
Least(S) == CHOOSE i \in S : \A k \in S : i <= k
\* The first of a sequence of sets that is not empty.
FirstOf(sets) ==
    LET full == {i \in DOMAIN sets : sets[i] # {}} IN IF full = {} THEN {} ELSE sets[Least(full)]

----------------------------------------------------------------------------
(* Models and memory *)

SameBlob(a, b) == a = b \/ (a \in DOMAIN Digest /\ b \in DOMAIN Digest /\ Digest[a] = Digest[b])
\* catalog_twin: the entry of the name, or of another name of the same blob.
Twins(m) == {c \in DOMAIN Catalog : SameBlob(c, m)}
Entry(m) == Catalog[IF m \in DOMAIN Catalog THEN m ELSE CHOOSE c \in Twins(m) : TRUE]
Planned(m, ctx) == Entry(m).weights + Entry(m).perThousand * ctx
Measured(m, ctx) == Twins(m) # {} /\ Entry(m).real /\ ctx # 0
MaxParallel(m) == IF Twins(m) = {} THEN 0 ELSE Entry(m).parallel

IsLoaded(n, m) == \E l \in DOMAIN n.loaded : SameBlob(l, m)
LoadedAs(n, m) == n.loaded[CHOOSE l \in DOMAIN n.loaded : SameBlob(l, m)]

NeedGib(m, ctx, n) ==
    CASE Twins(m) # {} -> Planned(m, ctx) + IF Entry(m).real THEN 0 ELSE Overhead
      [] Twins(m) = {} /\ IsLoaded(n, m) -> LoadedAs(n, m).gib + 1
      [] OTHER -> (FileSize[m] * 6) \div 5 + Overhead

\* /api/ps names too little for a model the catalog has measured.
Occupied(loaded) ==
    FoldFunction(+, 0, [l \in DOMAIN loaded |->
        IF Measured(l, loaded[l].ctx) THEN Largest(loaded[l].gib, Planned(l, loaded[l].ctx)) ELSE loaded[l].gib])
OllamaGib(n) == Occupied(n.loaded)

\* A value from the configuration or the policy of the node, and a learned one: the lower.
Baseline(n) ==
    LET set == IF n.policy # Unknown THEN n.policy ELSE n.spec
    IN  IF n.learned = Unknown THEN set
        ELSE IF set = 0 THEN n.learned ELSE Smallest(set, n.learned)

ForeignGib(n) ==
    LET own == Largest(OllamaGib(n), n.claim)
        raw == Largest(0, n.used - own - n.children - Baseline(n))
    IN  IF n.used = Unknown THEN 0
        ELSE IF n.claim > 0 THEN Largest(raw, n.frozen) ELSE raw

BudgetGib(n) ==
    IF n.used # Unknown THEN n.total - n.used + OllamaGib(n) - Reserve[n.state]
    ELSE n.total - Reserve[n.state]
StandbyBudgetGib(n) == n.total - Reserve[n.state] - Baseline(n) - ForeignGib(n)

\* The median of the means of the hours of a day.
Means(hours) == [h \in DOMAIN hours |-> (2 * hours[h].sum) \div hours[h].n]
KthLowest(means, k) ==
    CHOOSE v \in Range(means) : /\ Cardinality({h \in DOMAIN means : means[h] < v}) < k
                                /\ Cardinality({h \in DOMAIN means : means[h] <= v}) >= k
LearnedTwice(hours) ==
    LET means == Means(hours)
        many == Cardinality(DOMAIN hours)
        mid == many \div 2
    IN  IF many % 2 = 1 THEN KthLowest(means, mid + 1)
        ELSE (KthLowest(means, mid) + KthLowest(means, mid + 1)) \div 2
\* A sample goes to its hour; hours older than a day are forgotten.
Learn(hours, hour, sample, day) ==
    LET b == IF hour \in DOMAIN hours THEN hours[hour] ELSE [n |-> 0, sum |-> 0]
        kept == {h \in DOMAIN hours \cup {hour} : h >= hour - day}
    IN  [h \in kept |-> IF h = hour THEN [n |-> b.n + 1, sum |-> b.sum + sample] ELSE hours[h]]

----------------------------------------------------------------------------
(* Score *)

\* effective_max_inflight; a stale report of the guard is "none" (guard_state).
Throttled(n) == n.guarded /\ (n.guard = "throttled" \/ (n.guard = "none" /\ FreshGuard))
Cap(n) ==
    LET base == IF n.cap = 0 THEN DefaultCap ELSE n.cap
    IN  IF Throttled(n) THEN Smallest(base, ThrottledCap) ELSE base
Full(n, m) == n.inflight >= Cap(n) \/ (MaxParallel(m) # 0 /\ n.running[m] >= MaxParallel(m))

\* error_rate, over the last runs of a model on a node.
ErrorPercent(recent) ==
    IF recent = << >> THEN 0
    ELSE (100 * Cardinality({i \in DOMAIN recent : recent[i] # "ok"})) \div Len(recent)

When(condition, w) == IF condition THEN w ELSE 0
StandbySwitch(n, m) ==
    /\ n.openai /\ n.switchable /\ ~n.standbyServes
    /\ m \notin n.models /\ m \in n.standby
Score(n, m) ==
    When(IsLoaded(n, m), Weight.warm) - Weight.inflight * n.inflight
    - When(Full(n, m), Weight.saturated)
    - When(n.guarded /\ n.guard \in {"high_load", "throttled"}, Weight.guard)
    + When(n.total # 0 /\ n.used # Unknown,
           IF n.total = 0 THEN 0 ELSE (Weight.vram_free * (n.total - n.used)) \div n.total)
    + Weight.weight * n.weight + (Weight.speed * n.speed) \div 100
    - (Weight.errors * ErrorPercent(n.recent)) \div 100
    - When(n.breaker = "half_open", Weight.half_open)
    - When(StandbySwitch(n, m), Weight.switch)
\* rank: by score, then by name.
Best(nodes, m) ==
    CHOOSE n \in nodes : \A o \in nodes \ {n} :
        Score(n, m) > Score(o, m) \/ (Score(n, m) = Score(o, m) /\ n.name < o.name)

----------------------------------------------------------------------------
(* Candidates *)

Offers(n, m) == m \in n.models \/ StandbySwitch(n, m)
ServesOpenAI(n, m) == n.openai /\ (~n.standbyServes \/ m \in n.servers)
ReleasesServerFor(n, m) == n.standbyServes /\ ServesOpenAI(n, m)
\* breaker_would_allow: an open breaker that is due lets one probe pass.
WouldAllow(n) == n.breaker = "closed" \/ (n.breaker # "open" /\ n.inflight = 0)
Context(t, clientCtx) == IF clientCtx = 0 THEN t.ctx ELSE Smallest(clientCtx, t.ctx)
WarmEnough(n, m, ctx) == IsLoaded(n, m) /\ LoadedAs(n, m).ctx \in {0} \cup ctx..(LoadedAs(n, m).ctx)
Fits(n, m, ctx) ==
    IF ReleasesServerFor(n, m) THEN ~n.pressure /\ ~n.blocked
    ELSE IF StandbySwitch(n, m) THEN ~n.pressure /\ NeedGib(m, ctx, n) <= StandbyBudgetGib(n)
    ELSE WarmEnough(n, m, ctx) \/ (~n.pressure /\ NeedGib(m, ctx, n) <= BudgetGib(n))
Serves(n, t, ctx) ==
    /\ n.state # "offline" /\ Offers(n, t.model) /\ ~n.draining
    /\ n.state = "busy" => t.busyOk
    /\ WouldAllow(n) /\ Fits(n, t.model, ctx)
\* A world is the nodes and the target of the cloud tiers.
CandidatesFor(world, t, clientCtx, exclude) ==
    IF t.cloud THEN {c \in world.targets : c.name \notin exclude /\ WouldAllow(c)}
    ELSE {n \in world.nodes : n.name \notin exclude /\ Serves(n, t, Context(t, clientCtx))}

----------------------------------------------------------------------------
(* choose *)

TierBlocked(t, req) ==
    \/ t.cloud /\ req.cloudBlock
    \/ req.minContext # 0 /\ t.ctx < req.minContext
    \/ Lacking[t.model] \cap req.require # {}

\* The first tier of a set that has a node of its kind, and the best of them.
First(tiers, among, nodes, why) ==
    LET open == {i \in among : nodes[i] # {}}
    IN  IF open = {} THEN {}
        ELSE LET i == Least(open) IN {[tier |-> i, node |-> Best(nodes[i], tiers[i].model).name, why |-> why]}

\* An interactive request does not wait behind a running one if another local tier can
\* serve at once: on another node, and warm, if possible.
InteractivePick(tiers, local, cands) ==
    LET warm == [i \in local |-> {n \in cands[i] : IsLoaded(n, tiers[i].model)}]
        free == [i \in local |-> {n \in cands[i] : ~Full(n, tiers[i].model)}]
        busy == UNION {{n.name : n \in warm[i] \ free[i]} : i \in local}
        away == [i \in local |-> {n \in free[i] : n.name \notin busy}]
        ways == <<First(tiers, local, [i \in local |-> away[i] \cap warm[i]], "fallback"),
                  First(tiers, local, away, "fallback"),
                  First(tiers, local, [i \in local |-> free[i] \cap warm[i]], "fallback"),
                  First(tiers, local, free, "fallback")>>
    IN  IF busy = {} THEN {} ELSE FirstOf(ways)

Choose(world, role, tiers, req, exclude) ==
    LET open == {i \in DOMAIN tiers : ~TierBlocked(tiers[i], req)}
        cands == [i \in open |-> CandidatesFor(world, tiers[i], req.ctx, exclude)]
        wanted == {i \in open : Lacking[tiers[i].model] \cap req.prefer = {}}
        per == IF \E i \in wanted : cands[i] # {} THEN wanted ELSE open
        local == {i \in per : ~tiers[i].cloud}
        warm == [i \in per |-> {n \in cands[i] : IsLoaded(n, tiers[i].model)}]
        sticky == [i \in per |-> {n \in warm[i] : tiers[i].model = req.affinity.model /\ n.name = req.affinity.node}]
        latency == [i \in per |->
            IF ~tiers[i].cloud THEN warm[i]
            ELSE IF \E j \in local : j < i /\ cands[j] # {} THEN {} ELSE cands[i]]
        ways == <<IF req.canary THEN First(tiers, {i \in open : tiers[i].canary}, cands, "canary") ELSE {},
                  First(tiers, per, sticky, "affinity"),
                  IF role.latencyFirst /\ req.interactive THEN InteractivePick(tiers, local, cands) ELSE {},
                  IF role.latencyFirst THEN First(tiers, per, latency, "warm-first") ELSE {},
                  First(tiers, per, cands, "rank")>>
        pick == FirstOf(ways)
    IN  IF pick = {} THEN NoPick ELSE CHOOSE p \in pick : TRUE

----------------------------------------------------------------------------
(* Why no node *)

\* The code of the first reason that applies; "none": the node could serve.
FirstReason(reasons) == reasons[Least({i \in DOMAIN reasons : reasons[i][1]})][2]
Refusal(n, t, ctx) ==
    LET need == NeedGib(t.model, ctx, n)
        budget == IF StandbySwitch(n, t.model) THEN StandbyBudgetGib(n) ELSE BudgetGib(n)
    IN  FirstReason(<<
          <<n.state = "offline",                                           "node_offline">>,
          <<n.draining,                                                    "node_draining">>,
          <<n.state = "busy" /\ ~t.busyOk,                                 "gpu_busy">>,
          <<~WouldAllow(n),                                                "node_failing">>,
          <<WarmEnough(n, t.model, ctx),                                   "none">>,
          <<n.pressure \/ (ReleasesServerFor(n, t.model) /\ n.blocked),    "memory_pressure">>,
          <<ReleasesServerFor(n, t.model) \/ need <= budget,               "none">>,
          <<n.total # 0 /\ need > n.total - Reserve["free"],               "model_too_large">>,
          <<ForeignGib(n) > 0 /\ need <= budget + ForeignGib(n),           "gpu_busy">>,
          <<TRUE,                                                          "vram_full">> >>)

\* blockers: per local tier and node, also that an attempt has been made.
Blockers(world, tiers, clientCtx, exclude) ==
    LET at(i, n) == Refusal(n, tiers[i], Context(tiers[i], clientCtx))
        of(i) == {n \in world.nodes : /\ ~tiers[i].cloud /\ Offers(n, tiers[i].model)
                                      /\ at(i, n) = "none" => n.name \in exclude}
    IN  UNION {{[tier |-> i, node |-> n.name,
                 code |-> IF at(i, n) = "none" THEN "attempt_failed" ELSE at(i, n)] : n \in of(i)} :
                  i \in DOMAIN tiers}

Precedence == <<"attempt_failed", "node_draining", "node_failing", "memory_pressure", "vram_full",
                "model_too_large", "node_offline">>
Unavailable(world, tiers, clientCtx, exclude) ==
    LET codes == {b.code : b \in Blockers(world, tiers, clientCtx, exclude)}
        offered == \E i \in DOMAIN tiers, n \in world.nodes : Offers(n, tiers[i].model)
    IN  CASE codes = {} -> IF offered THEN "no_node" ELSE "model_missing"
          [] "gpu_busy" \in codes -> "gpu_busy"
          [] OTHER -> Precedence[Least({i \in DOMAIN Precedence : Precedence[i] \in codes})]
\* The codes that come with a Retry-After: for the others waiting does not help.
Retried == {"gpu_busy", "node_draining", "node_failing", "vram_full", "attempt_failed", "node_offline",
            "memory_pressure"}

\* Could a node online serve the role if it were not busy?
PossibleWhenFree(world, tiers) ==
    \E i \in DOMAIN tiers :
        IF tiers[i].cloud THEN world.targets # {}
        ELSE \E n \in world.nodes :
                /\ n.state # "offline" /\ Offers(n, tiers[i].model)
                /\ n.total = 0 \/ NeedGib(tiers[i].model, tiers[i].ctx, n) <= n.total - Reserve["free"]

----------------------------------------------------------------------------
(* upstream_window_check *)

\* The order that the window gives a node whose server shares the card with a standby.
WindowOrder(n, inside, serverIdle, standbyIdle) ==
    LET held == n.report = "held" \/ n.standbyServes
        empty == n.state = "free" /\ DOMAIN n.loaded = {} /\ n.claim = 0 /\ ~n.prewarmed
    IN  FirstReason(<<
          <<n.state = "offline" \/ n.inflight # 0 \/ ~(n.openai /\ n.switchable),      "none">>,
          <<inside /\ n.state = "free" /\ held /\ ~n.blocked /\ standbyIdle,           "release">>,
          <<inside,                                                                    "none">>,
          <<n.standbyServes,                                  IF empty THEN "prewarm" ELSE "none">>,
          <<n.order = "hold" \/ n.report # "answering" \/ ~serverIdle,                 "none">>,
          <<TRUE,                                                                      "hold">> >>)

\* The agent carries an order out; a starting server gets ready, a held one has its standby.
Obeyed(n, o) ==
    CASE o = "hold" -> [n EXCEPT !.standbyServes = TRUE, !.report = "held", !.order = o,
                                 !.loaded = NoneLoaded, !.prewarmed = FALSE]
      [] o = "release" -> [n EXCEPT !.standbyServes = FALSE, !.report = "starting", !.order = o,
                                    !.loaded = NoneLoaded, !.prewarmed = FALSE]
      [] o = "prewarm" -> [n EXCEPT !.prewarmed = TRUE]
      [] OTHER -> IF n.report = "starting" THEN [n EXCEPT !.report = "answering"]
                  ELSE [n EXCEPT !.standbyServes = (n.report = "held")]

----------------------------------------------------------------------------
(* Assumptions *)

\* A node with nothing else on its card and nothing against it.
Relieved(n) == [n EXCEPT !.state = "free", !.draining = FALSE, !.breaker = "closed", !.pressure = FALSE,
                         !.blocked = FALSE, !.used = 0, !.loaded = NoneLoaded, !.claim = 0,
                         !.policy = Unknown, !.spec = 0, !.learned = Unknown]
Tiers == {lists[i] : lists \in TierLists, i \in {1, 2}}

\* A client that gets no node is told why: a node is refused a reason exactly when the
\* selection, which asks in another order, would not choose it.
ASSUME RefusalsAreTrue ==
    \A n \in Cards, t \in {t \in Tiers : ~t.cloud}, ctx \in {0, 4} :
        Offers(n, t.model) =>
            (Refusal(n, t, Context(t, ctx)) = "none" <=> Serves(n, t, Context(t, ctx)))

\* "GPU busy" on a free node is the fault of foreign memory: once it is given back, the
\* tier fits - whatever the baseline, a load that is under way or a standby says.
ASSUME GameOverHelps ==
    \A n \in Cards, t \in {t \in Tiers : ~t.cloud} :
        Offers(n, t.model) /\ n.state = "free" /\ n.claim = 0 /\ Refusal(n, t, t.ctx) = "gpu_busy"
            => Refusal([n EXCEPT !.used = @ - ForeignGib(n)], t, t.ctx) = "none"

\* The models Ollama holds itself make way: what it may occupy, and what counts as foreign,
\* does not depend on them, although /api/ps names too little for some.
ASSUME OwnModelsMakeWay ==
    \A n \in Cards : n.claim = 0 /\ n.used >= OllamaGib(n) =>
        LET empty == [n EXCEPT !.loaded = NoneLoaded, !.used = @ - OllamaGib(n)]
        IN  BudgetGib(empty) = BudgetGib(n) /\ ForeignGib(empty) = ForeignGib(n)

\* A request gets a node whenever a tier it may use has one; a cloud tier only where no
\* tier before it has a local node - unless it is the canary's, or the client prefers what that
\* tier lacks.
ASSUME ChosenServes ==
    \A world \in Worlds, role \in [latencyFirst : BOOLEAN], tiers \in TierLists, req \in Asked :
        LET pick == Choose(world, role, tiers, req, {})
            open == {i \in DOMAIN tiers : ~TierBlocked(tiers[i], req)}
            cands(i) == {c.name : c \in CandidatesFor(world, tiers[i], req.ctx, {})}
        IN  /\ pick = NoPick <=> \A i \in open : cands(i) = {}
            /\ pick # NoPick => pick.tier \in open /\ pick.node \in cands(pick.tier)
            /\ pick # NoPick /\ tiers[pick.tier].cloud /\ pick.why # "canary" =>
                  \A i \in open : ~tiers[i].cloud /\ i < pick.tier /\ cands(i) # {} =>
                      Lacking[tiers[i].model] \cap req.prefer # {}

\* A voice command never waits behind a running request on a warm node while a local tier
\* could serve it at once (unless its session is at home on that node).
ASSUME VoiceGoesOn ==
    \A world \in Worlds, tiers \in TierLists, req \in {r \in Asked : r.interactive /\ r.prefer = {}} :
        LET pick == Choose(world, [latencyFirst |-> TRUE], tiers, req, {})
            at(i) == CandidatesFor(world, tiers[i], req.ctx, {})
            local == {i \in DOMAIN tiers : ~tiers[i].cloud /\ ~TierBlocked(tiers[i], req)}
            waits == \E n \in at(pick.tier) : n.name = pick.node /\ IsLoaded(n, tiers[pick.tier].model)
                                              /\ Full(n, tiers[pick.tier].model)
        IN  pick.why \notin {"none", "canary", "affinity"} /\ waits
                => \A i \in local : \A n \in at(i) : Full(n, tiers[i].model)

\* A refusal without Retry-After is final: no node that is online would serve a tier of
\* the role with its card empty. The reason is one of a node; a role on which only other
\* programs are in the way is not reported as one that no node can carry.
ASSUME RefusalsAreFinal ==
    \A world \in Worlds, tiers \in TierLists :
        LET code == Unavailable(world, tiers, 0, {})
            online == {n \in world.nodes : n.state # "offline"}
            serves(n, i) == ~tiers[i].cloud /\ Serves(Relieved(n), tiers[i], tiers[i].ctx)
        IN  /\ Choose(world, [latencyFirst |-> TRUE], tiers, AnyRequest, {}) = NoPick =>
                  /\ code # "no_node"
                  /\ code \notin Retried => \A n \in online, i \in DOMAIN tiers : ~serves(n, i)
            /\ PossibleWhenFree(world, SelectSeq(tiers, LAMBDA t : ~t.cloud))
                  <=> \E n \in online, i \in DOMAIN tiers :
                         serves(n, i) /\ ~ReleasesServerFor(n, tiers[i].model)

\* With the default weights a loaded model with a free slot wins over an idle node that
\* would have to load it, however bad its record is.
ASSUME WarmWins ==
    \A w \in Worn, c \in Worn :
        LET cold == [c EXCEPT !.loaded = NoneLoaded, !.inflight = 0, !.running = [m \in DOMAIN @ |-> 0]]
        IN  IsLoaded(w, "small") /\ ~Full(w, "small") => Score(w, "small") > Score(cold, "small")

\* The learned baseline stays within what the hours without a game have shown, as long as
\* they are the majority of the hours it knows.
ASSUME GamesAreNotLearned ==
    \A samples \in [1..5 -> [later : {0, 1}, gib : {2, 3, 9}]] :
        LET after[i \in 0..5] ==
                IF i = 0 THEN [h \in {} |-> 0]
                ELSE LET h == after[i - 1]
                     IN  Learn(h, Max(DOMAIN h \cup {0}) + samples[i].later, samples[i].gib, 3)
            hours == after[5]
            clean == {h \in DOMAIN hours : hours[h].sum <= 3 * hours[h].n}
        IN  2 * Cardinality(clean) > Cardinality(DOMAIN hours) => LearnedTwice(hours) \in 4..6

\* The window brings an idle server and its standby to the side it wants and then leaves
\* them alone, if the agent gets its orders: it does not order to and fro, and fills an
\* empty standby once. (An order that is lost stays the last one the router knows.)
ASSUME WindowSettles ==
    \A n \in {c \in Cards : /\ c.openai /\ c.switchable /\ c.state = "free" /\ c.inflight = 0 /\ ~c.blocked
                            /\ c.order = "hold" => c.standbyServes},
       inside \in BOOLEAN :
        LET next(m) == Obeyed(m, WindowOrder(m, inside, TRUE, TRUE))
            end == next(next(next(next(n))))
        IN  /\ WindowOrder(end, inside, TRUE, TRUE) = "none" /\ end.standbyServes = ~inside
            /\ end.report = IF inside THEN "answering" ELSE "held"
=============================================================================
