----------------------------- MODULE NodeState -----------------------------
(* What the router believes of one Ollama node, and what it does to its card:      *)
(* skirnir_router/poll.py and the accounting of nodes.py.                          *)
(*                                                                                 *)
(* The card is shared with games. Three reports come from different clocks: the    *)
(* models Ollama has loaded (a poll or a push), the memory in use (a heartbeat),   *)
(* and the game the agent sees (the same heartbeat). evaluate() turns them, with   *)
(* hold windows, into free or busy; prewarm tasks load the rank-1 model into a     *)
(* free node, unload tasks clear a busy one. A load that the router starts, and    *)
(* memory that is still being given back, must not be taken for a game.            *)
(*                                                                                 *)
(* The unit of time is one poll interval. In each unit the router gets at most one *)
(* report of each kind, in any order with everything else; a unit ends without one *)
(* only if it was lost.                                                            *)
EXTENDS Integers

CONSTANTS
    Games,            \* what may run on the machine: records [vram, util, fact]
    Quiet,            \* the one that is nothing
    Size,             \* memory of a model, all the same
    Total,            \* memory of the card without reserve and baseline
    ForeignMin,       \* modes.busy_enter.or_foreign_vram_gib
    UtilNeeds,        \* modes.busy_enter.util_requires_foreign_gib
    Sustain,          \* sustain_s
    ForeignSustain,   \* foreign_sustain_s
    GameSustain,      \* game_sustain_s
    BusyExit,         \* busy_exit.below_for_s
    GameExit,         \* busy_exit.game_quiet_s
    Settle,           \* vram_settle_s
    Stale,            \* heartbeat_stale_s
    Rest,             \* residency_idle_s, residency_check_s and free_delay_s
    Tasks,            \* prewarm tasks at a time
    MaxEvents         \* bound: changes on the machine, faults and requests

ASSUME WindowsAssumption ==
    /\ {Size, Total, ForeignMin, UtilNeeds} \subseteq Nat \ {0}
    /\ {Sustain, ForeignSustain, GameSustain, BusyExit, GameExit, Settle, Stale, Rest} \subseteq Nat \ {0}
    /\ MaxEvents \in Nat
    /\ \A g \in Games : /\ g.vram \in Nat /\ g.util \in {"low", "mid", "high"}
                        /\ g.fact \in {"none", "light", "heavy"}
    /\ Quiet \in Games /\ Quiet = [vram |-> 0, util |-> "low", fact |-> "none"]
\* A card has no room for a second model beside one and a game; load has to be seen for
\* longer than one report is believed. (Otherwise one report in the midst of a swap counts.)
ASSUME MarginsAssumption == Total < Size + ForeignMin /\ Stale <= Sustain

VARIABLES
    game,       \* what runs beside Ollama
    card,       \* the model Ollama has loaded: "none", "rank1", "other"
    filling,    \* the model that is being loaded, memory in use but not yet in /api/ps
    leaving,    \* memory of an unloaded model that nvidia-smi still shows
    tight,      \* RAM is short
    node,       \* the Node object of the router
    request,    \* a request on the node: "none", "load", "run"
    model, cold,       \* ... the model it uses, and that it announced its load
    fetch,      \* the poll that a cold request spawns at its end
    prewarm,    \* per task [pc, fresh]; fresh: free_at is still the one it was planned for
    unload,     \* an unload_big_models task waits to run
    polled, beaten,    \* this unit has had its poll, its heartbeat
    events,
    played,     \* history: units since a game (capped)
    own         \* history: units since a load of the router's own was under way (capped)

machine == <<game, card, filling, leaving, tight>>
clocks == <<polled, beaten>>
requests == <<request, model, cold, fetch>>
history == <<played, own>>
vars == <<machine, node, requests, prewarm, unload, clocks, events, history>>

Models == {"rank1", "other"}
Unset == -1                           \* a window that has not begun
MaxOf(a, b) == IF a > b THEN a ELSE b
MinOf(a, b) == IF a < b THEN a ELSE b
Longest == MaxOf(MaxOf(MaxOf(Sustain, ForeignSustain), MaxOf(GameSustain, BusyExit)), MaxOf(GameExit, Rest))
Ages == Unset..Longest
Older(a) == IF a = Unset \/ a = Longest THEN a ELSE a + 1
Began(a) == IF a = Unset THEN 0 ELSE a

Nodes ==
    [state : {"offline", "free", "busy"}, reason : {"none", "game", "util", "foreign"},
     hot : Ages, foreign : Ages, calm : Ages, playing : Ages, heavy : BOOLEAN,
     fact : {"none", "light", "heavy"}, low : BOOLEAN, catchUp : BOOLEAN,
     known : 0..Stale, util : {"low", "mid", "high"}, used : 0..Total,
     loaded : Models \cup {"none"}, claim : SUBSET Models, late : SUBSET Models, frozen : 0..Total,
     hold : 0..Settle, rest : 0..Rest, asked : BOOLEAN]
TaskStates == [pc : {"none", "delay", "look", "load", "poll"}, fresh : BOOLEAN]
NewNode == [state |-> "offline", reason |-> "none", hot |-> Unset, foreign |-> Unset, calm |-> Unset,
            playing |-> Unset, heavy |-> FALSE, fact |-> "none", low |-> FALSE, catchUp |-> FALSE,
            known |-> 0, util |-> "low", used |-> 0, loaded |-> "none",
            claim |-> {}, late |-> {}, frozen |-> 0, hold |-> 0, rest |-> 0, asked |-> FALSE]

TypeOK ==
    /\ game \in Games /\ card \in Models \cup {"none"} /\ filling \in Models \cup {"none"}
    /\ leaving \in BOOLEAN /\ tight \in BOOLEAN
    /\ node \in Nodes
    /\ request \in {"none", "load", "run"} /\ model \in Models /\ cold \in BOOLEAN /\ fetch \in BOOLEAN
    /\ prewarm \in [Tasks -> TaskStates]
    /\ unload \in BOOLEAN /\ polled \in BOOLEAN /\ beaten \in BOOLEAN
    /\ events \in 0..MaxEvents /\ played \in 0..Stale /\ own \in 0..Settle

Init ==
    /\ game = Quiet /\ card = "none" /\ filling = "none" /\ leaving = FALSE /\ tight = FALSE
    /\ node = NewNode /\ request = "none" /\ model = "rank1" /\ cold = FALSE /\ fetch = FALSE
    /\ prewarm = [t \in Tasks |-> [pc |-> "none", fresh |-> FALSE]]
    /\ unload = FALSE /\ polled = FALSE /\ beaten = FALSE /\ events = 0
    /\ played = Stale /\ own = Settle

----------------------------------------------------------------------------
(* The accounting *)

\* Memory nvidia-smi shows: whoever holds it, up to what the card has.
Held(m) == IF m = "none" THEN 0 ELSE Size
InUse == MinOf(Total, game.vram + Held(card) + Held(filling) + IF leaving THEN Size ELSE 0)

\* ollama_vram_claimed_gib: the loaded model, a load the router has announced, the
\* tail of one that went.
Live(n) == n.claim \ n.late            \* load_claim_gib: a claim counts up to its deadline
Claimed(n) == IF n.loaded # "none" \/ Live(n) # {} \/ n.hold > 0 THEN Size ELSE 0
Raw(n) == MaxOf(0, n.used - Claimed(n))
\* foreign_vram_gib: during a load at least what was foreign before it.
Foreign(n) == IF Live(n) # {} THEN MaxOf(Raw(n), n.frozen) ELSE Raw(n)

\* Mutant: a load is announced without a claim.
AnnounceLoadSilent(n, m) == n
AnnounceLoad(n, m) ==
    [n EXCEPT !.frozen = IF n.claim = {} THEN Foreign(n) ELSE @, !.claim = @ \cup {m}, !.late = @ \ {m}]
\* Mutant: the claim of a load ends only when /api/ps names the model.
FinishLoadSeen(n, m) ==
    IF m \in n.claim /\ n.loaded = m THEN [n EXCEPT !.claim = @ \ {m}, !.hold = Settle] ELSE n
FinishLoad(n, m) ==
    IF m \in n.claim
    THEN [n EXCEPT !.claim = @ \ {m}, !.late = @ \ {m}, !.hold = Settle,
                   !.frozen = IF n.claim = {m} THEN 0 ELSE @]
    ELSE n
\* note_loaded_changed: less than at the last report begins the tail; a load that
\* /api/ps confirms is finished.
NoteLoaded(n, m) ==
    LET went == n.loaded # "none" /\ m = "none"
    IN  FinishLoad([n EXCEPT !.loaded = m, !.hold = IF went THEN Settle ELSE @], m)

----------------------------------------------------------------------------
(* evaluate *)

Known(n) == n.known > 0                                   \* gpu_known
NeedsGpu(n) == n.fact = "heavy" \/ n.low                  \* game_needs_gpu
Blocks(n) == n.playing # Unset /\ (n.heavy \/ n.playing < GameSustain)    \* game_blocks_prewarm

\* The three windows after another look; requests of the router explain the load.
Windows(n) ==
    [n EXCEPT
        !.hot = IF Known(n) /\ n.util = "high" /\ request = "none" /\ Foreign(n) >= UtilNeeds
                THEN Began(@) ELSE Unset,
        !.foreign = IF Known(n) /\ Foreign(n) >= ForeignMin THEN Began(@) ELSE Unset,
        !.heavy = @ \/ (n.playing # Unset /\ NeedsGpu(n))]

Keep(n) == n.state = "busy" /\ Known(n) /\ n.util # "low" /\ Foreign(n) >= UtilNeeds
GameCounts(n) == n.playing # Unset /\ n.heavy /\ (n.state = "busy" \/ n.playing >= GameSustain)
HotLong(n) == n.hot >= Sustain
ForeignLong(n) == n.foreign >= ForeignSustain
Trigger(n) == HotLong(n) \/ ForeignLong(n) \/ Keep(n) \/ GameCounts(n)
QuietFor(n) == IF n.reason = "game" THEN MaxOf(BusyExit, GameExit) ELSE BusyExit

Busy(n) ==
    IF n.state = "free"
    THEN [n EXCEPT !.state = "busy", !.calm = Unset, !.catchUp = FALSE,
                   !.reason = IF GameCounts(n) THEN "game" ELSE IF HotLong(n) THEN "util" ELSE "foreign"]
    ELSE [n EXCEPT !.calm = Unset, !.reason = IF GameCounts(n) THEN "game" ELSE @]
Calm(n) ==
    IF n.state # "busy" THEN n
    ELSE IF Began(n.calm) >= QuietFor(n)
         THEN [n EXCEPT !.state = "free", !.calm = Unset, !.reason = "none"]
         ELSE [n EXCEPT !.calm = Began(@)]
Turned(w) == IF Trigger(w) THEN Busy(w) ELSE Calm(w)

\* The prewarm that a game prevented is made up for.
\* Mutant: only by a node that has the model already.
CatchesUpLoaded(n) == n.state = "free" /\ n.catchUp /\ ~n.low /\ ~Blocks(n) /\ n.loaded = "rank1"
CatchesUp(n) == n.state = "free" /\ n.catchUp /\ ~n.low /\ ~Blocks(n)

\* spawn(prewarm(...)): `fresh` while free_at is the one it was planned for.
Spawn(tasks, pc) ==
    LET idle == {t \in Tasks : tasks[t].pc = "none"}
    IN  IF idle = {} THEN tasks                                  \* bound
        ELSE [tasks EXCEPT ![CHOOSE t \in idle : TRUE] = [pc |-> pc, fresh |-> pc = "delay"]]
Outdated(tasks) == [t \in Tasks |-> [tasks[t] EXCEPT !.fresh = FALSE]]

\* busy_unload_check: a model in a busy node, at most once in a unit.
\* Mutant: a busy node is asked to unload only as it turns busy.
BigNever(n) == FALSE
Big(n) == n.state = "busy" /\ n.loaded # "none" /\ ~n.asked

\* residency_check: another model has stood in a free node for long, unused.
RestIsOver(n) ==
    /\ n.state = "free" /\ request = "none" /\ n.claim = {} /\ Known(n)
    /\ n.loaded # "none" /\ n.rest = Rest
\* Mutant: what stands in the card counts as in use.
DisplacedUnused(n) == RestIsOver(n) /\ n.loaded = "none"
Displaced(n) == RestIsOver(n) /\ n.loaded = "other"

\* evaluate(n) with what it spawns, after it the checks of the caller; `wants`: the
\* caller unloads a busy node anyway.
Evaluate(n0, tasks, checks, ticks, wants) ==
    \E n \in {n0} : \E w \in {Windows(n)} : \E t \in {IF n.state = "offline" THEN n ELSE Turned(w)} :
        LET freed == n.state = "busy" /\ t.state = "free"
            planned == IF freed THEN Spawn(Outdated(tasks), "delay") ELSE tasks
            caughtUp == IF CatchesUp(t) THEN Spawn(planned, "delay") ELSE planned
            big == checks /\ Big(t)
        IN  /\ node' = [t EXCEPT !.catchUp = @ /\ ~CatchesUp(t), !.asked = @ \/ big,
                                 !.rest = IF ticks /\ (t.state # "free" \/ RestIsOver(t)) THEN 0 ELSE @]
            /\ prewarm' = IF ticks /\ Displaced(t) THEN Spawn(caughtUp, "look") ELSE caughtUp
            /\ unload' = (unload \/ big \/ (n.state = "free" /\ t.state = "busy") \/ (wants /\ t.state = "busy"))

----------------------------------------------------------------------------
(* Reports *)

\* apply_ollama_state with what /api/ps shows; a node that was offline is free.
AdoptState(tasks, wants) ==
    LET online == node.state = "offline"
        n == IF online THEN [node EXCEPT !.state = "free", !.reason = "none", !.calm = Unset] ELSE node
    IN  Evaluate(NoteLoaded(n, card), IF online THEN Spawn(Outdated(tasks), "delay") ELSE tasks,
                 TRUE, FALSE, wants)

\* poll_node, or an OLLAMA frame of the agent.
Poll ==
    /\ ~polled /\ polled' = TRUE
    /\ AdoptState(prewarm, FALSE)
    /\ UNCHANGED <<machine, requests, beaten, events, history>>

Event == events < MaxEvents /\ events' = events + 1

\* go_offline: the poll failed too often, the agent says Ollama does not answer, the
\* tunnel is gone, the machine goes to sleep. What ran on it fails.
GoOffline ==
    /\ Event /\ ~polled /\ polled' = TRUE
    /\ node' = [node EXCEPT !.state = "offline", !.hot = Unset, !.calm = Unset, !.catchUp = FALSE,
                            !.loaded = "none", !.claim = {}, !.late = {}, !.frozen = 0, !.hold = 0]
    /\ request' = "none" /\ model' = "rank1" /\ cold' = FALSE /\ fetch' = (fetch \/ cold)
    /\ filling' = "none" /\ own' = Settle
    /\ prewarm' = [t \in Tasks |-> IF prewarm[t].pc = "load" THEN [prewarm[t] EXCEPT !.pc = "poll"] ELSE prewarm[t]]
    /\ UNCHANGED <<game, card, leaving, tight, unload, beaten, played>>

\* A report is lost: nothing in this unit.
Lost ==
    /\ Event
    /\ \/ ~polled /\ polled' = TRUE /\ UNCHANGED beaten
       \/ ~beaten /\ beaten' = TRUE /\ UNCHANGED polled
    /\ UNCHANGED <<machine, node, requests, prewarm, unload, history>>

\* The poll after a cold request; it may fail like any other.
ColdPoll ==
    /\ fetch /\ fetch' = FALSE
    /\ \/ AdoptState(prewarm, FALSE) /\ UNCHANGED events
       \/ Event /\ UNCHANGED <<node, prewarm, unload>>
    /\ UNCHANGED <<machine, request, model, cold, clocks, history>>

\* apply_heartbeat, note_game_memory.
Beat ==
    /\ ~beaten /\ beaten' = TRUE
    /\ LET plays == game.fact # "none"
       IN  Evaluate(
               [node EXCEPT !.known = Stale, !.used = InUse,
                            !.util = IF request = "run" THEN "high" ELSE game.util,
                            !.fact = game.fact, !.low = tight,
                            !.playing = IF plays THEN Began(@) ELSE Unset,
                            !.heavy = @ /\ plays], prewarm, FALSE, FALSE, FALSE)
    /\ UNCHANGED <<machine, requests, polled, events, history>>

\* A load that the router has announced and waits for.
OwnLoad(m) == \/ request # "none" /\ cold /\ model = m
              \/ m = "rank1" /\ \E t \in Tasks : prewarm[t].pc = "load"
LoadingOwn == \E m \in Models : OwnLoad(m)
\* `loading` has one claim for a model: two users of the model share it, and it ends with
\* the first. Such a load does not count as the router's own.
Announced(m) ==
    IF OwnLoad(m) \/ (request # "none" /\ model = m) THEN Settle ELSE IF LoadingOwn THEN own ELSE 0

\* A load takes longer than the deadline of its claim.
ClaimLapses ==
    /\ Event /\ own' = Settle
    /\ \E m \in Live(node) : node' = [node EXCEPT !.late = @ \cup {m}]
    /\ UNCHANGED <<machine, requests, prewarm, unload, clocks, played>>

\* A unit ends; tick_loop.
Tick ==
    /\ polled /\ beaten /\ polled' = FALSE /\ beaten' = FALSE
    /\ leaving' = FALSE
    /\ played' = IF game # Quiet THEN 0 ELSE IF played = Stale THEN played ELSE played + 1
    /\ own' = IF LoadingOwn \/ own = Settle THEN own ELSE own + 1
    /\ LET older == [node EXCEPT !.hot = Older(@), !.foreign = Older(@), !.calm = Older(@),
                                 !.playing = Older(@), !.asked = FALSE,
                                 !.known = IF @ = 0 THEN 0 ELSE @ - 1,
                                 !.hold = IF @ = 0 THEN 0 ELSE @ - 1,
                                 !.rest = IF @ = Rest THEN @ ELSE @ + 1]
       IN  Evaluate(older, prewarm, TRUE, TRUE, FALSE)
    /\ UNCHANGED <<game, card, filling, tight, requests, events>>

----------------------------------------------------------------------------
(* The machine *)

Plays ==
    /\ Event /\ game' \in Games \ {game}
    /\ played' = 0
    /\ UNCHANGED <<card, filling, leaving, tight, node, requests, prewarm, unload, clocks, own>>

RamChanges ==
    /\ Event /\ tight' = ~tight
    /\ UNCHANGED <<game, card, filling, leaving, node, requests, prewarm, unload, clocks, history>>

\* Another client of Ollama loads a model, in less than a unit, or one runs out of
\* its keep_alive.
InUseNow == (request # "none" /\ model = card) \/ (card = "rank1" /\ \E t \in Tasks : prewarm[t].pc = "load")
OtherClient(m) ==
    /\ Event /\ filling = "none" /\ card # m /\ ~InUseNow
    /\ card' = m /\ leaving' = (leaving \/ card # "none")
    /\ UNCHANGED <<game, filling, tight, node, requests, prewarm, unload, clocks, history>>
KeepAliveEnds ==
    /\ Event /\ card # "none" /\ card' = "none" /\ leaving' = TRUE /\ ~InUseNow
    /\ UNCHANGED <<game, filling, tight, node, requests, prewarm, unload, clocks, history>>

\* Ollama begins with the load it was asked for.
Fill(m) ==
    /\ filling = "none" /\ card # m /\ ~InUseNow
    /\ \/ request = "load" /\ model = m
       \/ m = "rank1" /\ \E t \in Tasks : prewarm[t].pc = "load"
    /\ filling' = m /\ card' = "none"
    /\ leaving' = (leaving \/ card # "none")
    /\ UNCHANGED <<game, tight, node, requests, prewarm, unload, clocks, events, history>>
Filled ==
    /\ filling # "none" /\ filling' = "none" /\ card' = filling
    /\ UNCHANGED <<game, leaving, tight, node, requests, prewarm, unload, clocks, events, history>>

----------------------------------------------------------------------------
(* Requests *)

\* _Relay._begin on this node; a cold load needs room in RAM.
Begin(m) ==
    /\ Event /\ request = "none" /\ node.state = "free"
    /\ node.loaded = m \/ ~node.low
    /\ model' = m /\ request' = IF card = m THEN "run" ELSE "load"
    /\ cold' = (node.loaded # m)
    /\ IF node.loaded = m THEN UNCHANGED <<node, own>>
       ELSE node' = AnnounceLoad(node, m) /\ own' = Announced(m)
    /\ UNCHANGED <<machine, fetch, prewarm, unload, clocks, played>>
Runs ==
    /\ request = "load" /\ card = model /\ request' = "run"
    /\ UNCHANGED <<machine, node, model, cold, fetch, prewarm, unload, clocks, events, history>>
\* Ollama gives up a load nobody waits for.
Abort(m) ==
    IF filling = m THEN filling' = "none" /\ leaving' = TRUE ELSE UNCHANGED <<filling, leaving>>

\* _Relay._finish, after its answer or an error.
Finish ==
    /\ request # "none" /\ request' = "none" /\ model' = "rank1"
    /\ cold' = FALSE /\ fetch' = (fetch \/ cold)
    /\ node' = [FinishLoad(node, model) EXCEPT !.rest = 0]
    /\ Abort(IF \E t \in Tasks : prewarm[t].pc = "load" THEN "other" ELSE model)
    /\ UNCHANGED <<game, card, tight, prewarm, unload, clocks, events, history>>

----------------------------------------------------------------------------
(* Tasks *)

At(t, pc) == prewarm[t].pc = pc
Goes(t, pc) == prewarm' = [prewarm EXCEPT ![t] = [pc |-> pc, fresh |-> FALSE]]

StillFree(t) == prewarm[t].fresh /\ node.state = "free"
Wake(t) ==
    /\ At(t, "delay") /\ Goes(t, IF StillFree(t) THEN "look" ELSE "none")
    /\ UNCHANGED <<machine, node, requests, unload, clocks, events, history>>

\* A heartbeat has judged, or the wait for it is over; then the decision to the
\* announcement of the load.
Room(n) == Size <= Total - Foreign(n)
Decide(t) ==
    /\ At(t, "look")
    /\ IF node.state # "free" \/ node.foreign # Unset THEN Goes(t, "none") /\ UNCHANGED <<node, own>>
       ELSE IF node.low \/ Blocks(node)
            THEN Goes(t, "none") /\ node' = [node EXCEPT !.catchUp = @ \/ Blocks(node)] /\ UNCHANGED own
            ELSE IF node.loaded # "rank1" /\ Room(node)
                 THEN Goes(t, "load") /\ node' = AnnounceLoad(node, "rank1") /\ own' = Announced("rank1")
                 ELSE Goes(t, "poll") /\ UNCHANGED <<node, own>>
    /\ UNCHANGED <<machine, requests, unload, clocks, events, played>>

\* The answer of /api/generate, or an error.
LoadEnds(t) ==
    /\ At(t, "load")
    /\ IF card = "rank1" THEN UNCHANGED <<events, filling, leaving>>
       ELSE Event /\ IF request = "load" THEN UNCHANGED <<filling, leaving>> ELSE Abort("rank1")
    /\ Goes(t, "poll") /\ node' = FinishLoad(node, "rank1")
    /\ UNCHANGED <<game, card, tight, requests, unload, clocks, history>>

\* The poll after a prewarm, which may fail; what came into a busy node goes again.
PollAfter(t) ==
    /\ At(t, "poll")
    /\ \/ AdoptState([prewarm EXCEPT ![t] = [pc |-> "none", fresh |-> FALSE]], TRUE) /\ UNCHANGED events
       \/ Event /\ Goes(t, "none") /\ unload' = (unload \/ node.state = "busy") /\ UNCHANGED node
    /\ UNCHANGED <<machine, requests, clocks, history>>

\* unload_big_models: not a model in use. The request to Ollama may fail.
Unload ==
    /\ unload /\ unload' = FALSE
    /\ IF node.loaded # "none" /\ node.loaded = card /\ (request = "none" \/ model # card)
       THEN \/ /\ card' = "none" /\ leaving' = TRUE
               /\ own' = IF OwnLoad(card) THEN Settle ELSE own
               /\ UNCHANGED events
            \/ Event /\ UNCHANGED <<card, leaving, own>>
       ELSE UNCHANGED <<card, leaving, events, own>>
    /\ UNCHANGED <<game, filling, tight, node, requests, prewarm, clocks, played>>

----------------------------------------------------------------------------
Next ==
    \/ Poll \/ GoOffline \/ Lost \/ ColdPoll \/ Beat \/ ClaimLapses \/ Tick
    \/ Plays \/ RamChanges \/ KeepAliveEnds \/ Filled
    \/ \E m \in Models : OtherClient(m) \/ Fill(m) \/ Begin(m)
    \/ Runs \/ Finish \/ Unload
    \/ \E t \in Tasks : Wake(t) \/ Decide(t) \/ LoadEnds(t) \/ PollAfter(t)

\* The loops go on, Ollama loads what it was asked for, requests end.
Fairness ==
    /\ WF_vars(Poll) /\ WF_vars(Beat) /\ WF_vars(Tick) /\ WF_vars(Unload)
    /\ WF_vars(Filled) /\ WF_vars(\E m \in Models : Fill(m)) /\ WF_vars(Runs) /\ WF_vars(Finish)
    /\ \A t \in Tasks : WF_vars(Wake(t)) /\ WF_vars(Decide(t)) /\ WF_vars(LoadEnds(t)) /\ WF_vars(PollAfter(t))

Spec == Init /\ [][Next]_vars
FairSpec == Spec /\ Fairness

----------------------------------------------------------------------------
(* Properties *)

\* The memory of a load that the router has announced, and of its tail, is not taken for a
\* game: in this time the node turns busy only with a game in a report that is still
\* believed, or with foreign memory that stood there as the load was announced.
OwnLoadIsNotForeign ==
    [][node.state = "free" /\ node'.state = "busy" =>
          \/ own' = Settle \/ played' < Stale
          \/ node'.reason = "game" \/ node'.frozen >= ForeignMin]_vars

\* A claim hides memory from the busy detection; none outlives the load it was made for.
ClaimsEnd == \A m \in node.claim : OwnLoad(m)

\* A game that needs the card gets it: no idle model stays beside it.
CardIsGivenUp ==
    (game.fact = "heavy" /\ card # "none")
        ~> (game.fact # "heavy" \/ card = "none" \/ request # "none" \/ node.state = "offline")

\* A prewarm that a game prevented is made up for, when there is RAM.
PrewarmIsCaughtUp == node.catchUp ~> (~node.catchUp \/ node.low)

\* The rank-1 model comes back: another one does not stay in a free node for good.
RankOneReturns ==
    []<>(card # "other" \/ game # Quiet \/ tight \/ node.state # "free")
=============================================================================
