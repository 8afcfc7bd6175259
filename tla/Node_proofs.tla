----------------------------- MODULE Node_proofs -----------------------------
(* Safety of the components that decide who has the card of a node, for every value    *)
(* of their constants: NodeState, with the router, and UpstreamHold, with the agent;   *)
(* and of the choice of a node and the reasons of a refusal, the functions of          *)
(* Placement. (They share this module and no variable.)                                *)
(*                                                                                     *)
(* NodeState: IInv adds to the properties how long load can last in the eyes of a      *)
(* report that is still believed (Reported), and that a load of the router's own is    *)
(* hidden without a gap by a claim, by its model in the card, or by its tail (Covered).*)
(*                                                                                     *)
(* UpstreamHold: HoldInv adds to the properties what holds between two calls of an     *)
(* order (Phase), that only what shows as Running is killed, and that a refusal is     *)
(* known only between orders.                                                          *)
EXTENDS NodeState, UpstreamHold, Placement, FiniteSetTheorems, SequenceTheorems, TLAPS


----------------------------------------------------------------------------
(* Constants, ages, memory *)

LEMMA Numbers ==
    /\ {Size, Total, ForeignMin, UtilNeeds, Sustain, ForeignSustain, GameSustain, BusyExit, GameExit,
        Settle, Stale, Rest} \subseteq Nat \ {0}
    /\ MaxEvents \in Nat /\ Longest \in Nat \ {0}
    /\ Total < Size + ForeignMin /\ Stale <= Sustain
BY WindowsAssumption, MarginsAssumption DEF Longest, MaxOf

LEMMA AgeFacts ==
    /\ Ages \subseteq Int /\ Unset \in Ages /\ 0 \in Ages
    /\ \A a \in Ages : /\ a >= Unset /\ Older(a) \in Ages /\ Began(a) \in Ages
                       /\ (Older(a) = Unset <=> a = Unset) /\ (a # Unset => Older(a) <= a + 1)
                       /\ Began(a) = IF a = Unset THEN 0 ELSE a
                       /\ Began(a) >= 0
BY Numbers DEF Ages, Unset, Older, Began

LEMMA MemoryFacts ==
    ASSUME NEW n \in Nodes
    PROVE  /\ Claimed(n) \in {0, Size} /\ Raw(n) \in 0..Total /\ Foreign(n) \in 0..Total
           /\ (n.loaded # "none" \/ Live(n) # {} \/ n.hold > 0) => Claimed(n) = Size
<1>1. n.used \in 0..Total /\ n.frozen \in 0..Total /\ n.hold \in 0..Settle
  BY DEF Nodes
<1>2. Claimed(n) \in {0, Size}
  BY DEF Claimed
<1>3. Raw(n) \in 0..Total
  BY <1>1, <1>2, Numbers DEF Raw, MaxOf
<1>4. Foreign(n) \in 0..Total
  BY <1>1, <1>3, Numbers DEF Foreign, MaxOf
<1>. QED BY <1>2, <1>3, <1>4 DEF Claimed

LEMMA InUseFacts ==
    ASSUME TypeOK
    PROVE  InUse \in 0..Total
<1>1. game.vram \in Nat /\ Held(card) \in Nat /\ Held(filling) \in Nat
  BY Numbers, WindowsAssumption DEF TypeOK, Held
<1>. QED BY <1>1, Numbers DEF InUse, MinOf

\* What no evaluation changes.
SameMemory(n, w) ==
    /\ w.known = n.known /\ w.util = n.util /\ w.used = n.used /\ w.loaded = n.loaded
    /\ w.claim = n.claim /\ w.late = n.late /\ w.frozen = n.frozen /\ w.hold = n.hold

LEMMA WindowsEffects ==
    ASSUME NEW n \in Nodes
    PROVE  /\ Windows(n) \in Nodes /\ SameMemory(n, Windows(n)) /\ Windows(n).state = n.state
           /\ Windows(n).foreign # Unset => Known(n) /\ Foreign(n) >= ForeignMin
           /\ Windows(n).hot # Unset => /\ Known(n) /\ n.util = "high" /\ request = "none"
                                        /\ Windows(n).hot = Began(n.hot)
<1>. DEFINE hot == IF Known(n) /\ n.util = "high" /\ request = "none" /\ Foreign(n) >= UtilNeeds
                   THEN Began(n.hot) ELSE Unset
            foreign == IF Known(n) /\ Foreign(n) >= ForeignMin THEN Began(n.foreign) ELSE Unset
            heavy == n.heavy \/ (n.playing # Unset /\ NeedsGpu(n))
<1>1. hot \in Ages /\ foreign \in Ages /\ heavy \in BOOLEAN
  BY AgeFacts DEF Nodes
<1>2. Windows(n) = [n EXCEPT !.hot = hot, !.foreign = foreign, !.heavy = heavy]
  BY DEF Windows, Nodes
<1>. HIDE DEF hot, foreign, heavy
<1>3. Windows(n) \in Nodes /\ SameMemory(n, Windows(n)) /\ Windows(n).state = n.state
      /\ Windows(n).hot = hot /\ Windows(n).foreign = foreign
  BY <1>1, <1>2 DEF Nodes, SameMemory
<1>. QED BY <1>3 DEF hot, foreign

\* What a window may do to the state of a node that is online.
LEMMA TurnedEffects ==
    ASSUME NEW n \in Nodes, n.state # "offline"
    PROVE  /\ Turned(n) \in Nodes /\ SameMemory(n, Turned(n)) /\ Turned(n).hot = n.hot
           /\ Turned(n).state # "offline"
           /\ n.state = "free" /\ Turned(n).state = "busy" /\ Turned(n).reason # "game"
                => HotLong(n) \/ ForeignLong(n)
<1>1. n.state \in {"free", "busy"} /\ Unset \in Ages /\ Began(n.calm) \in Ages
  BY AgeFacts DEF Nodes
<1>2. CASE Trigger(n) /\ n.state = "free"
  <2>1. Turned(n) = Busy(n)
    BY <1>2 DEF Turned
  <2>2. PICK r \in {"game", "util", "foreign"} :
           /\ Busy(n) = [n EXCEPT !.state = "busy", !.calm = Unset, !.catchUp = FALSE, !.reason = r]
           /\ r # "game" => ~GameCounts(n)
    BY <1>2 DEF Busy
  <2>3. ~Keep(n)
    BY <1>2 DEF Keep
  <2>4. Busy(n) \in Nodes
    BY <1>1, <2>2 DEF Nodes
  <2>5. /\ SameMemory(n, Busy(n)) /\ Busy(n).hot = n.hot /\ Busy(n).state = "busy"
        /\ Busy(n).reason = "game" \/ ~GameCounts(n)
    BY <2>2 DEF Nodes, SameMemory
  <2>. QED BY <1>2, <2>1, <2>3, <2>4, <2>5 DEF Trigger
<1>3. CASE Trigger(n) /\ n.state = "busy"
  <2>1. PICK r \in {"game", n.reason} : Turned(n) = [n EXCEPT !.calm = Unset, !.reason = r]
    BY <1>3 DEF Turned, Busy
  <2>. QED BY <1>1, <1>3, <2>1 DEF Nodes, SameMemory
<1>4. CASE ~Trigger(n)
  <2>1. Turned(n) = Calm(n)
    BY <1>4 DEF Turned
  <2>2. \/ Calm(n) = n
        \/ Calm(n) = [n EXCEPT !.state = "free", !.calm = Unset, !.reason = "none"]
        \/ n.state = "busy" /\ Calm(n) = [n EXCEPT !.calm = Began(@)]
    BY DEF Calm
  <2>3. Calm(n) \in Nodes
    <3>1. [n EXCEPT !.state = "free", !.calm = Unset, !.reason = "none"] \in Nodes
      BY <1>1 DEF Nodes
    <3>2. [n EXCEPT !.calm = Began(@)] \in Nodes
      BY <1>1 DEF Nodes
    <3>. QED BY <2>2, <3>1, <3>2
  <2>4. /\ SameMemory(n, Calm(n)) /\ Calm(n).hot = n.hot
        /\ Calm(n).state # "offline" /\ (n.state = "free" => Calm(n).state = "free")
    BY <1>1, <2>2 DEF Nodes, SameMemory
  <2>. QED BY <1>1, <2>1, <2>3, <2>4
<1>. QED BY <1>1, <1>2, <1>3, <1>4

SameLoads(tasks, later) == \A t \in Tasks : later[t].pc = "load" <=> tasks[t].pc = "load"

\* A task begins in no load.
LEMMA SpawnEffects ==
    ASSUME NEW tasks \in [Tasks -> TaskStates], NEW pc \in {"delay", "look"}
    PROVE  /\ Spawn(tasks, pc) \in [Tasks -> TaskStates] /\ SameLoads(tasks, Spawn(tasks, pc))
           /\ Outdated(tasks) \in [Tasks -> TaskStates] /\ SameLoads(tasks, Outdated(tasks))
<1>. DEFINE idle == {t \in Tasks : tasks[t].pc = "none"}
            one == CHOOSE t \in idle : TRUE
<1>1. CASE idle = {}
  <2>1. Spawn(tasks, pc) = tasks
    BY <1>1 DEF Spawn
  <2>. QED BY <2>1 DEF SameLoads, Outdated, TaskStates
<1>2. CASE idle # {}
  <2>1. one \in idle
    BY <1>2
  <2>2. Spawn(tasks, pc) = [tasks EXCEPT ![one] = [pc |-> pc, fresh |-> pc = "delay"]]
    BY <1>2 DEF Spawn
  <2>. HIDE DEF one
  <2>3. [pc |-> pc, fresh |-> pc = "delay"] \in TaskStates
    BY DEF TaskStates
  <2>4. Spawn(tasks, pc) \in [Tasks -> TaskStates] /\ SameLoads(tasks, Spawn(tasks, pc))
    BY <2>1, <2>2, <2>3 DEF SameLoads
  <2>. QED BY <2>4 DEF SameLoads, Outdated, TaskStates
<1>. QED BY <1>1, <1>2

\* The node before an evaluation, and what it becomes.
EvaluateTo(n, tasks) ==
    /\ node' \in Nodes /\ SameMemory(n, node')
    /\ prewarm' \in [Tasks -> TaskStates] /\ SameLoads(tasks, prewarm')
    /\ unload' \in BOOLEAN
    /\ n.state = "offline" <=> node'.state = "offline"
    /\ n.state = "offline" => node'.hot = n.hot
    /\ n.state # "offline" /\ node'.hot # Unset =>
          Known(n) /\ n.util = "high" /\ request = "none" /\ node'.hot = Began(n.hot)
    /\ n.state = "free" /\ node'.state = "busy" /\ node'.reason # "game" =>
          node'.hot >= Sustain \/ (Known(n) /\ Foreign(n) >= ForeignMin)

\* What an evaluation may change, and when it turns a node busy without a game.
LEMMA EvaluateEffects ==
    ASSUME NEW n \in Nodes, NEW tasks \in [Tasks -> TaskStates], unload \in BOOLEAN,
           NEW checks \in BOOLEAN, NEW ticks \in BOOLEAN, NEW wants \in BOOLEAN,
           Evaluate(n, tasks, checks, ticks, wants)
    PROVE  EvaluateTo(n, tasks)
<1>. DEFINE t == IF n.state = "offline" THEN n ELSE Turned(Windows(n))
            freed == n.state = "busy" /\ t.state = "free"
            planned == IF freed THEN Spawn(Outdated(tasks), "delay") ELSE tasks
            caughtUp == IF CatchesUp(t) THEN Spawn(planned, "delay") ELSE planned
            big == checks /\ Big(t)
            last == IF ticks /\ Displaced(t) THEN Spawn(caughtUp, "look") ELSE caughtUp
            later == [t EXCEPT !.catchUp = @ /\ ~CatchesUp(t), !.asked = @ \/ big,
                               !.rest = IF ticks /\ (t.state # "free" \/ RestIsOver(t)) THEN 0 ELSE @]
<1>1. /\ node' = later /\ prewarm' = last
      /\ unload' = (unload \/ big \/ (n.state = "free" /\ t.state = "busy") \/ (wants /\ t.state = "busy"))
  <2>. DEFINE Made(m, u) ==
          LET free == m.state = "busy" /\ u.state = "free"
              plan == IF free THEN Spawn(Outdated(tasks), "delay") ELSE tasks
              caught == IF CatchesUp(u) THEN Spawn(plan, "delay") ELSE plan
              large == checks /\ Big(u)
          IN  /\ node' = [u EXCEPT !.catchUp = @ /\ ~CatchesUp(u), !.asked = @ \/ large,
                                   !.rest = IF ticks /\ (u.state # "free" \/ RestIsOver(u)) THEN 0 ELSE @]
              /\ prewarm' = IF ticks /\ Displaced(u) THEN Spawn(caught, "look") ELSE caught
              /\ unload' = (unload \/ large \/ (m.state = "free" /\ u.state = "busy") \/ (wants /\ u.state = "busy"))
  <2>1. \E m \in {n} : \E w \in {Windows(m)} :
          \E u \in {IF m.state = "offline" THEN m ELSE Turned(w)} : Made(m, u)
    BY Zenon DEF Evaluate
  <2>. HIDE DEF Made
  <2>2. Made(n, t)
    BY <2>1
  <2>. QED BY <2>2, Zenon DEF Made
<1>2. /\ t \in Nodes /\ SameMemory(n, t) /\ (n.state = "offline" <=> t.state = "offline")
      /\ n.state = "offline" => t.hot = n.hot
      /\ n.state # "offline" /\ t.hot # Unset =>
            Known(n) /\ n.util = "high" /\ request = "none" /\ t.hot = Began(n.hot)
      /\ n.state = "free" /\ t.state = "busy" /\ t.reason # "game" =>
            t.hot >= Sustain \/ (Known(n) /\ Foreign(n) >= ForeignMin)
  <2>1. CASE n.state = "offline"
    BY <2>1 DEF SameMemory
  <2>2. CASE n.state # "offline"
    <3>1. /\ Windows(n) \in Nodes /\ SameMemory(n, Windows(n)) /\ Windows(n).state = n.state
          /\ Windows(n).foreign # Unset => Known(n) /\ Foreign(n) >= ForeignMin
          /\ Windows(n).hot # Unset => /\ Known(n) /\ n.util = "high" /\ request = "none"
                                       /\ Windows(n).hot = Began(n.hot)
      BY WindowsEffects
    <3>2. /\ t \in Nodes /\ SameMemory(Windows(n), t) /\ t.hot = Windows(n).hot /\ t.state # "offline"
          /\ n.state = "free" /\ t.state = "busy" /\ t.reason # "game"
                => HotLong(Windows(n)) \/ ForeignLong(Windows(n))
      BY <2>2, <3>1, TurnedEffects
    <3>3. ForeignLong(Windows(n)) => Windows(n).foreign # Unset
      BY Numbers DEF ForeignLong, Unset
    <3>. HIDE DEF t
    <3>. QED BY <2>2, <3>1, <3>2, <3>3 DEF SameMemory, HotLong
  <2>. QED BY <2>1, <2>2
<1>3. last \in [Tasks -> TaskStates] /\ SameLoads(tasks, last)
  <2>1. planned \in [Tasks -> TaskStates] /\ SameLoads(tasks, planned)
    <3>1. /\ Outdated(tasks) \in [Tasks -> TaskStates] /\ SameLoads(tasks, Outdated(tasks))
      BY SpawnEffects
    <3>2. /\ Spawn(Outdated(tasks), "delay") \in [Tasks -> TaskStates]
          /\ SameLoads(Outdated(tasks), Spawn(Outdated(tasks), "delay"))
      BY <3>1, SpawnEffects
    <3>. QED BY <3>1, <3>2 DEF SameLoads
  <2>. HIDE DEF planned
  <2>2. caughtUp \in [Tasks -> TaskStates] /\ SameLoads(tasks, caughtUp)
    <3>1. /\ Spawn(planned, "delay") \in [Tasks -> TaskStates]
          /\ SameLoads(planned, Spawn(planned, "delay"))
      BY <2>1, SpawnEffects
    <3>. QED BY <2>1, <3>1 DEF SameLoads
  <2>. HIDE DEF caughtUp
  <2>3. /\ Spawn(caughtUp, "look") \in [Tasks -> TaskStates]
        /\ SameLoads(caughtUp, Spawn(caughtUp, "look"))
    BY <2>2, SpawnEffects
  <2>. QED BY <2>2, <2>3 DEF SameLoads
<1>4. later \in Nodes /\ SameMemory(t, later) /\ later.state = t.state /\ later.hot = t.hot
      /\ later.reason = t.reason
  <2>1. PICK c \in BOOLEAN, a \in BOOLEAN, r \in 0..Rest :
            later = [t EXCEPT !.catchUp = c, !.asked = a, !.rest = r]
    <3>1. /\ (t.catchUp /\ ~CatchesUp(t)) \in BOOLEAN /\ (t.asked \/ big) \in BOOLEAN
          /\ (IF ticks /\ (t.state # "free" \/ RestIsOver(t)) THEN 0 ELSE t.rest) \in 0..Rest
      BY <1>2, Numbers DEF Nodes
    <3>. QED BY <3>1
  <2>. HIDE DEF t, later
  <2>2. later \in Nodes
    BY <1>2, <2>1 DEF Nodes
  <2>3. SameMemory(t, later) /\ later.state = t.state /\ later.hot = t.hot /\ later.reason = t.reason
    BY <1>2, <2>1 DEF Nodes, SameMemory
  <2>. QED BY <2>2, <2>3
<1>5. unload' \in BOOLEAN
  BY <1>1
<1>. HIDE DEF t, later, last
<1>. QED BY <1>1, <1>2, <1>3, <1>4, <1>5 DEF EvaluateTo, SameMemory

----------------------------------------------------------------------------
(* The accounting of loads *)

\* No claim becomes late, and what is late is a claim.
Punctual(n, w) == w.late \subseteq n.late /\ (n.late \subseteq n.claim => w.late \subseteq w.claim)

LEMMA FinishLoadEffects ==
    ASSUME NEW n \in Nodes, NEW m \in Models \cup {"none"}
    PROVE  /\ FinishLoad(n, m) \in Nodes
           /\ FinishLoad(n, m).state = n.state /\ FinishLoad(n, m).hot = n.hot
           /\ FinishLoad(n, m).known = n.known /\ FinishLoad(n, m).loaded = n.loaded
           /\ FinishLoad(n, m).claim = n.claim \ {m}
           /\ FinishLoad(n, m).hold = IF m \in n.claim THEN Settle ELSE n.hold
           /\ Punctual(n, FinishLoad(n, m))
<1>1. CASE m \in n.claim
  <2>. DEFINE froze == IF n.claim = {m} THEN 0 ELSE n.frozen
  <2>1. /\ froze \in 0..Total /\ Settle \in 0..Settle
        /\ n.claim \ {m} \in SUBSET Models /\ n.late \ {m} \in SUBSET Models
    BY Numbers DEF Nodes
  <2>2. FinishLoad(n, m) = [n EXCEPT !.claim = n.claim \ {m}, !.late = n.late \ {m},
                                     !.hold = Settle, !.frozen = froze]
    BY <1>1 DEF FinishLoad, Nodes
  <2>. HIDE DEF froze
  <2>3. FinishLoad(n, m) \in Nodes
    BY <2>1, <2>2 DEF Nodes
  <2>. QED BY <1>1, <2>2, <2>3 DEF Nodes, Punctual
<1>2. CASE m \notin n.claim
  <2>1. n.claim \ {m} = n.claim
    BY <1>2
  <2>. QED BY <1>2, <2>1 DEF FinishLoad, Punctual
<1>. QED BY <1>1, <1>2

LEMMA NoteLoadedEffects ==
    ASSUME NEW n \in Nodes, NEW m \in Models \cup {"none"}
    PROVE  /\ NoteLoaded(n, m) \in Nodes
           /\ NoteLoaded(n, m).state = n.state /\ NoteLoaded(n, m).hot = n.hot
           /\ NoteLoaded(n, m).known = n.known /\ NoteLoaded(n, m).loaded = m
           /\ NoteLoaded(n, m).claim = n.claim \ {m}
           /\ NoteLoaded(n, m).hold = IF m \in n.claim \/ (n.loaded # "none" /\ m = "none")
                                      THEN Settle ELSE n.hold
           /\ Punctual(n, NoteLoaded(n, m))
<1>. DEFINE h == IF n.loaded # "none" /\ m = "none" THEN Settle ELSE n.hold
            w == [n EXCEPT !.loaded = m, !.hold = h]
<1>1. h \in 0..Settle
  BY Numbers DEF Nodes
<1>2. NoteLoaded(n, m) = FinishLoad(w, m)
  BY DEF NoteLoaded, Nodes
<1>. HIDE DEF h
<1>3. w \in Nodes
  BY <1>1 DEF Nodes
<1>4. /\ w.state = n.state /\ w.hot = n.hot /\ w.known = n.known /\ w.loaded = m
      /\ w.claim = n.claim /\ w.late = n.late /\ w.hold = h
  BY DEF Nodes
<1>. HIDE DEF w
<1>. QED BY <1>2, <1>3, <1>4, FinishLoadEffects DEF h, Punctual

LEMMA AnnounceLoadEffects ==
    ASSUME NEW n \in Nodes, NEW m \in Models
    PROVE  /\ AnnounceLoad(n, m) \in Nodes
           /\ AnnounceLoad(n, m).state = n.state /\ AnnounceLoad(n, m).hot = n.hot
           /\ AnnounceLoad(n, m).known = n.known /\ AnnounceLoad(n, m).loaded = n.loaded
           /\ AnnounceLoad(n, m).hold = n.hold
           /\ AnnounceLoad(n, m).claim = n.claim \cup {m}
           /\ Punctual(n, AnnounceLoad(n, m))
<1>. DEFINE froze == IF n.claim = {} THEN Foreign(n) ELSE n.frozen
<1>1. froze \in 0..Total /\ n.claim \cup {m} \in SUBSET Models /\ n.late \ {m} \in SUBSET Models
  BY MemoryFacts DEF Nodes
<1>2. AnnounceLoad(n, m) = [n EXCEPT !.frozen = froze, !.claim = n.claim \cup {m}, !.late = n.late \ {m}]
  BY DEF AnnounceLoad, Nodes
<1>. HIDE DEF froze
<1>3. AnnounceLoad(n, m) \in Nodes
  BY <1>1, <1>2 DEF Nodes
<1>. QED BY <1>2, <1>3 DEF Nodes, Punctual

----------------------------------------------------------------------------
(* The inductive invariant *)

\* Without a game, what a report says that is still believed does not keep the card hot.
Reported ==
    /\ game # Quiet => played = 0
    /\ played + node.known > Stale => (node.hot # Unset => node.hot + node.known <= Stale)

\* Since the last own load there was never a moment in which neither a claim, nor a model
\* in the card, nor the tail of one hid its memory.
Covered ==
    own < Settle =>
        /\ node.state # "offline" /\ node.late = {}
        /\ \A m \in Models : OwnLoad(m) => m \in node.claim \/ (card = m /\ node.loaded = m)
        /\ LoadingOwn \/ node.loaded # "none" \/ node.claim # {} \/ node.hold + own >= Settle
        /\ \A s, t \in Tasks : prewarm[s].pc = "load" /\ prewarm[t].pc = "load" => s = t
        /\ (\E t \in Tasks : prewarm[t].pc = "load") /\ "rank1" \in node.claim
               => ~(request # "none" /\ model = "rank1")

\* A model is in the card or announced; one is loaded at a time; an offline node is cold.
Apart == node.loaded \notin node.claim /\ node.late \subseteq node.claim
OneLoad == filling = "none" \/ card = "none"
Cool == node.state = "offline" => node.hot = Unset

IInv == TypeOK /\ ClaimsEnd /\ Reported /\ Covered /\ Apart /\ OneLoad /\ Cool

LEMMA InitInv == Init => IInv
<1>. SUFFICES ASSUME Init PROVE IInv
  OBVIOUS
<1>1. NewNode \in Nodes
  BY AgeFacts, Numbers DEF NewNode, Nodes
<1>2. TypeOK
  <2>1. /\ Stale \in 0..Stale /\ Settle \in 0..Settle /\ 0 \in 0..MaxEvents
        /\ Quiet \in Games
    BY Numbers, WindowsAssumption
  <2>2. [pc |-> "none", fresh |-> FALSE] \in TaskStates
    BY DEF TaskStates
  <2>3. prewarm \in [Tasks -> TaskStates]
    BY <2>2 DEF Init
  <2>. QED BY <1>1, <2>1, <2>3 DEF Init, TypeOK, Models
<1>3. /\ node.known = 0 /\ node.hot = Unset /\ node.claim = {} /\ node.late = {} /\ node.loaded = "none"
  BY DEF Init, NewNode
<1>. QED BY <1>2, <1>3, Numbers DEF Init, IInv, ClaimsEnd, Reported, Covered, Apart, OneLoad, Cool

LEMMA OwnLoadKept ==
    ASSUME SameLoads(prewarm, prewarm'), UNCHANGED <<request, model, cold>>
    PROVE  (\A m \in Models : OwnLoad(m)' <=> OwnLoad(m)) /\ (LoadingOwn' <=> LoadingOwn)
<1>1. \A m \in Models : OwnLoad(m)' <=> OwnLoad(m)
  BY DEF OwnLoad, SameLoads
<1>. QED BY <1>1 DEF LoadingOwn

----------------------------------------------------------------------------
(* Reports *)

\* A node turns busy without a game only by load or foreign memory in a report.
BusyBy ==
    node.state = "free" /\ node'.state = "busy" /\ node'.reason # "game" =>
        Known(node') /\ (node'.hot >= Sustain \/ Foreign(node') >= ForeignMin)

LEMMA AdoptEffects ==
    ASSUME IInv, NEW tasks \in [Tasks -> TaskStates], SameLoads(prewarm, tasks), NEW wants \in BOOLEAN,
           AdoptState(tasks, wants)
    PROVE  /\ node' \in Nodes /\ node'.state # "offline" /\ node'.known = node.known
           /\ node'.loaded = card /\ node'.claim = node.claim \ {card}
           /\ node'.hold = IF card \in node.claim \/ (node.loaded # "none" /\ card = "none")
                           THEN Settle ELSE node.hold
           /\ Punctual(node, node')
           /\ node'.hot # Unset => node'.hot = Began(node.hot)
           /\ prewarm' \in [Tasks -> TaskStates] /\ SameLoads(prewarm, prewarm')
           /\ unload' \in BOOLEAN /\ BusyBy
<1>. DEFINE online == node.state = "offline"
            n == IF online THEN [node EXCEPT !.state = "free", !.reason = "none", !.calm = Unset] ELSE node
            w == NoteLoaded(n, card)
            known == IF online THEN Spawn(Outdated(tasks), "delay") ELSE tasks
<1>1. node \in Nodes /\ card \in Models \cup {"none"} /\ unload \in BOOLEAN
  BY DEF IInv, TypeOK
<1>2. /\ n \in Nodes /\ n.state # "offline" /\ n.hot = node.hot /\ n.known = node.known
      /\ n.claim = node.claim /\ n.late = node.late /\ n.hold = node.hold /\ n.loaded = node.loaded
      /\ node.state = "free" => n.state = "free"
  <2>1. CASE online
    BY <1>1, <2>1, AgeFacts DEF Nodes
  <2>2. CASE ~online
    BY <1>1, <2>2
  <2>. QED BY <2>1, <2>2
<1>3. known \in [Tasks -> TaskStates] /\ SameLoads(prewarm, known)
  <2>1. Outdated(tasks) \in [Tasks -> TaskStates] /\ SameLoads(tasks, Outdated(tasks))
    BY SpawnEffects
  <2>2. /\ Spawn(Outdated(tasks), "delay") \in [Tasks -> TaskStates]
        /\ SameLoads(Outdated(tasks), Spawn(Outdated(tasks), "delay"))
    BY <2>1, SpawnEffects
  <2>. QED BY <2>1, <2>2 DEF SameLoads
<1>4. Evaluate(w, known, TRUE, FALSE, wants)
  BY DEF AdoptState
<1>. HIDE DEF n, known
<1>5. /\ w \in Nodes /\ w.state = n.state /\ w.hot = n.hot /\ w.known = n.known
      /\ w.loaded = card /\ w.claim = n.claim \ {card}
      /\ w.hold = IF card \in n.claim \/ (n.loaded # "none" /\ card = "none") THEN Settle ELSE n.hold
      /\ Punctual(n, w)
  BY <1>1, <1>2, NoteLoadedEffects
<1>. HIDE DEF w
<1>6. EvaluateTo(w, known)
  BY <1>1, <1>3, <1>4, <1>5, EvaluateEffects
<1>7. BusyBy
  <2>1. Known(w) = Known(node') /\ Foreign(w) = Foreign(node')
    BY <1>6 DEF EvaluateTo, SameMemory, Known, Foreign, Raw, Claimed, Live
  <2>2. w.state # "offline" /\ (node.state = "free" => w.state = "free")
    BY <1>2, <1>5
  <2>3. node'.hot >= Sustain => node'.hot # Unset
    BY Numbers DEF Unset
  <2>. QED BY <1>6, <2>1, <2>2, <2>3 DEF EvaluateTo, BusyBy
<1>. QED BY <1>2, <1>3, <1>5, <1>6, <1>7 DEF EvaluateTo, SameMemory, SameLoads, Punctual

\* A report of what Ollama has loaded keeps the invariant of the node.
LEMMA AdoptKeeps ==
    ASSUME IInv, NEW tasks \in [Tasks -> TaskStates], SameLoads(prewarm, tasks), NEW wants \in BOOLEAN,
           AdoptState(tasks, wants), UNCHANGED <<machine, request, model, cold, history>>
    PROVE  /\ node' \in Nodes /\ prewarm' \in [Tasks -> TaskStates] /\ unload' \in BOOLEAN
           /\ ClaimsEnd' /\ Reported' /\ Covered' /\ Apart' /\ OneLoad' /\ Cool'
<1>1. /\ node' \in Nodes /\ node'.state # "offline" /\ node'.known = node.known
      /\ node'.loaded = card /\ node'.claim = node.claim \ {card}
      /\ node'.hold = IF card \in node.claim \/ (node.loaded # "none" /\ card = "none")
                      THEN Settle ELSE node.hold
      /\ Punctual(node, node')
      /\ node'.hot # Unset => node'.hot = Began(node.hot)
      /\ prewarm' \in [Tasks -> TaskStates] /\ SameLoads(prewarm, prewarm')
      /\ unload' \in BOOLEAN
  BY AdoptEffects
<1>2. (\A m \in Models : OwnLoad(m)' <=> OwnLoad(m)) /\ (LoadingOwn' <=> LoadingOwn)
  BY <1>1, OwnLoadKept
<1>3. ClaimsEnd'
  BY <1>1, <1>2 DEF IInv, TypeOK, Nodes, ClaimsEnd
<1>4. Reported'
  <2>1. node.hot \in Ages /\ node.known \in 0..Stale /\ played \in 0..Stale
    BY DEF IInv, TypeOK, Nodes
  <2>2. node'.hot # Unset => node'.hot = IF node.hot = Unset THEN 0 ELSE node.hot
    BY <1>1, <2>1, AgeFacts
  <2>3. game # Quiet => played = 0
    BY DEF IInv, Reported
  <2>4. played + node.known > Stale /\ node.hot # Unset => node.hot + node.known <= Stale
    BY DEF IInv, Reported
  <2>5. game' = game /\ played' = played /\ node'.known = node.known
    BY <1>1 DEF machine, history
  <2>6. ASSUME played + node.known > Stale, node'.hot # Unset
        PROVE  node'.hot + node.known <= Stale
    BY <2>1, <2>2, <2>4, <2>6, Numbers
  <2>. QED BY <2>3, <2>5, <2>6 DEF Reported
<1>5. Covered'
  <2>. SUFFICES ASSUME own < Settle PROVE Covered'
    BY DEF Covered, history
  <2>1. \A m \in Models : OwnLoad(m)' => m \in node'.claim \/ (card' = m /\ node'.loaded = m)
    BY <1>1, <1>2 DEF IInv, Covered, machine
  <2>2. LoadingOwn' \/ node'.loaded # "none" \/ node'.claim # {} \/ node'.hold + own' >= Settle
    <3>1. node.hold \in 0..Settle /\ own \in 0..Settle /\ card \in Models \cup {"none"}
          /\ node.claim \subseteq Models
      BY DEF IInv, TypeOK, Nodes
    <3>2. CASE card # "none"
      BY <1>1, <3>2
    <3>3. CASE card = "none" /\ node.loaded # "none"
      BY <1>1, <3>1, <3>3, Numbers DEF history
    <3>4. CASE card = "none" /\ node.loaded = "none"
      <4>1. card \notin node.claim
        BY <3>1, <3>4 DEF Models
      <4>2. node'.claim = node.claim /\ node'.hold = node.hold
        BY <1>1, <3>4, <4>1
      <4>. QED BY <1>2, <3>4, <4>2 DEF IInv, Covered, history
    <3>. QED BY <3>2, <3>3, <3>4
  <2>3. \A s, t \in Tasks : prewarm'[s].pc = "load" /\ prewarm'[t].pc = "load" => s = t
    BY <1>1 DEF IInv, Covered, SameLoads
  <2>4. (\E t \in Tasks : prewarm'[t].pc = "load") /\ "rank1" \in node'.claim
            => ~(request' # "none" /\ model' = "rank1")
    BY <1>1 DEF IInv, Covered, SameLoads
  <2>. QED BY <1>1, <2>1, <2>2, <2>3, <2>4 DEF IInv, Covered, Punctual
<1>6. Apart' /\ OneLoad' /\ Cool'
  BY <1>1 DEF IInv, Apart, OneLoad, Cool, machine, Punctual
<1>. QED BY <1>1, <1>3, <1>4, <1>5, <1>6

LEMMA EventType == TypeOK /\ (Event \/ UNCHANGED events) => events' \in 0..MaxEvents
BY Numbers DEF TypeOK, Event

LEMMA ReportedKept ==
    ASSUME Reported, UNCHANGED <<game, played>>, node'.known = node.known, node'.hot = node.hot
    PROVE  Reported'
BY DEF Reported

\* A poll of the loop, one after a cold request, one after a prewarm.
LEMMA AdoptSteps == ASSUME IInv, Poll \/ ColdPoll \/ (\E t \in Tasks : PollAfter(t)) PROVE IInv'
<1>1. CASE (Poll \/ ColdPoll) /\ AdoptState(prewarm, FALSE) /\ UNCHANGED events
  <2>1. prewarm \in [Tasks -> TaskStates] /\ SameLoads(prewarm, prewarm)
    BY DEF IInv, TypeOK, SameLoads
  <2>2. /\ AdoptState(prewarm, FALSE) /\ UNCHANGED <<machine, request, model, cold, history, events>>
        /\ fetch' \in BOOLEAN /\ polled' \in BOOLEAN /\ beaten' \in BOOLEAN
    BY <1>1 DEF IInv, TypeOK, Poll, ColdPoll, requests, clocks
  <2>3. /\ node' \in Nodes /\ prewarm' \in [Tasks -> TaskStates] /\ unload' \in BOOLEAN
        /\ ClaimsEnd' /\ Reported' /\ Covered' /\ Apart' /\ OneLoad' /\ Cool'
    BY <2>1, <2>2, AdoptKeeps
  <2>4. TypeOK'
    BY <2>2, <2>3 DEF IInv, TypeOK, machine, history
  <2>. QED BY <2>3, <2>4 DEF IInv
<1>2. CASE ColdPoll /\ Event /\ UNCHANGED <<node, prewarm, unload>>
  <2>1. /\ UNCHANGED <<machine, node, request, model, cold, prewarm, unload, clocks, history>>
        /\ fetch' \in BOOLEAN /\ events' \in 0..MaxEvents
    BY <1>2, EventType DEF IInv, ColdPoll
  <2>. QED BY <2>1 DEF IInv, TypeOK, ClaimsEnd, Reported, Covered, OwnLoad, LoadingOwn, Apart, OneLoad, Cool,
              machine, clocks, history
<1>3. ASSUME NEW t \in Tasks, PollAfter(t) PROVE IInv'
  <2>. DEFINE rest == [prewarm EXCEPT ![t] = [pc |-> "none", fresh |-> FALSE]]
  <2>1. rest \in [Tasks -> TaskStates] /\ SameLoads(prewarm, rest)
    BY <1>3 DEF IInv, TypeOK, TaskStates, SameLoads, PollAfter, At
  <2>2. /\ UNCHANGED <<machine, request, model, cold, fetch, polled, beaten, history>>
        /\ events' \in 0..MaxEvents
    BY <1>3, EventType DEF IInv, PollAfter, requests, clocks
  <2>3. CASE AdoptState(rest, TRUE)
    <3>. HIDE DEF rest
    <3>1. /\ node' \in Nodes /\ prewarm' \in [Tasks -> TaskStates] /\ unload' \in BOOLEAN
          /\ ClaimsEnd' /\ Reported' /\ Covered' /\ Apart' /\ OneLoad' /\ Cool'
      BY <2>1, <2>2, <2>3, AdoptKeeps
    <3>2. TypeOK'
      BY <2>2, <3>1 DEF IInv, TypeOK, machine, history
    <3>. QED BY <3>1, <3>2 DEF IInv
  <2>4. CASE prewarm' = rest /\ unload' = (unload \/ node.state = "busy") /\ UNCHANGED node
    <3>1. (\A m \in Models : OwnLoad(m)' <=> OwnLoad(m)) /\ (LoadingOwn' <=> LoadingOwn)
      BY <2>1, <2>2, <2>4, OwnLoadKept
    <3>2. \A s \in Tasks : prewarm'[s].pc = "load" <=> prewarm[s].pc = "load"
      BY <2>1, <2>4 DEF SameLoads
    <3>. HIDE DEF rest
    <3>3. TypeOK'
      BY <2>1, <2>2, <2>4 DEF IInv, TypeOK, machine, history
    <3>4. ClaimsEnd' /\ Reported' /\ Apart' /\ OneLoad' /\ Cool'
      BY <2>2, <2>4, <3>1 DEF IInv, TypeOK, Nodes, ClaimsEnd, Reported, Apart, OneLoad, Cool, machine, history
    <3>5. Covered'
      BY <2>2, <2>4, <3>1, <3>2 DEF IInv, Covered, machine, history
    <3>. QED BY <3>3, <3>4, <3>5 DEF IInv
  <2>. QED BY <1>3, <2>3, <2>4 DEF PollAfter, Goes
<1>. QED BY <1>1, <1>2, <1>3 DEF Poll, ColdPoll

\* A heartbeat of a machine without a game says that there is little load, or that the
\* router's own request makes it.
LEMMA BeatStep == ASSUME IInv, Beat PROVE IInv' /\ BusyBy
<1>. DEFINE plays == game.fact # "none"
            n == [node EXCEPT !.known = Stale, !.used = InUse,
                              !.util = IF request = "run" THEN "high" ELSE game.util,
                              !.fact = game.fact, !.low = tight,
                              !.playing = IF plays THEN Began(@) ELSE Unset,
                              !.heavy = @ /\ plays]
<1>1. /\ Evaluate(n, prewarm, FALSE, FALSE, FALSE) /\ unload \in BOOLEAN
      /\ UNCHANGED <<machine, request, model, cold, fetch, polled, events, history>> /\ beaten' = TRUE
  BY DEF Beat, IInv, TypeOK, requests
<1>2. /\ n \in Nodes /\ n.known = Stale /\ n.state = node.state /\ n.hot = node.hot
      /\ n.loaded = node.loaded /\ n.claim = node.claim /\ n.late = node.late /\ n.hold = node.hold
      /\ n.util = "high" => request = "run" \/ game.util = "high"
  <2>. DEFINE used == InUse
              util == IF request = "run" THEN "high" ELSE game.util
              since == IF plays THEN Began(node.playing) ELSE Unset
              heavy == node.heavy /\ plays
  <2>1. node \in Nodes /\ tight \in BOOLEAN /\ game \in Games
    BY DEF IInv, TypeOK
  <2>2. /\ used \in 0..Total /\ Stale \in 0..Stale /\ since \in Ages /\ heavy \in BOOLEAN
        /\ util \in {"low", "mid", "high"} /\ game.fact \in {"none", "light", "heavy"}
    <3>1. used \in 0..Total
      BY InUseFacts DEF IInv
    <3>2. since \in Ages /\ heavy \in BOOLEAN
      BY <2>1, AgeFacts DEF Nodes
    <3>3. game.util \in {"low", "mid", "high"} /\ game.fact \in {"none", "light", "heavy"}
      BY <2>1, WindowsAssumption
    <3>. QED BY <3>1, <3>2, <3>3, Numbers
  <2>3. n = [node EXCEPT !.known = Stale, !.used = used, !.util = util, !.fact = game.fact,
                         !.low = tight, !.playing = since, !.heavy = heavy]
    BY <2>1 DEF Nodes
  <2>4. util = "high" => request = "run" \/ game.util = "high"
    OBVIOUS
  <2>. HIDE DEF n, used, util, since, heavy
  <2>5. n \in Nodes
    BY <2>1, <2>2, <2>3 DEF Nodes
  <2>6. /\ n.known = Stale /\ n.state = node.state /\ n.hot = node.hot /\ n.util = util
        /\ n.loaded = node.loaded /\ n.claim = node.claim /\ n.late = node.late /\ n.hold = node.hold
    BY <2>1, <2>3 DEF Nodes
  <2>. QED BY <2>4, <2>5, <2>6
<1>. HIDE DEF n
<1>3. prewarm \in [Tasks -> TaskStates]
  BY DEF IInv, TypeOK
<1>4. EvaluateTo(n, prewarm)
  BY <1>1, <1>2, <1>3, EvaluateEffects
<1>5. /\ node' \in Nodes /\ prewarm' \in [Tasks -> TaskStates] /\ unload' \in BOOLEAN
      /\ SameLoads(prewarm, prewarm') /\ node'.known = Stale
      /\ node'.state = "offline" <=> node.state = "offline"
      /\ node'.loaded = node.loaded /\ node'.claim = node.claim /\ node'.late = node.late
      /\ node'.hold = node.hold
  BY <1>2, <1>4 DEF EvaluateTo, SameMemory
<1>6. TypeOK'
  BY <1>1, <1>5 DEF IInv, TypeOK, machine, history
<1>7. (\A m \in Models : OwnLoad(m)' <=> OwnLoad(m)) /\ (LoadingOwn' <=> LoadingOwn)
  BY <1>1, <1>5, OwnLoadKept
<1>8. ClaimsEnd' /\ Covered' /\ Apart' /\ OneLoad'
  BY <1>1, <1>5, <1>7 DEF IInv, TypeOK, Nodes, ClaimsEnd, SameLoads, Covered, Apart, OneLoad, machine, history
<1>9. Cool'
  BY <1>2, <1>4, <1>5 DEF IInv, Cool, EvaluateTo
<1>10. Reported'
  <2>1. game' = game /\ played' = played /\ played \in 0..Stale /\ (game # Quiet => played = 0)
    BY <1>1 DEF IInv, TypeOK, Reported, machine, history
  <2>2. ASSUME played + Stale > Stale PROVE node'.hot = Unset
    <3>1. game = Quiet /\ game.util = "low"
      BY <2>1, <2>2, Numbers, WindowsAssumption
    <3>2. CASE node.state = "offline"
      BY <1>2, <1>4, <3>2 DEF IInv, Cool, EvaluateTo
    <3>3. CASE node.state # "offline"
      BY <1>2, <1>4, <3>1, <3>3 DEF EvaluateTo
    <3>. QED BY <3>2, <3>3
  <2>. QED BY <1>5, <2>1, <2>2 DEF Reported
<1>11. BusyBy
  <2>1. Known(n) = Known(node') /\ Foreign(n) = Foreign(node')
    BY <1>4 DEF EvaluateTo, SameMemory, Known, Foreign, Raw, Claimed, Live
  <2>2. node'.hot >= Sustain => node'.hot # Unset
    BY Numbers DEF Unset
  <2>. QED BY <1>2, <1>4, <2>1, <2>2 DEF EvaluateTo, BusyBy
<1>. QED BY <1>6, <1>8, <1>9, <1>10, <1>11 DEF IInv

\* The tick makes everything a unit older; a report counts down as fast as load can last.
LEMMA TickStep == ASSUME IInv, Tick PROVE IInv' /\ BusyBy
<1>. DEFINE n == [node EXCEPT !.hot = Older(@), !.foreign = Older(@), !.calm = Older(@),
                              !.playing = Older(@), !.asked = FALSE,
                              !.known = IF @ = 0 THEN 0 ELSE @ - 1,
                              !.hold = IF @ = 0 THEN 0 ELSE @ - 1,
                              !.rest = IF @ = Rest THEN @ ELSE @ + 1]
<1>1. /\ Evaluate(n, prewarm, TRUE, TRUE, FALSE) /\ unload \in BOOLEAN
      /\ UNCHANGED <<game, card, filling, tight, request, model, cold, fetch, events>>
      /\ leaving' = FALSE /\ polled' = FALSE /\ beaten' = FALSE
      /\ played' = IF game # Quiet THEN 0 ELSE IF played = Stale THEN played ELSE played + 1
      /\ own' = IF LoadingOwn \/ own = Settle THEN own ELSE own + 1
  BY DEF Tick, IInv, TypeOK, requests
<1>2. node \in Nodes /\ played \in 0..Stale /\ own \in 0..Settle
  BY DEF IInv, TypeOK
<1>3. /\ n \in Nodes /\ n.known = (IF node.known = 0 THEN 0 ELSE node.known - 1)
      /\ n.state = node.state /\ n.hot = Older(node.hot)
      /\ n.loaded = node.loaded /\ n.claim = node.claim /\ n.late = node.late
      /\ n.hold = IF node.hold = 0 THEN 0 ELSE node.hold - 1
  <2>. DEFINE hot == Older(node.hot)  foreign == Older(node.foreign)
              calm == Older(node.calm)  playing == Older(node.playing)
              known == IF node.known = 0 THEN 0 ELSE node.known - 1
              hold == IF node.hold = 0 THEN 0 ELSE node.hold - 1
              rest == IF node.rest = Rest THEN node.rest ELSE node.rest + 1
  <2>1. hot \in Ages /\ foreign \in Ages /\ calm \in Ages /\ playing \in Ages
    BY <1>2, AgeFacts DEF Nodes
  <2>2. known \in 0..Stale /\ hold \in 0..Settle /\ rest \in 0..Rest
    BY <1>2, Numbers DEF Nodes
  <2>3. n = [node EXCEPT !.hot = hot, !.foreign = foreign, !.calm = calm, !.playing = playing,
                         !.asked = FALSE, !.known = known, !.hold = hold, !.rest = rest]
    BY <1>2 DEF Nodes
  <2>. HIDE DEF n, hot, foreign, calm, playing, known, hold, rest
  <2>4. n \in Nodes
    BY <1>2, <2>1, <2>2, <2>3 DEF Nodes
  <2>5. /\ n.known = known /\ n.state = node.state /\ n.hot = hot
        /\ n.loaded = node.loaded /\ n.claim = node.claim /\ n.late = node.late /\ n.hold = hold
    BY <1>2, <2>3 DEF Nodes
  <2>. QED BY <2>4, <2>5 DEF known, hold, hot
<1>. HIDE DEF n
<1>4. prewarm \in [Tasks -> TaskStates]
  BY DEF IInv, TypeOK
<1>5. EvaluateTo(n, prewarm)
  BY <1>1, <1>3, <1>4, EvaluateEffects
<1>6. /\ node' \in Nodes /\ prewarm' \in [Tasks -> TaskStates] /\ unload' \in BOOLEAN
      /\ SameLoads(prewarm, prewarm') /\ node'.known = n.known
      /\ node'.state = "offline" <=> node.state = "offline"
      /\ node'.loaded = node.loaded /\ node'.claim = node.claim /\ node'.late = node.late
      /\ node'.hold = n.hold
  BY <1>3, <1>5 DEF EvaluateTo, SameMemory
<1>7. TypeOK'
  <2>1. played' \in 0..Stale /\ own' \in 0..Settle
    BY <1>1, <1>2, Numbers
  <2>. QED BY <1>1, <1>6, <2>1 DEF IInv, TypeOK
<1>8. (\A m \in Models : OwnLoad(m)' <=> OwnLoad(m)) /\ (LoadingOwn' <=> LoadingOwn)
  BY <1>1, <1>6, OwnLoadKept
<1>9. ClaimsEnd' /\ Apart' /\ OneLoad'
  BY <1>1, <1>6, <1>8 DEF IInv, TypeOK, Nodes, ClaimsEnd, Apart, OneLoad
<1>10. Cool'
  BY <1>2, <1>3, <1>5, <1>6, AgeFacts DEF IInv, Cool, EvaluateTo, Nodes
<1>11. Covered'
  <2>. SUFFICES ASSUME own' < Settle PROVE Covered'
    BY DEF Covered
  <2>1. own < Settle /\ (LoadingOwn => own' = own) /\ (~LoadingOwn => own' = own + 1)
    BY <1>1, <1>2, Numbers
  <2>2. LoadingOwn' \/ node'.loaded # "none" \/ node'.claim # {} \/ node'.hold + own' >= Settle
    <3>1. CASE LoadingOwn \/ node.loaded # "none" \/ node.claim # {}
      BY <1>6, <1>8, <3>1
    <3>2. CASE ~LoadingOwn /\ node.hold + own >= Settle
      <4>1. node.hold \in 0..Settle
        BY <1>2 DEF Nodes
      <4>2. node.hold # 0
        BY <1>2, <2>1, <3>2, <4>1, Numbers
      <4>. QED BY <1>2, <1>3, <1>6, <2>1, <3>2, <4>1, <4>2, Numbers
    <3>. QED BY <2>1, <3>1, <3>2 DEF IInv, Covered
  <2>3. \A m \in Models : OwnLoad(m)' => m \in node'.claim \/ (card' = m /\ node'.loaded = m)
    BY <1>1, <1>6, <1>8, <2>1 DEF IInv, Covered
  <2>. QED BY <1>1, <1>6, <2>1, <2>2, <2>3 DEF IInv, Covered, SameLoads
<1>12. Reported'
  <2>. DEFINE hot == Older(node.hot)
  <2>1. node.hot \in Ages /\ node.known \in 0..Stale
    BY <1>2 DEF Nodes
  <2>2. hot \in Int /\ (hot = Unset <=> node.hot = Unset) /\ (node.hot # Unset => hot <= node.hot + 1)
        /\ node.hot \in Int /\ Began(hot) = IF hot = Unset THEN 0 ELSE hot
    BY <2>1, AgeFacts
  <2>3. node'.hot # Unset => node'.hot = hot \/ node'.hot = Began(hot)
    BY <1>3, <1>5 DEF EvaluateTo
  <2>4. game # Quiet => played' = 0
    BY <1>1
  <2>. HIDE DEF hot
  <2>5. ASSUME played' + node'.known > Stale, node'.hot # Unset
        PROVE  node'.hot + node'.known <= Stale
    <3>1. /\ node'.known = (IF node.known = 0 THEN 0 ELSE node.known - 1)
          /\ played' \in 0..Stale /\ played' <= played + 1
      BY <1>1, <1>2, <1>3, <1>6, Numbers
    <3>2. node.known > 0 /\ played + node.known > Stale
      BY <1>2, <2>1, <2>5, <3>1, Numbers
    <3>3. node.hot # Unset => node.hot + node.known <= Stale
      BY <3>2 DEF IInv, Reported
    <3>4. node'.hot = IF node.hot = Unset THEN 0 ELSE hot
      BY <2>2, <2>3, <2>5
    <3>. QED BY <2>1, <2>2, <3>1, <3>2, <3>3, <3>4, Numbers
  <2>. QED BY <1>1, <2>4, <2>5 DEF Reported
<1>13. BusyBy
  <2>1. Known(n) = Known(node') /\ Foreign(n) = Foreign(node')
    BY <1>5 DEF EvaluateTo, SameMemory, Known, Foreign, Raw, Claimed, Live
  <2>2. node'.hot >= Sustain => node'.hot # Unset
    BY Numbers DEF Unset
  <2>. QED BY <1>3, <1>5, <2>1, <2>2 DEF EvaluateTo, BusyBy
<1>. QED BY <1>7, <1>9, <1>10, <1>11, <1>12, <1>13 DEF IInv

LEMMA LostStep == ASSUME IInv, Lost PROVE IInv'
<1>1. /\ UNCHANGED <<machine, node, requests, prewarm, unload, history>>
      /\ polled' \in BOOLEAN /\ beaten' \in BOOLEAN /\ events' \in 0..MaxEvents
  BY EventType DEF IInv, TypeOK, Lost
<1>. QED BY <1>1 DEF IInv, TypeOK, ClaimsEnd, Reported, Covered, OwnLoad, LoadingOwn, Apart, OneLoad,
            Cool, machine, requests, history

\* The deadline of a claim passes: from here on the load counts as foreign.
LEMMA ClaimLapsesStep == ASSUME IInv, ClaimLapses PROVE IInv' /\ node'.state = node.state
<1>1. /\ UNCHANGED <<machine, requests, prewarm, unload, clocks, played>>
      /\ own' = Settle /\ events' \in 0..MaxEvents
      /\ \E m \in Live(node) : node' = [node EXCEPT !.late = @ \cup {m}]
  BY EventType DEF IInv, ClaimLapses
<1>2. node \in Nodes /\ Live(node) \subseteq Models /\ Live(node) \subseteq node.claim
  BY DEF IInv, TypeOK, Nodes, Live
<1>3. /\ node' \in Nodes /\ node'.state = node.state /\ node'.hot = node.hot /\ node'.known = node.known
      /\ node'.loaded = node.loaded /\ node'.claim = node.claim
      /\ node.late \subseteq node.claim => node'.late \subseteq node'.claim
  BY <1>1, <1>2 DEF Nodes
<1>4. \A m \in Models : OwnLoad(m)' <=> OwnLoad(m)
  BY <1>1 DEF OwnLoad, requests
<1>5. own' \in 0..Settle
  BY <1>1, Numbers
<1>6. TypeOK'
  BY <1>1, <1>3, <1>5 DEF IInv, TypeOK, machine, requests, clocks
<1>7. ClaimsEnd' /\ Apart' /\ OneLoad' /\ Cool'
  BY <1>1, <1>2, <1>3, <1>4 DEF IInv, Nodes, ClaimsEnd, Apart, OneLoad, Cool, machine
<1>8. Reported' /\ Covered'
  BY <1>1, <1>3, ReportedKept, Numbers DEF IInv, Covered, machine
<1>. QED BY <1>3, <1>6, <1>7, <1>8 DEF IInv

LEMMA GoOfflineStep == ASSUME IInv, GoOffline PROVE IInv'
<1>. DEFINE gone == [node EXCEPT !.state = "offline", !.hot = Unset, !.calm = Unset, !.catchUp = FALSE,
                                 !.loaded = "none", !.claim = {}, !.late = {}, !.frozen = 0, !.hold = 0]
<1>1. node \in Nodes /\ node' = gone
  BY DEF IInv, TypeOK, GoOffline
<1>2. gone \in Nodes
  <2>1. Unset \in Ages /\ 0 \in 0..Total /\ 0 \in 0..Settle
    BY AgeFacts, Numbers
  <2>. QED BY <1>1, <2>1 DEF Nodes
<1>3. gone.state = "offline" /\ gone.hot = Unset /\ gone.claim = {} /\ gone.late = {} /\ gone.loaded = "none"
  BY <1>1 DEF Nodes
<1>. HIDE DEF gone
<1>4. prewarm' \in [Tasks -> TaskStates]
  BY DEF IInv, TypeOK, TaskStates, GoOffline
<1>5. /\ UNCHANGED <<game, card, leaving, tight, unload, beaten, played>> /\ polled' = TRUE
      /\ request' = "none" /\ model' = "rank1" /\ cold' = FALSE /\ fetch' \in BOOLEAN
      /\ filling' = "none" /\ own' = Settle /\ events' \in 0..MaxEvents
  BY EventType DEF IInv, TypeOK, GoOffline
<1>6. TypeOK'
  <2>1. own' \in 0..Settle
    BY <1>5, Numbers
  <2>2. node' \in Nodes
    BY <1>1, <1>2
  <2>. QED BY <1>4, <1>5, <2>1, <2>2 DEF IInv, TypeOK, Models
<1>7. ClaimsEnd' /\ Reported' /\ Covered' /\ Apart' /\ OneLoad' /\ Cool'
  BY <1>1, <1>3, <1>5, Numbers DEF IInv, ClaimsEnd, Reported, Covered, Apart, OneLoad, Cool
<1>. QED BY <1>6, <1>7 DEF IInv

----------------------------------------------------------------------------
(* The machine *)

\* What leaves the node, the requests and the tasks alone, and no model in use.
LEMMA MachineKeeps ==
    ASSUME IInv, UNCHANGED <<node, requests, prewarm, unload, clocks, own>>,
           card' = card \/ ~InUseNow \/ card = "none"
    PROVE  ClaimsEnd' /\ Covered' /\ Apart' /\ Cool'
<1>1. \A m \in Models : OwnLoad(m)' <=> OwnLoad(m)
  BY DEF OwnLoad, requests
<1>2. LoadingOwn' <=> LoadingOwn
  BY <1>1 DEF LoadingOwn
<1>3. ASSUME NEW m \in Models, OwnLoad(m), card = m PROVE card' = card
  BY <1>3 DEF OwnLoad, InUseNow, Models
<1>. QED BY <1>1, <1>2, <1>3 DEF IInv, TypeOK, Nodes, ClaimsEnd, Covered, Apart, Cool, requests

LEMMA MachineSteps ==
    ASSUME IInv, Plays \/ RamChanges \/ KeepAliveEnds \/ Filled \/ (\E m \in Models : OtherClient(m) \/ Fill(m))
    PROVE  IInv'
<1>1. /\ UNCHANGED <<node, requests, prewarm, unload, clocks, own>>
      /\ events' \in 0..MaxEvents /\ leaving' \in BOOLEAN /\ tight' \in BOOLEAN
      /\ game' \in Games /\ card' \in Models \cup {"none"} /\ filling' \in Models \cup {"none"}
  BY EventType DEF IInv, TypeOK, Plays, RamChanges, KeepAliveEnds, Filled, OtherClient, Fill, history
<1>2. played' = 0 \/ UNCHANGED <<game, played>>
  BY DEF Plays, RamChanges, KeepAliveEnds, Filled, OtherClient, Fill, history
<1>3. TypeOK'
  <2>1. played' \in 0..Stale
    BY <1>2, Numbers DEF IInv, TypeOK
  <2>. QED BY <1>1, <2>1 DEF IInv, TypeOK, requests, clocks
<1>4. (card' = card \/ ~InUseNow \/ card = "none") /\ OneLoad'
  BY DEF IInv, OneLoad, Plays, RamChanges, KeepAliveEnds, Filled, OtherClient, Fill
<1>5. ClaimsEnd' /\ Covered' /\ Apart' /\ Cool'
  BY <1>1, <1>4, MachineKeeps
<1>6. Reported'
  <2>1. node.known \in 0..Stale
    BY DEF IInv, TypeOK, Nodes
  <2>. QED BY <1>1, <1>2, <2>1, Numbers DEF IInv, Reported
<1>. QED BY <1>3, <1>4, <1>5, <1>6 DEF IInv

----------------------------------------------------------------------------
(* Requests and tasks *)

LEMMA RunsStep == ASSUME IInv, Runs PROVE IInv'
<1>1. /\ UNCHANGED <<machine, node, model, cold, fetch, prewarm, unload, clocks, events, history>>
      /\ request = "load" /\ request' = "run"
  BY DEF Runs
<1>2. \A m \in Models : OwnLoad(m)' <=> OwnLoad(m)
  BY <1>1 DEF OwnLoad
<1>3. LoadingOwn' <=> LoadingOwn
  BY <1>2 DEF LoadingOwn
<1>. QED BY <1>1, <1>2, <1>3 DEF IInv, TypeOK, Nodes, ClaimsEnd, Reported, Covered, Apart, OneLoad, Cool,
            machine, clocks, history

\* What a load may be announced into, while the accounting of the last one still counts.
LEMMA AnnouncedFacts ==
    ASSUME NEW m \in Models, Announced(m) < Settle
    PROVE  /\ ~OwnLoad(m) /\ ~(request # "none" /\ model = m)
           /\ LoadingOwn => Announced(m) = own
BY Numbers DEF Announced

LEMMA BeginStep == ASSUME IInv, NEW m \in Models, Begin(m) PROVE IInv'
<1>1. /\ request = "none" /\ node.state = "free" /\ model' = m /\ request' \in {"load", "run"}
      /\ cold' = (node.loaded # m) /\ events' \in 0..MaxEvents
      /\ UNCHANGED <<machine, fetch, prewarm, unload, clocks, played>>
      /\ IF node.loaded = m THEN UNCHANGED <<node, own>>
         ELSE node' = AnnounceLoad(node, m) /\ own' = Announced(m)
  BY EventType DEF IInv, Begin
<1>2. node \in Nodes /\ own \in 0..Settle
  BY DEF IInv, TypeOK
<1>3. /\ node' \in Nodes /\ node'.state = node.state /\ node'.hot = node.hot
      /\ node'.known = node.known /\ node'.loaded = node.loaded /\ node'.hold = node.hold
      /\ node'.claim = IF node.loaded = m THEN node.claim ELSE node.claim \cup {m}
      /\ Punctual(node, node')
  <2>1. CASE node.loaded = m
    BY <1>1, <1>2, <2>1 DEF Punctual
  <2>2. CASE node.loaded # m
    BY <1>1, <1>2, <2>2, AnnounceLoadEffects
  <2>. QED BY <2>1, <2>2
<1>4. own' \in 0..Settle
  BY <1>1, <1>2, Numbers DEF Announced
<1>5. TypeOK'
  BY <1>1, <1>3, <1>4 DEF IInv, TypeOK, machine, clocks
<1>6. ClaimsEnd' /\ Apart' /\ OneLoad' /\ Cool'
  BY <1>1, <1>3 DEF IInv, TypeOK, ClaimsEnd, OwnLoad, Apart, OneLoad, Cool, machine, Punctual
<1>7. Reported'
  BY <1>1, <1>3, ReportedKept DEF IInv, machine
<1>8. Covered'
  <2>. SUFFICES ASSUME own' < Settle PROVE Covered'
    BY DEF Covered
  <2>1. \A a \in Models : OwnLoad(a) <=> a = "rank1" /\ \E t \in Tasks : prewarm[t].pc = "load"
    BY <1>1 DEF OwnLoad
  <2>2. \A a \in Models : OwnLoad(a)' <=> OwnLoad(a) \/ (node.loaded # m /\ a = m)
    BY <1>1, <2>1 DEF OwnLoad
  <2>3. CASE node.loaded = m
    <3>1. own' = own /\ node' = node /\ (LoadingOwn' <=> LoadingOwn)
      BY <1>1, <2>2, <2>3 DEF LoadingOwn
    <3>2. m \notin node.claim
      BY <2>3 DEF IInv, Apart
    <3>. QED BY <1>1, <2>2, <2>3, <3>1, <3>2 DEF IInv, Covered, machine
  <2>4. CASE node.loaded # m
    <3>1. ~OwnLoad(m) /\ (LoadingOwn => own < Settle)
      BY <1>1, <2>4, AnnouncedFacts
    <3>2. LoadingOwn' /\ m \in node'.claim
      BY <1>3, <2>2, <2>4 DEF LoadingOwn
    <3>3. CASE LoadingOwn
      BY <1>1, <1>3, <2>1, <2>2, <2>4, <3>1, <3>2, <3>3 DEF IInv, Covered, machine, Punctual
    <3>4. CASE ~LoadingOwn
      <4>1. \A t \in Tasks : prewarm[t].pc # "load"
        BY <2>1, <3>4 DEF LoadingOwn, Models
      <4>2. \A a \in Models : OwnLoad(a)' => a = m
        BY <2>2, <3>4 DEF LoadingOwn
      <4>3. node.claim = {} /\ node.late = {}
        BY <1>2, <3>4 DEF IInv, ClaimsEnd, Apart, LoadingOwn, Nodes
      <4>. QED BY <1>1, <1>3, <3>2, <4>1, <4>2, <4>3 DEF Covered, Punctual
    <3>. QED BY <3>3, <3>4
  <2>. QED BY <2>3, <2>4
<1>. QED BY <1>5, <1>6, <1>7, <1>8 DEF IInv

LEMMA AbortType ==
    ASSUME TypeOK, NEW m, Abort(m)
    PROVE  leaving' \in BOOLEAN /\ filling' \in {filling, "none"}
BY DEF TypeOK, Abort

\* The claim of a request ends with it; its tail begins, or its model stands in the card.
LEMMA FinishStep == ASSUME IInv, Finish PROVE IInv'
<1>1. /\ request # "none" /\ request' = "none" /\ model' = "rank1" /\ cold' = FALSE /\ fetch' \in BOOLEAN
      /\ node' = [FinishLoad(node, model) EXCEPT !.rest = 0]
      /\ leaving' \in BOOLEAN /\ filling' \in {filling, "none"}
      /\ UNCHANGED <<game, card, tight, prewarm, unload, clocks, events, history>>
  BY AbortType DEF IInv, TypeOK, Finish
<1>2. node \in Nodes /\ model \in Models
  BY DEF IInv, TypeOK
<1>. DEFINE done == FinishLoad(node, model)
<1>3. /\ done \in Nodes /\ done.state = node.state /\ done.hot = node.hot /\ done.known = node.known
      /\ done.loaded = node.loaded /\ done.claim = node.claim \ {model}
      /\ done.hold = IF model \in node.claim THEN Settle ELSE node.hold
      /\ Punctual(node, done)
  BY <1>2, FinishLoadEffects
<1>. HIDE DEF done
<1>4. /\ node' \in Nodes /\ node'.state = node.state /\ node'.hot = node.hot /\ node'.known = node.known
      /\ node'.loaded = node.loaded /\ node'.claim = node.claim \ {model}
      /\ node'.hold = IF model \in node.claim THEN Settle ELSE node.hold
      /\ Punctual(node, node')
  <2>1. node' = [done EXCEPT !.rest = 0] /\ 0 \in 0..Rest
    BY <1>1, Numbers DEF done
  <2>. QED BY <1>3, <2>1 DEF Nodes, Punctual
<1>5. TypeOK'
  BY <1>1, <1>4 DEF IInv, TypeOK, Models, clocks, history
<1>6. ClaimsEnd' /\ Apart' /\ OneLoad' /\ Cool'
  BY <1>1, <1>4 DEF IInv, ClaimsEnd, OwnLoad, Apart, OneLoad, Cool, Punctual
<1>7. Reported'
  BY <1>1, <1>4, ReportedKept DEF IInv, history
<1>8. Covered'
  <2>. SUFFICES ASSUME own < Settle PROVE Covered'
    BY <1>1 DEF Covered, history
  <2>1. \A m \in Models : OwnLoad(m)' <=> m = "rank1" /\ \E t \in Tasks : prewarm[t].pc = "load"
    BY <1>1 DEF OwnLoad
  <2>2. \A m \in Models : OwnLoad(m)' => m \in node'.claim \/ (card' = m /\ node'.loaded = m)
    BY <1>1, <1>4, <2>1 DEF IInv, Covered, OwnLoad
  <2>3. LoadingOwn' \/ node'.loaded # "none" \/ node'.claim # {} \/ node'.hold + own' >= Settle
    <3>1. node.hold \in 0..Settle /\ own \in 0..Settle
      BY DEF IInv, TypeOK, Nodes
    <3>2. CASE model \in node.claim
      BY <1>1, <1>4, <3>1, <3>2, Numbers DEF history
    <3>3. CASE model \notin node.claim
      <4>1. node'.claim = node.claim /\ node'.hold = node.hold
        BY <1>4, <3>3
      <4>2. LoadingOwn => LoadingOwn' \/ node.loaded # "none"
        BY <1>2, <2>1, <3>3 DEF IInv, Covered, LoadingOwn, OwnLoad, Models
      <4>. QED BY <1>1, <1>4, <4>1, <4>2 DEF IInv, Covered, history
    <3>. QED BY <3>2, <3>3
  <2>. QED BY <1>1, <1>4, <2>2, <2>3 DEF IInv, Covered, Punctual
<1>. QED BY <1>5, <1>6, <1>7, <1>8 DEF IInv

\* The end of a prewarm's load: it was the only one, and no request used its claim.
LEMMA LoadEndsStep == ASSUME IInv, NEW t \in Tasks, LoadEnds(t) PROVE IInv'
<1>1. /\ prewarm[t].pc = "load" /\ prewarm' = [prewarm EXCEPT ![t] = [pc |-> "poll", fresh |-> FALSE]]
      /\ node' = FinishLoad(node, "rank1")
      /\ leaving' \in BOOLEAN /\ filling' \in {filling, "none"} /\ events' \in 0..MaxEvents
      /\ UNCHANGED <<game, card, tight, requests, unload, clocks, history>>
  BY AbortType, EventType DEF IInv, TypeOK, LoadEnds, At, Goes
<1>2. node \in Nodes /\ "rank1" \in Models /\ prewarm \in [Tasks -> TaskStates]
  BY DEF IInv, TypeOK, Models
<1>3. /\ node' \in Nodes /\ node'.state = node.state /\ node'.hot = node.hot /\ node'.known = node.known
      /\ node'.loaded = node.loaded /\ node'.claim = node.claim \ {"rank1"}
      /\ node'.hold = IF "rank1" \in node.claim THEN Settle ELSE node.hold
      /\ Punctual(node, node')
  BY <1>1, <1>2, FinishLoadEffects
<1>4. /\ prewarm' \in [Tasks -> TaskStates]
      /\ \A s \in Tasks : prewarm'[s].pc = "load" <=> s # t /\ prewarm[s].pc = "load"
  BY <1>1, <1>2 DEF TaskStates
<1>5. TypeOK'
  BY <1>1, <1>3, <1>4 DEF IInv, TypeOK, requests, clocks, history
<1>6. ClaimsEnd' /\ Apart' /\ OneLoad' /\ Cool'
  BY <1>1, <1>3, <1>4 DEF IInv, ClaimsEnd, OwnLoad, Apart, OneLoad, Cool, requests, Punctual
<1>7. Reported'
  BY <1>1, <1>3, ReportedKept DEF IInv, history
<1>8. Covered'
  <2>. SUFFICES ASSUME own < Settle PROVE Covered'
    BY <1>1 DEF Covered, history
  <2>1. \A s \in Tasks : prewarm'[s].pc # "load"
    BY <1>1, <1>4 DEF IInv, Covered
  <2>2. \A m \in Models : OwnLoad(m)' <=> request # "none" /\ cold /\ model = m
    BY <1>1, <2>1 DEF OwnLoad, requests
  <2>3. \A m \in Models : OwnLoad(m)' => m \in node'.claim \/ (card' = m /\ node'.loaded = m)
    BY <1>1, <1>3, <2>2 DEF IInv, Covered, OwnLoad
  <2>4. LoadingOwn' \/ node'.loaded # "none" \/ node'.claim # {} \/ node'.hold + own' >= Settle
    <3>1. node.hold \in 0..Settle /\ own \in 0..Settle
      BY DEF IInv, TypeOK, Nodes
    <3>2. CASE "rank1" \in node.claim
      BY <1>1, <1>3, <3>1, <3>2, Numbers DEF history
    <3>3. CASE "rank1" \notin node.claim
      <4>1. OwnLoad("rank1")
        BY <1>1 DEF OwnLoad
      <4>2. node.loaded # "none"
        BY <1>2, <3>3, <4>1 DEF IInv, Covered, Models
      <4>. QED BY <1>3, <4>2
    <3>. QED BY <3>2, <3>3
  <2>. QED BY <1>1, <1>3, <2>1, <2>3, <2>4 DEF IInv, Covered, Punctual
<1>. QED BY <1>5, <1>6, <1>7, <1>8 DEF IInv

\* A task that goes from one waiting place to another.
LEMMA TaskKeeps ==
    ASSUME IInv, NEW t \in Tasks, NEW pc \in {"none", "look", "poll"}, Goes(t, pc), prewarm[t].pc # "load",
           UNCHANGED <<machine, requests, unload, clocks, events, history>>,
           node' = node \/ (\E c \in BOOLEAN : node' = [node EXCEPT !.catchUp = c])
    PROVE  IInv'
<1>1. node \in Nodes /\ prewarm \in [Tasks -> TaskStates]
  BY DEF IInv, TypeOK
<1>2. /\ node' \in Nodes /\ node'.state = node.state /\ node'.hot = node.hot /\ node'.known = node.known
      /\ node'.loaded = node.loaded /\ node'.claim = node.claim /\ node'.late = node.late
      /\ node'.hold = node.hold
  BY <1>1 DEF Nodes
<1>3. prewarm' \in [Tasks -> TaskStates] /\ SameLoads(prewarm, prewarm')
  BY <1>1 DEF Goes, TaskStates, SameLoads
<1>4. (\A m \in Models : OwnLoad(m)' <=> OwnLoad(m)) /\ (LoadingOwn' <=> LoadingOwn)
  BY <1>3, OwnLoadKept DEF requests
<1>5. TypeOK'
  BY <1>2, <1>3 DEF IInv, TypeOK, machine, requests, clocks, history
<1>6. ClaimsEnd' /\ Apart' /\ OneLoad' /\ Cool'
  BY <1>2, <1>4 DEF IInv, TypeOK, Nodes, ClaimsEnd, Apart, OneLoad, Cool, machine, requests
<1>7. Reported'
  BY <1>2, ReportedKept DEF IInv, machine, history
<1>8. Covered'
  BY <1>2, <1>3, <1>4 DEF IInv, Covered, SameLoads, machine, requests, history
<1>. QED BY <1>5, <1>6, <1>7, <1>8 DEF IInv

LEMMA WakeStep == ASSUME IInv, NEW t \in Tasks, Wake(t) PROVE IInv'
<1>1. prewarm[t].pc # "load" /\ node' = node /\ UNCHANGED <<machine, requests, unload, clocks, events, history>>
  BY DEF Wake, At
<1>2. Goes(t, "look") \/ Goes(t, "none")
  BY DEF Wake
<1>. QED BY <1>1, <1>2, TaskKeeps

\* A prewarm announces its load: none of the router's own may be under way for that model.
LEMMA DecideStep == ASSUME IInv, NEW t \in Tasks, Decide(t) PROVE IInv'
<1>1. /\ prewarm[t].pc = "look" /\ UNCHANGED <<machine, requests, unload, clocks, events, played>>
  BY DEF Decide, At
<1>2. node \in Nodes /\ "rank1" \in Models /\ prewarm \in [Tasks -> TaskStates] /\ own \in 0..Settle
  BY DEF IInv, TypeOK, Models
<1>3. CASE own' = own /\ (Goes(t, "none") \/ Goes(t, "poll"))
           /\ (node' = node \/ node' = [node EXCEPT !.catchUp = @ \/ Blocks(node)])
  <2>1. node' = node \/ \E c \in BOOLEAN : node' = [node EXCEPT !.catchUp = c]
    <3>1. (node.catchUp \/ Blocks(node)) \in BOOLEAN
      OBVIOUS
    <3>. QED BY <1>2, <1>3, <3>1 DEF Nodes
  <2>. QED BY <1>1, <1>3, <2>1, TaskKeeps DEF history
<1>4. CASE /\ Goes(t, "load") /\ node' = AnnounceLoad(node, "rank1") /\ own' = Announced("rank1")
           /\ node.loaded # "rank1" /\ node.state = "free"
  <2>1. /\ node' \in Nodes /\ node'.state = node.state /\ node'.hot = node.hot
        /\ node'.known = node.known /\ node'.loaded = node.loaded /\ node'.hold = node.hold
        /\ node'.claim = node.claim \cup {"rank1"} /\ Punctual(node, node')
    BY <1>2, <1>4, AnnounceLoadEffects
  <2>2. own' \in 0..Settle
    BY <1>2, <1>4, Numbers DEF Announced
  <2>3. /\ prewarm' \in [Tasks -> TaskStates]
        /\ \A s \in Tasks : prewarm'[s].pc = "load" <=> s = t \/ prewarm[s].pc = "load"
    BY <1>2, <1>4 DEF Goes, TaskStates
  <2>4. TypeOK'
    BY <1>1, <2>1, <2>2, <2>3 DEF IInv, TypeOK, machine, requests, clocks
  <2>5. ClaimsEnd' /\ Apart' /\ OneLoad' /\ Cool'
    BY <1>1, <1>4, <2>1, <2>3 DEF IInv, ClaimsEnd, OwnLoad, Apart, OneLoad, Cool, machine, requests, Punctual
  <2>6. Reported'
    BY <1>1, <2>1, ReportedKept DEF IInv, machine
  <2>7. Covered'
    <3>. SUFFICES ASSUME own' < Settle PROVE Covered'
      BY DEF Covered
    <3>1. /\ ~OwnLoad("rank1") /\ ~(request # "none" /\ model = "rank1")
          /\ LoadingOwn => own < Settle
      BY <1>2, <1>4, AnnouncedFacts
    <3>2. \A s \in Tasks : prewarm[s].pc # "load"
      BY <3>1 DEF OwnLoad
    <3>3. \A m \in Models : OwnLoad(m)' => m = "rank1" \/ OwnLoad(m)
      BY <1>1 DEF OwnLoad, requests
    <3>4. LoadingOwn' /\ "rank1" \in node'.claim
      BY <1>2, <2>1, <2>3 DEF LoadingOwn, OwnLoad
    <3>5. \A m \in Models : OwnLoad(m)' => m \in node'.claim \/ (card' = m /\ node'.loaded = m)
      <4>. SUFFICES ASSUME NEW m \in Models, m # "rank1", OwnLoad(m)
                    PROVE  m \in node'.claim \/ (card' = m /\ node'.loaded = m)
        BY <3>3, <3>4
      <4>1. LoadingOwn
        BY DEF LoadingOwn
      <4>. QED BY <1>1, <2>1, <3>1, <4>1 DEF IInv, Covered, machine
    <3>6. \A r, s \in Tasks : prewarm'[r].pc = "load" /\ prewarm'[s].pc = "load" => r = s
      BY <2>3, <3>2
    <3>7. node'.late = {}
      <4>1. CASE LoadingOwn
        BY <2>1, <3>1, <4>1 DEF IInv, Covered, Punctual
      <4>2. CASE ~LoadingOwn
        BY <1>2, <2>1, <4>2 DEF IInv, ClaimsEnd, Apart, LoadingOwn, Nodes, Punctual
      <4>. QED BY <4>1, <4>2
    <3>. QED BY <1>1, <1>4, <2>1, <3>1, <3>4, <3>5, <3>6, <3>7 DEF Covered, requests
  <2>. QED BY <2>4, <2>5, <2>6, <2>7 DEF IInv
<1>5. \/ /\ own' = own /\ (Goes(t, "none") \/ Goes(t, "poll"))
         /\ (node' = node \/ node' = [node EXCEPT !.catchUp = @ \/ Blocks(node)])
      \/ /\ Goes(t, "load") /\ node' = AnnounceLoad(node, "rank1") /\ own' = Announced("rank1")
         /\ node.loaded # "rank1" /\ node.state = "free"
  BY DEF Decide
<1>. QED BY <1>3, <1>4, <1>5

LEMMA UnloadStep == ASSUME IInv, Unload PROVE IInv'
<1>1. /\ UNCHANGED <<game, filling, tight, node, requests, prewarm, clocks, played>>
      /\ unload' = FALSE /\ leaving' \in BOOLEAN /\ card' \in {card, "none"}
      /\ events' \in 0..MaxEvents /\ own' \in {own, Settle}
      /\ card' # card => own' = Settle \/ ~OwnLoad(card)
  BY EventType DEF IInv, TypeOK, Unload
<1>2. own \in 0..Settle /\ Settle \in 0..Settle
  BY Numbers DEF IInv, TypeOK
<1>3. \A m \in Models : OwnLoad(m)' <=> OwnLoad(m)
  BY <1>1 DEF OwnLoad, requests
<1>4. LoadingOwn' <=> LoadingOwn
  BY <1>3 DEF LoadingOwn
<1>5. TypeOK'
  BY <1>1, <1>2 DEF IInv, TypeOK, requests, clocks
<1>6. ClaimsEnd' /\ Apart' /\ OneLoad' /\ Cool'
  BY <1>1, <1>3 DEF IInv, TypeOK, Nodes, ClaimsEnd, Apart, OneLoad, Cool, requests
<1>7. Reported'
  BY <1>1, ReportedKept DEF IInv
<1>8. Covered'
  <2>. SUFFICES ASSUME own' < Settle PROVE Covered'
    BY DEF Covered
  <2>1. own' = own /\ own < Settle
    BY <1>1, <1>2, Numbers
  <2>2. \A m \in Models : OwnLoad(m)' => m \in node'.claim \/ (card' = m /\ node'.loaded = m)
    BY <1>1, <1>2, <1>3, <2>1, Numbers DEF IInv, Covered
  <2>. QED BY <1>1, <1>4, <2>1, <2>2 DEF IInv, Covered, requests
<1>. QED BY <1>5, <1>6, <1>7, <1>8 DEF IInv

----------------------------------------------------------------------------
(* The theorems *)

LEMMA StepInv == ASSUME IInv, [Next]_vars PROVE IInv'
<1>1. CASE UNCHANGED vars
  BY <1>1 DEF IInv, TypeOK, ClaimsEnd, Reported, Covered, OwnLoad, LoadingOwn, Apart, OneLoad, Cool,
     vars, machine, requests, clocks, history
<1>2. CASE Next
  BY <1>2, AdoptSteps, GoOfflineStep, LostStep, ClaimLapsesStep, BeatStep, TickStep, MachineSteps, RunsStep, BeginStep,
     FinishStep, UnloadStep, WakeStep, DecideStep, LoadEndsStep DEF Next
<1>. QED BY <1>1, <1>2

THEOREM Invariance == Spec => []IInv
<1>. QED BY InitInv, StepInv, PTL DEF Spec

THEOREM TypeCorrect == Spec => []TypeOK
<1>1. IInv => TypeOK
  BY DEF IInv
<1>. QED BY <1>1, Invariance, PTL

\* A claim of memory ends with the load it was made for.
THEOREM ClaimsAlwaysEnd == Spec => []ClaimsEnd
<1>1. IInv => ClaimsEnd
  BY DEF IInv
<1>. QED BY <1>1, Invariance, PTL

\* Only a report turns a node busy.
LEMMA OnlyReportsTurn ==
    ASSUME IInv, [Next]_vars
    PROVE  BusyBy \/ node'.state = node.state
<1>1. node \in Nodes
  BY DEF IInv, TypeOK
<1>2. CASE Poll \/ ColdPoll \/ \E t \in Tasks : PollAfter(t)
  <2>1. prewarm \in [Tasks -> TaskStates] /\ SameLoads(prewarm, prewarm)
    BY DEF IInv, TypeOK, SameLoads
  <2>2. CASE AdoptState(prewarm, FALSE)
    BY <2>1, <2>2, AdoptEffects
  <2>3. ASSUME NEW t \in Tasks, At(t, "poll"),
               AdoptState([prewarm EXCEPT ![t] = [pc |-> "none", fresh |-> FALSE]], TRUE)
        PROVE  BusyBy
    <3>. DEFINE rest == [prewarm EXCEPT ![t] = [pc |-> "none", fresh |-> FALSE]]
    <3>1. rest \in [Tasks -> TaskStates] /\ SameLoads(prewarm, rest)
      BY <2>1, <2>3 DEF TaskStates, SameLoads, At
    <3>. HIDE DEF rest
    <3>2. AdoptState(rest, TRUE)
      BY <2>3 DEF rest
    <3>. QED BY <3>1, <3>2, AdoptEffects
  <2>. QED BY <1>2, <2>2, <2>3 DEF Poll, ColdPoll, PollAfter
<1>3. CASE Beat \/ Tick
  BY <1>3, BeatStep, TickStep
<1>4. CASE GoOffline
  BY <1>1, <1>4 DEF GoOffline, Nodes, BusyBy
<1>7. CASE ClaimLapses
  BY <1>7, ClaimLapsesStep
<1>5. CASE Finish \/ (\E m \in Models : Begin(m)) \/ (\E t \in Tasks : Decide(t) \/ LoadEnds(t))
  <2>1. model \in Models /\ "rank1" \in Models
    BY DEF IInv, TypeOK, Models
  <2>2. \A m \in Models : /\ AnnounceLoad(node, m).state = node.state
                          /\ FinishLoad(node, m).state = node.state /\ FinishLoad(node, m) \in Nodes
    BY <1>1, AnnounceLoadEffects, FinishLoadEffects
  <2>3. CASE Finish
    BY <2>1, <2>2, <2>3 DEF Finish, Nodes
  <2>4. CASE \E m \in Models : Begin(m)
    BY <2>2, <2>4 DEF Begin
  <2>5. CASE \E t \in Tasks : LoadEnds(t)
    BY <2>1, <2>2, <2>5 DEF LoadEnds
  <2>6. CASE \E t \in Tasks : Decide(t)
    <3>1. \/ node' = node \/ node' = AnnounceLoad(node, "rank1")
          \/ node' = [node EXCEPT !.catchUp = @ \/ Blocks(node)]
      BY <2>6 DEF Decide
    <3>. QED BY <1>1, <2>1, <2>2, <3>1 DEF Nodes
  <2>. QED BY <1>5, <2>3, <2>4, <2>5, <2>6
<1>6. CASE UNCHANGED node
  BY <1>6
<1>. QED BY <1>2, <1>3, <1>4, <1>5, <1>6, <1>7
     DEF Next, Lost, Plays, RamChanges, KeepAliveEnds, Filled, OtherClient, Fill, Runs, Unload, Wake, vars

\* Foreign memory of a model's size is none while the router's own load is covered.
LEMMA CoveredIsNotForeign ==
    ASSUME IInv, own < Settle, Foreign(node) >= ForeignMin
    PROVE  node.frozen >= ForeignMin
<1>1. /\ node \in Nodes /\ node.used \in 0..Total /\ node.frozen \in 0..Total /\ node.hold \in 0..Settle
      /\ own \in 0..Settle
  BY DEF IInv, TypeOK, Nodes
<1>2. node.loaded # "none" \/ node.claim # {} \/ node.hold > 0
  <2>1. CASE LoadingOwn
    <3>1. PICK m \in Models : OwnLoad(m)
      BY <2>1 DEF LoadingOwn
    <3>. QED BY <3>1 DEF IInv, Covered, Models
  <2>2. CASE node.hold + own >= Settle
    BY <1>1, <2>2, Numbers
  <2>. QED BY <2>1, <2>2 DEF IInv, Covered
<1>3. Claimed(node) = Size
  <2>1. Live(node) = node.claim
    BY DEF IInv, Covered, Live
  <2>. QED BY <1>1, <1>2, <2>1, MemoryFacts
<1>4. Raw(node) < ForeignMin
  BY <1>1, <1>3, Numbers DEF Raw, MaxOf
<1>5. Raw(node) \in 0..Total
  BY <1>1, MemoryFacts
<1>6. Foreign(node) \in {Raw(node), node.frozen}
  BY DEF Foreign, MaxOf
<1>. QED BY <1>1, <1>4, <1>5, <1>6, Numbers

\* Memory that the router has announced, and its tail, turns no node busy.
THEOREM OwnLoadNeverForeign == Spec => OwnLoadIsNotForeign
<1>. DEFINE A == node.state = "free" /\ node'.state = "busy" =>
                    \/ own' = Settle \/ played' < Stale
                    \/ node'.reason = "game" \/ node'.frozen >= ForeignMin
<1>1. ASSUME IInv, IInv', [Next]_vars PROVE A
  <2>. SUFFICES ASSUME node.state = "free", node'.state = "busy", own' # Settle, ~(played' < Stale),
                       node'.reason # "game"
                PROVE  node'.frozen >= ForeignMin
    OBVIOUS
  <2>1. Known(node') /\ (node'.hot >= Sustain \/ Foreign(node') >= ForeignMin)
    BY <1>1, OnlyReportsTurn DEF BusyBy
  <2>2. /\ own' \in 0..Settle /\ played' \in 0..Stale /\ node'.known \in 0..Stale /\ node'.hot \in Ages
    BY <1>1 DEF IInv, TypeOK, Nodes
  <2>3. ~(node'.hot >= Sustain)
    <3>1. node'.known > 0 /\ played' + node'.known > Stale
      BY <2>1, <2>2, Numbers DEF Known
    <3>2. node'.hot # Unset => node'.hot + node'.known <= Stale
      BY <1>1, <3>1 DEF IInv, Reported
    <3>3. node'.hot \in Int
      BY <2>2, AgeFacts
    <3>. QED BY <2>2, <3>1, <3>2, <3>3, Numbers DEF Unset
  <2>4. own' < Settle
    BY <2>2, Numbers
  <2>5. (own < Settle /\ IInv /\ Foreign(node) >= ForeignMin => node.frozen >= ForeignMin)'
    BY CoveredIsNotForeign, PTL
  <2>. QED BY <1>1, <2>1, <2>3, <2>4, <2>5
<1>2. IInv /\ IInv' /\ [Next]_vars => [A]_vars
  BY <1>1
<1>. QED BY <1>2, Invariance, PTL DEF Spec, OwnLoadIsNotForeign

----------------------------------------------------------------------------
(* UpstreamHold *)


\* The flags of all parties at one point of an order.
Flags(u, up, sb, fb, sw, w, on) ==
    /\ uHeld = u /\ held[Upstream] = up /\ held[Standby] = sb
    /\ fbRunning = fb /\ swOn = sw /\ wHeld = w /\ fbOn = on

Phase ==
    /\ step = "idle" => \/ Flags(FALSE, FALSE, TRUE, FALSE, FALSE, FALSE, FALSE)
                        \/ Flags(TRUE, TRUE, TRUE, FALSE, FALSE, TRUE, FALSE)
                        \/ Flags(TRUE, TRUE, FALSE, TRUE, TRUE, TRUE, TRUE)
    /\ step = "stop" => Flags(FALSE, FALSE, TRUE, FALSE, FALSE, TRUE, FALSE)
    /\ step = "stopping" => Flags(FALSE, TRUE, TRUE, FALSE, FALSE, TRUE, FALSE)
    /\ step = "standby" => /\ Flags(TRUE, TRUE, TRUE, FALSE, FALSE, TRUE, FALSE)
                           /\ proc[Upstream] # "dying"
    /\ step = "switch" => Flags(TRUE, TRUE, FALSE, FALSE, FALSE, TRUE, FALSE)
    /\ step = "report" => Flags(TRUE, TRUE, FALSE, FALSE, TRUE, TRUE, FALSE)
    /\ step \in {"drain", "drained"} => Flags(TRUE, TRUE, FALSE, TRUE, TRUE, FALSE, FALSE)
    /\ step = "park" => Flags(TRUE, TRUE, FALSE, TRUE, FALSE, FALSE, FALSE)
    /\ step = "parking" => Flags(TRUE, TRUE, TRUE, TRUE, FALSE, FALSE, FALSE)
    /\ step = "release" => Flags(TRUE, TRUE, TRUE, FALSE, FALSE, FALSE, FALSE)

DyingShows == \A c \in Children : proc[c] = "dying" => shown[c]
BlockedIsIdle == blocked => step = "idle" /\ uHeld
Told == /\ wHeld => told = "held"
        /\ serving => wHeld /\ fbOn

HoldInv == /\ HoldTypeOK /\ Phase /\ DyingShows /\ GoneBeforeStandby /\ BlockedIsIdle /\ Told

\* The states the agent starts in, with the upstream or with the standby.
LEMMA HoldInitInv == HoldInit => HoldInv
<1>1. SUFFICES ASSUME HoldInit PROVE HoldInv
      OBVIOUS
<1>2. Upstream \in Children /\ Standby \in Children /\ Upstream # Standby
      BY ChildrenAssumption
<1>3. PICK startHeld \in BOOLEAN :
          /\ SupervisorInit(IF startHeld THEN Upstream ELSE Standby)
          /\ uHeld = startHeld /\ fbRunning = startHeld /\ swOn = startHeld
          /\ wHeld = startHeld /\ fbOn = startHeld /\ grace = ~startHeld
          /\ told = IF startHeld THEN "held" ELSE "none"
      BY <1>1 DEF HoldInit
<1>4. \/ /\ SupervisorInit(Upstream) /\ told = "held" /\ grace = FALSE
         /\ uHeld = TRUE /\ fbRunning = TRUE /\ swOn = TRUE /\ wHeld = TRUE /\ fbOn = TRUE
      \/ /\ SupervisorInit(Standby) /\ told = "none" /\ grace = TRUE
         /\ uHeld = FALSE /\ fbRunning = FALSE /\ swOn = FALSE /\ wHeld = FALSE /\ fbOn = FALSE
      BY <1>3
<1>5. SupervisorTypeOK
  <2>1. held \in [Children -> BOOLEAN]
        BY <1>4 DEF SupervisorInit
  <2>2. shown \in [Children -> BOOLEAN] /\ proc \in [Children -> {"none", "alive", "dying"}]
        /\ loop \in [Children -> LoopStates]
        BY <1>4 DEF SupervisorInit, LoopStates
  <2> QED BY <2>1, <2>2 DEF SupervisorTypeOK
<1>6. HoldTypeOK
      BY <1>1, <1>4, <1>5 DEF HoldInit, HoldTypeOK, Kinds, Steps, NoPoll
<1>7. DyingShows /\ GoneBeforeStandby /\ BlockedIsIdle
      BY <1>1, <1>2, <1>4 DEF HoldInit, SupervisorInit, DyingShows, GoneBeforeStandby, BlockedIsIdle
<1>8. \/ Flags(TRUE, TRUE, FALSE, TRUE, TRUE, TRUE, TRUE)
      \/ Flags(FALSE, FALSE, TRUE, FALSE, FALSE, FALSE, FALSE)
  <2>1. SupervisorInit(Upstream) => held[Upstream] = TRUE /\ held[Standby] = FALSE
        BY <1>2 DEF SupervisorInit
  <2>2. SupervisorInit(Standby) => held[Upstream] = FALSE /\ held[Standby] = TRUE
        BY <1>2 DEF SupervisorInit
  <2> QED BY <1>4, <2>1, <2>2 DEF Flags
<1>9. Phase
      BY <1>1, <1>8 DEF HoldInit, Phase
<1>10. Told
      BY <1>1, <1>4 DEF HoldInit, Told
<1> QED BY <1>6, <1>7, <1>9, <1>10 DEF HoldInv

\* One step of a child's loop, or the end of its process, kills nothing.
LEMMA ChildSteps == ASSUME HoldInv, NEW c \in Children, ChildStep(c) PROVE HoldInv'
<1>1. UNCHANGED <<held, orderVars, holdVars, swOn, watchVars, poll>>
      BY DEF ChildStep, LoopStep, PassGate, Launch, Record, Dies, Reap, BackoffOver
<1>2. HoldTypeOK'
  <2>1. SupervisorTypeOK'
        BY DEF HoldInv, HoldTypeOK, SupervisorTypeOK, LoopStates, LoopGoes, ChildStep, LoopStep,
           PassGate, Launch, Record, Dies, Reap, BackoffOver
  <2> QED BY <1>1, <2>1 DEF HoldInv, HoldTypeOK, orderVars, holdVars, watchVars
<1>3. \A d \in Children : proc'[d] = "dying" => proc[d] = "dying" /\ shown'[d] = shown[d]
      BY DEF HoldInv, HoldTypeOK, SupervisorTypeOK, ChildStep, LoopStep, LoopGoes,
         PassGate, Launch, Record, Dies, Reap, BackoffOver, DyingShows
<1>4. DyingShows' BY <1>3 DEF HoldInv, DyingShows
<1>5. GoneBeforeStandby'
      BY <1>1, <1>3, ChildrenAssumption DEF HoldInv, GoneBeforeStandby
<1>6. Phase'
      BY <1>1, <1>3, ChildrenAssumption DEF HoldInv, Phase, Flags, orderVars, holdVars, watchVars
<1>7. BlockedIsIdle' /\ Told'
      BY <1>1 DEF HoldInv, BlockedIsIdle, Told, holdVars, watchVars
<1> QED BY <1>2, <1>4, <1>5, <1>6, <1>7 DEF HoldInv

\* The steps that only move an order along and leave the children alone.
LEMMA QuietSteps ==
    ASSUME HoldInv, UNCHANGED supervisorVars
    PROVE  SupervisorTypeOK' /\ DyingShows'
BY DEF HoldInv, HoldTypeOK, SupervisorTypeOK, DyingShows, supervisorVars

WatchTypeOK ==
    /\ wHeld \in BOOLEAN /\ fbOn \in BOOLEAN /\ grace \in BOOLEAN
    /\ told \in {"none", "answering", "starting", "held", "down"} /\ serving \in BOOLEAN

\* The calls of the watcher by an order.
LEMMA WatchType ==
    ASSUME HoldInv, UNCHANGED watchVars \/ SetHeld \/ SetReleased PROVE WatchTypeOK'
<1>1. CASE UNCHANGED watchVars
      BY <1>1 DEF HoldInv, HoldTypeOK, WatchTypeOK, watchVars
<1>2. CASE SetHeld
      BY <1>2 DEF HoldInv, HoldTypeOK, WatchTypeOK, SetHeld
<1>3. CASE SetReleased
      BY <1>3 DEF WatchTypeOK, SetReleased
<1> QED BY <1>1, <1>2, <1>3

\* An order arrives; nothing else changes.
LEMMA HandleStep == ASSUME HoldInv, NEW k \in Kinds, Handle(k) PROVE HoldInv'
<1>1. UNCHANGED <<supervisorVars, holdVars, swOn, watchVars, poll>>
      BY DEF Handle
<1>2. HoldTypeOK'
      BY <1>1, QuietSteps DEF HoldInv, HoldTypeOK, Handle, holdVars, watchVars
<1> QED BY <1>1, <1>2 DEF HoldInv, Phase, Flags, DyingShows, GoneBeforeStandby, BlockedIsIdle, Told,
        supervisorVars, holdVars, watchVars

\* A poll of the watcher, also one that ends after a hold or a release.
LEMMA PollSteps == ASSUME HoldInv, PollAsk \/ PollFetch \/ PollUpstream \/ PollStandby PROVE HoldInv'
<1>1. UNCHANGED <<supervisorVars, orderVars, holdVars, swOn, wHeld, fbOn>>
      BY DEF PollAsk, PollFetch, PollUpstream, PollStandby, watchVars
<1>2. HoldTypeOK'
  <2>1. told' \in {"none", "answering", "starting", "held", "down"}
        /\ serving' \in BOOLEAN /\ grace' \in BOOLEAN
        BY DEF HoldInv, HoldTypeOK, PollAsk, PollFetch, PollUpstream, PollStandby, TellUpstream, watchVars
  <2>2. poll' \in [at : {"none", "upstream", "standby"}, result : {"none", "asked", "ok", "error"}]
    <3>1. CASE PollAsk
          BY <3>1 DEF PollAsk
    <3>2. CASE PollFetch
          BY <3>2 DEF HoldInv, HoldTypeOK, PollFetch
    <3>3. CASE PollUpstream \/ PollStandby
      <4>1. poll' = NoPoll
            BY <3>3 DEF PollUpstream, PollStandby
      <4> QED BY <4>1 DEF NoPoll
    <3> QED BY <3>1, <3>2, <3>3
  <2> QED BY <1>1, <2>1, <2>2, QuietSteps DEF HoldInv, HoldTypeOK, orderVars, holdVars
<1>3. Told'
      BY <1>1 DEF HoldInv, HoldTypeOK, Told, PollAsk, PollFetch, PollUpstream, PollStandby, TellUpstream, watchVars
<1> QED BY <1>1, <1>2, <1>3 DEF HoldInv, Phase, Flags, DyingShows, GoneBeforeStandby, BlockedIsIdle,
        supervisorVars, holdVars

\* Steps that take u.mu.
LEMMA TakingSteps ==
    ASSUME HoldInv, (\E k \in Kinds : Repeated(k)) \/ BeginHold \/ Refuse \/ BeginRelease PROVE HoldInv'
<1>1. UNCHANGED <<supervisorVars, sent, swOn, poll>> /\ step = "idle"
      BY DEF Repeated, BeginHold, Refuse, BeginRelease, Takes
<1>2. HoldTypeOK'
  <2>1. orders' \in [Kinds -> Nat]
        BY DEF HoldInv, HoldTypeOK, Repeated, BeginHold, Refuse, BeginRelease, Takes, Kinds
  <2>2. step' \in Steps /\ uHeld' \in BOOLEAN /\ fbRunning' \in BOOLEAN /\ blocked' \in BOOLEAN
        BY DEF HoldInv, HoldTypeOK, Repeated, BeginHold, Refuse, BeginRelease, OrderGoes, Steps, holdVars
  <2>3. UNCHANGED watchVars \/ SetHeld \/ SetReleased
        BY DEF Repeated, BeginHold, Refuse, BeginRelease
  <2>4. WatchTypeOK'
        BY <2>3, WatchType
  <2> QED BY <1>1, <2>1, <2>2, <2>4, QuietSteps DEF HoldInv, HoldTypeOK, WatchTypeOK
<1>3. DyingShows' /\ GoneBeforeStandby'
      BY <1>1 DEF HoldInv, DyingShows, GoneBeforeStandby, supervisorVars
<1>4. Phase' /\ BlockedIsIdle' /\ Told'
  <2>1. CASE \E k \in Kinds : Repeated(k)
        BY <1>1, <2>1 DEF HoldInv, Repeated, Phase, Flags, BlockedIsIdle, Told, supervisorVars, holdVars, watchVars
  <2>2. CASE BeginHold
        BY <1>1, <2>2 DEF HoldInv, HoldTypeOK, BeginHold, OrderGoes, SetHeld, Phase, Flags, BlockedIsIdle, Told, supervisorVars
  <2>3. CASE Refuse
        BY <1>1, <2>3 DEF HoldInv, Refuse, Phase, Flags, BlockedIsIdle, Told, supervisorVars, watchVars
  <2>4. CASE BeginRelease
        BY <1>1, <2>4 DEF HoldInv, HoldTypeOK, BeginRelease, OrderGoes, SetReleased, Phase, Flags, BlockedIsIdle, Told, supervisorVars
  <2> QED BY <2>1, <2>2, <2>3, <2>4
<1> QED BY <1>2, <1>3, <1>4 DEF HoldInv

\* The calls of the supervisor: Hold and Release of a child.
LEMMA SupervisorCalls ==
    ASSUME HoldInv, StopUpstream \/ StartStandby \/ StopStandby \/ StartUpstream PROVE HoldInv'
<1>1. UNCHANGED <<orderVars, fbRunning, blocked, swOn, watchVars, poll, shown, loop>>
      BY DEF StopUpstream, StartStandby, StopStandby, StartUpstream, Hold, Release
<1>2. Upstream \in Children /\ Standby \in Children /\ Upstream # Standby
      BY ChildrenAssumption
<1>3. SupervisorTypeOK'
      BY <1>1, <1>2 DEF HoldInv, HoldTypeOK, SupervisorTypeOK, StopUpstream, StartStandby, StopStandby,
         StartUpstream, Hold, Release
<1>4. step' \in Steps /\ uHeld' \in BOOLEAN
      BY DEF HoldInv, HoldTypeOK, StopUpstream, StartStandby, StopStandby, StartUpstream, OrderGoes, Steps
<1>5. HoldTypeOK'
      BY <1>1, <1>3, <1>4 DEF HoldInv, HoldTypeOK, orderVars, watchVars
<1>6. DyingShows'
      BY <1>1, <1>2 DEF HoldInv, HoldTypeOK, SupervisorTypeOK, DyingShows, StopUpstream, StartStandby,
         StopStandby, StartUpstream, Hold, Release
<1>7. BlockedIsIdle' /\ Told'
      BY <1>1 DEF HoldInv, BlockedIsIdle, Told, OrderGoes, StopUpstream, StartStandby, StopStandby,
         StartUpstream, watchVars
<1>8. Phase' /\ GoneBeforeStandby'
  <2>1. CASE StopUpstream
        BY <1>1, <1>2, <2>1 DEF HoldInv, HoldTypeOK, SupervisorTypeOK, Phase, Flags, GoneBeforeStandby,
           StopUpstream, OrderGoes, Hold, watchVars
  <2>2. CASE StartStandby
        BY <1>1, <1>2, <2>2 DEF HoldInv, HoldTypeOK, SupervisorTypeOK, Phase, Flags, GoneBeforeStandby,
           StartStandby, OrderGoes, Release, watchVars
  <2>3. CASE StopStandby
        BY <1>1, <1>2, <2>3 DEF HoldInv, HoldTypeOK, SupervisorTypeOK, Phase, Flags, GoneBeforeStandby,
           StopStandby, OrderGoes, Hold, watchVars
  <2>4. CASE StartUpstream
        BY <1>1, <1>2, <2>4 DEF HoldInv, HoldTypeOK, SupervisorTypeOK, Phase, Flags, GoneBeforeStandby,
           StartUpstream, OrderGoes, Release, watchVars
  <2> QED BY <2>1, <2>2, <2>3, <2>4
<1> QED BY <1>5, <1>6, <1>7, <1>8 DEF HoldInv

\* The other steps of an order, and the sampler.
LEMMA InnerSteps ==
    ASSUME HoldInv, \/ UpstreamStopped \/ SwitchOn \/ ReportStandby
                 \/ Drained \/ SwitchOff \/ StandbyStopped \/ Unblock
    PROVE  HoldInv'
<1>1. UNCHANGED <<supervisorVars, orderVars, poll>>
      BY DEF UpstreamStopped, SwitchOn, ReportStandby, Drained, SwitchOff, StandbyStopped, Unblock
<1>2. Upstream \in Children
      BY ChildrenAssumption
<1>3. WatchTypeOK'
  <2>1. CASE ReportStandby
        BY <2>1 DEF HoldInv, HoldTypeOK, WatchTypeOK, ReportStandby
  <2>2. CASE ~ReportStandby
    <3>1. UNCHANGED watchVars \/ SetReleased
          BY <2>2 DEF UpstreamStopped, SwitchOn, Drained, SwitchOff, StandbyStopped, Unblock
    <3> QED BY <3>1, WatchType
  <2> QED BY <2>1, <2>2
<1>4. /\ step' \in Steps /\ uHeld' \in BOOLEAN /\ fbRunning' \in BOOLEAN /\ blocked' \in BOOLEAN
      /\ swOn' \in BOOLEAN
      BY DEF HoldInv, HoldTypeOK, Steps, OrderGoes, UpstreamStopped, SwitchOn,
         ReportStandby, Drained, SwitchOff, StandbyStopped, Unblock
<1>5. HoldTypeOK'
      BY <1>1, <1>3, <1>4, QuietSteps DEF HoldInv, HoldTypeOK, WatchTypeOK, orderVars
<1>6. DyingShows' /\ GoneBeforeStandby'
      BY <1>1 DEF HoldInv, DyingShows, GoneBeforeStandby, supervisorVars
<1>7. Phase' /\ BlockedIsIdle' /\ Told'
  <2>1. CASE UpstreamStopped
        BY <1>1, <1>2, <2>1 DEF HoldInv, DyingShows, Phase, Flags, BlockedIsIdle, Told, UpstreamStopped,
           HoldStopped, HoldTimedOut, OrderGoes, supervisorVars, watchVars
  <2>2. CASE SwitchOn
        BY <1>1, <2>2 DEF HoldInv, Phase, Flags, BlockedIsIdle, Told, SwitchOn, OrderGoes, supervisorVars, watchVars
  <2>3. CASE ReportStandby
        BY <1>1, <2>3 DEF HoldInv, Phase, Flags, BlockedIsIdle, Told, ReportStandby, OrderGoes, supervisorVars
  <2>4. CASE Drained
        BY <1>1, <2>4 DEF HoldInv, Phase, Flags, BlockedIsIdle, Told, Drained, OrderGoes, supervisorVars, watchVars
  <2>5. CASE SwitchOff
        BY <1>1, <2>5 DEF HoldInv, Phase, Flags, BlockedIsIdle, Told, SwitchOff, OrderGoes, supervisorVars, watchVars
  <2>6. CASE StandbyStopped
        BY <1>1, <2>6 DEF HoldInv, Phase, Flags, BlockedIsIdle, Told, StandbyStopped, OrderGoes, SetReleased, supervisorVars
  <2>7. CASE Unblock
        BY <1>1, <2>7 DEF HoldInv, Phase, Flags, BlockedIsIdle, Told, Unblock, supervisorVars, watchVars
  <2> QED BY <2>1, <2>2, <2>3, <2>4, <2>5, <2>6, <2>7
<1> QED BY <1>5, <1>6, <1>7 DEF HoldInv

\* Every step keeps the invariant.
LEMMA HoldStepInv == HoldInv /\ [HoldNext]_agentVars => HoldInv'
<1> SUFFICES ASSUME HoldInv, [HoldNext]_agentVars PROVE HoldInv'
    OBVIOUS
<1>1. CASE \E k \in Kinds : Handle(k)
      BY <1>1, HandleStep
<1>2. CASE OrderStep
      BY <1>2, TakingSteps, SupervisorCalls, InnerSteps DEF OrderStep
<1>3. CASE Unblock
      BY <1>3, InnerSteps
<1>4. CASE \E c \in Children : ChildStep(c)
      BY <1>4, ChildSteps
<1>5. CASE PollAsk \/ PollFetch \/ PollUpstream \/ PollStandby
      BY <1>5, PollSteps
<1>6. CASE UNCHANGED agentVars
      BY <1>6 DEF agentVars, supervisorVars, orderVars, holdVars, watchVars, HoldInv, HoldTypeOK, SupervisorTypeOK,
         Phase, Flags, DyingShows, GoneBeforeStandby, BlockedIsIdle, Told
<1>7. CASE Quiescent
      BY <1>6, <1>7 DEF Quiescent
<1> QED BY <1>1, <1>2, <1>3, <1>4, <1>5, <1>6, <1>7 DEF HoldNext

\* HoldInv holds in every state the agent reaches.
THEOREM HoldInvariance == HoldSpec => []HoldInv
<1>1. HoldInv /\ [HoldNext]_agentVars => HoldInv'
      BY HoldStepInv
<1> QED BY HoldInitInv, <1>1, PTL DEF HoldSpec

\* Every variable keeps its type.
THEOREM HoldTypeCorrect == HoldSpec => []HoldTypeOK
<1>1. HoldInv => HoldTypeOK
      BY DEF HoldInv
<1> QED BY HoldInvariance, <1>1, PTL

\* The supervisor never has leave to run the server and the standby together.
THEOREM NeverBothAllowed == HoldSpec => []OneMayRun
<1>1. HoldInv => OneMayRun
      BY DEF HoldInv, HoldTypeOK, Steps, Phase, Flags, OneMayRun
<1> QED BY HoldInvariance, <1>1, PTL

\* A killed server is gone before the standby may start.
THEOREM KilledIsGone == HoldSpec => []GoneBeforeStandby
<1>1. HoldInv => GoneBeforeStandby
      BY DEF HoldInv
<1> QED BY HoldInvariance, <1>1, PTL

\* Between orders all parties agree on who serves.
THEOREM PartiesAgree == HoldSpec => []WhoServes
<1>1. HoldInv => WhoServes
      BY DEF HoldInv, HoldTypeOK, Steps, Phase, Flags, WhoServes
<1> QED BY HoldInvariance, <1>1, PTL

\* A refused release leaves everything serving as it was.
THEOREM RefusalCostsNothing == HoldSpec => []BlockedKeepsServing
<1>1. HoldInv => BlockedKeepsServing
      BY DEF HoldInv, Phase, Flags, BlockedIsIdle, BlockedKeepsServing
<1> QED BY HoldInvariance, <1>1, PTL

\* The router is told "held" while the server is held or being stopped.
THEOREM ReportIsTrue == HoldSpec => []HeldIsTold
<1>1. HoldInv => HeldIsTold
      BY DEF HoldInv, Phase, Flags, Told, HeldIsTold
<1> QED BY HoldInvariance, <1>1, PTL

-----------------------------------------------------------------------------
\* The router's choice of a tier and a node (Placement), for any tiers, any nodes and any
\* models.  What a lemma needs of its arguments stands in its ASSUME; no assumption of
\* the module is cited.

LEMMA LeastOf ==
    ASSUME NEW S \in SUBSET Nat, S # {}
    PROVE  Least(S) \in S /\ \A k \in S : Least(S) <= k
<1> DEFINE R == OpToRel(<, Nat)
<1>1. IsWellFoundedOn(R, Nat)
  BY NatLessThanWellFounded
<1>2. \A x, y \in Nat : x < y => <<x, y>> \in R
  BY DEF OpToRel
<1> HIDE DEF R
<1>3. PICK i \in S : \A k \in S : <<k, i>> \notin R
  BY <1>1, WFMin
<1>4. \A k \in S : ~(k < i)
  BY <1>2, <1>3
<1>5. \A k \in S : i <= k
  BY <1>4
<1> QED
  BY <1>5 DEF Least

\* A pick of First is the best node of the first tier that has one.
Picked(p, tiers, i, nodes, why) ==
    p = [tier |-> i, node |-> Best(nodes[i], tiers[i].model).name, why |-> why]
LEMMA FirstPicks ==
    ASSUME NEW tiers, NEW among \in SUBSET Nat, NEW nodes, NEW why
    PROVE  /\ First(tiers, among, nodes, why) = {} <=> \A i \in among : nodes[i] = {}
           /\ \A p \in First(tiers, among, nodes, why) : \E i \in among :
                 /\ nodes[i] # {} /\ Picked(p, tiers, i, nodes, why)
                 /\ \A j \in among : j < i => nodes[j] = {}
<1> DEFINE open == {i \in among : nodes[i] # {}}
           i == Least(open)
<1>1. CASE open = {}
  BY <1>1 DEF First
<1>2. CASE open # {}
  <2>1. i \in open /\ \A k \in open : i <= k
    BY <1>2, LeastOf
  <2>2. First(tiers, among, nodes, why) =
            {[tier |-> i, node |-> Best(nodes[i], tiers[i].model).name, why |-> why]}
    BY <1>2 DEF First
  <2> HIDE DEF i
  <2>3. \A j \in among : j < i => nodes[j] = {}
    BY <2>1
  <2> QED
    BY <2>1, <2>2, <2>3 DEF Picked
<1> QED
  BY <1>1, <1>2

LEMMA FirstOfIs ==
    ASSUME NEW n \in Nat, NEW sets, DOMAIN sets = 1..n
    PROVE  /\ FirstOf(sets) = {} <=> \A i \in 1..n : sets[i] = {}
           /\ FirstOf(sets) # {} => \E i \in 1..n : /\ FirstOf(sets) = sets[i]
                                                    /\ \A j \in 1..n : j < i => sets[j] = {}
<1> DEFINE full == {i \in DOMAIN sets : sets[i] # {}}
<1>1. CASE full = {}
  BY <1>1 DEF FirstOf
<1>2. CASE full # {}
  <2>1. full \in SUBSET Nat
    OBVIOUS
  <2>2. FirstOf(sets) = sets[Least(full)]
    BY <1>2 DEF FirstOf
  <2>3. PICK i : i = Least(full)
    OBVIOUS
  <2> HIDE DEF full
  <2>4. i \in full /\ \A k \in full : i <= k
    BY <1>2, <2>1, <2>3, LeastOf
  <2>5. FirstOf(sets) = sets[i]
    BY <2>2, <2>3
  <2> QED
    BY <2>4, <2>5 DEF full
<1> QED
  BY <1>1, <1>2

LEMMA FirstApplies ==
    ASSUME NEW n \in Nat, NEW reasons, DOMAIN reasons = 1..n,
           NEW k \in 1..n, reasons[k][1], \A j \in 1..n : j < k => ~reasons[j][1]
    PROVE  FirstReason(reasons) = reasons[k][2]
<1> DEFINE S == {i \in DOMAIN reasons : reasons[i][1]}
<1>1. k \in S /\ S \in SUBSET Nat
  OBVIOUS
<1>2. FirstReason(reasons) = reasons[Least(S)][2]
  BY DEF FirstReason
<1>3. PICK i : i = Least(S)
  OBVIOUS
<1>4. \A j \in S : j \in Nat /\ ~(j < k)
  OBVIOUS
<1> HIDE DEF S
<1>5. i \in S /\ \A j \in S : i <= j
  BY <1>1, <1>3, LeastOf
<1>6. i = k
  BY <1>1, <1>4, <1>5
<1> QED
  BY <1>2, <1>3, <1>6

\* What another program serves is not among the models Ollama has loaded: neither a model
\* of the server, nor one of a standby that does not run.
Loaded(n, m, ctx) == WarmEnough(n, m, ctx) => ~ReleasesServerFor(n, m) /\ ~StandbySwitch(n, m)

\* What a node is refused for, by the checks of _node_block in their order.
LEMMA RefusalByCase ==
    ASSUME NEW n, NEW t, NEW ctx
    PROVE  LET m == t.model
               need == NeedGib(m, ctx, n)
               budget == IF StandbySwitch(n, m) THEN StandbyBudgetGib(n) ELSE BudgetGib(n)
               large == n.total # 0 /\ need > n.total - Reserve["free"]
               foreign == ForeignGib(n) > 0 /\ need <= budget + ForeignGib(n)
               against == \/ n.state = "offline" \/ n.draining
                          \/ (n.state = "busy" /\ ~t.busyOk) \/ ~WouldAllow(n)
               warm == WarmEnough(n, m, ctx)
               pressed == n.pressure \/ (ReleasesServerFor(n, m) /\ n.blocked)
               fits == ReleasesServerFor(n, m) \/ need <= budget
           IN  /\ Refusal(n, t, ctx) = "none" <=> ~against /\ (warm \/ (~pressed /\ fits))
               /\ Refusal(n, t, ctx) = "gpu_busy" =>
                      \/ n.state = "busy" /\ ~t.busyOk
                      \/ ~against /\ ~warm /\ ~pressed /\ ~fits /\ ~large /\ foreign
<1> DEFINE m == t.model
           need == NeedGib(m, ctx, n)
           budget == IF StandbySwitch(n, m) THEN StandbyBudgetGib(n) ELSE BudgetGib(n)
           large == n.total # 0 /\ need > n.total - Reserve["free"]
           foreign == ForeignGib(n) > 0 /\ need <= budget + ForeignGib(n)
           reasons == <<
              <<n.state = "offline",                                           "node_offline">>,
              <<n.draining,                                                    "node_draining">>,
              <<n.state = "busy" /\ ~t.busyOk,                                 "gpu_busy">>,
              <<~WouldAllow(n),                                                "node_failing">>,
              <<WarmEnough(n, m, ctx),                                         "none">>,
              <<n.pressure \/ (ReleasesServerFor(n, m) /\ n.blocked),          "memory_pressure">>,
              <<ReleasesServerFor(n, m) \/ need <= budget,                     "none">>,
              <<large,                                                         "model_too_large">>,
              <<foreign,                                                       "gpu_busy">>,
              <<TRUE,                                                          "vram_full">> >>
<1>1. Refusal(n, t, ctx) = FirstReason(reasons)
  BY DEF Refusal
<1> DEFINE against == \/ n.state = "offline" \/ n.draining
                      \/ (n.state = "busy" /\ ~t.busyOk) \/ ~WouldAllow(n)
           warm == WarmEnough(n, m, ctx)
           pressed == n.pressure \/ (ReleasesServerFor(n, m) /\ n.blocked)
           fits == ReleasesServerFor(n, m) \/ need <= budget
<1>2. DOMAIN reasons = 1..10
  OBVIOUS
<1>4. /\ reasons[1][1] <=> n.state = "offline"
      /\ reasons[2][1] <=> n.draining
      /\ reasons[3][1] <=> n.state = "busy" /\ ~t.busyOk
      /\ reasons[4][1] <=> ~WouldAllow(n)
      /\ reasons[5][1] <=> warm
      /\ reasons[6][1] <=> pressed
      /\ reasons[7][1] <=> fits
      /\ reasons[8][1] <=> large
      /\ reasons[9][1] <=> foreign
      /\ reasons[10][1]
  OBVIOUS
<1>5. /\ reasons[1][2] # "none" /\ reasons[2][2] # "none" /\ reasons[3][2] # "none"
      /\ reasons[4][2] # "none" /\ reasons[5][2] = "none" /\ reasons[6][2] # "none"
      /\ reasons[7][2] = "none" /\ reasons[8][2] # "none" /\ reasons[9][2] # "none"
      /\ reasons[10][2] # "none"
      /\ \A i \in 1..10 : reasons[i][2] = "gpu_busy" => i \in {3, 9}
  OBVIOUS
<1> HIDE DEF reasons, warm, pressed, fits, large, foreign
<1>6. PICK k \in 1..10 : reasons[k][1] /\ \A j \in 1..10 : j < k => ~reasons[j][1]
  <2> DEFINE S == {k \in 1..10 : reasons[k][1]}
  <2>1. S \in SUBSET Nat /\ 10 \in S
    BY <1>4
  <2>2. PICK k : k = Least(S)
    OBVIOUS
  <2>3. \A j \in 1..10 : reasons[j][1] => j \in S
    OBVIOUS
  <2>4. \A j \in S : j \in 1..10 /\ reasons[j][1]
    OBVIOUS
  <2> HIDE DEF S
  <2>5. k \in S /\ \A j \in S : k <= j
    BY <2>1, <2>2, LeastOf
  <2> QED
    BY <2>3, <2>4, <2>5
<1>7. FirstReason(reasons) = reasons[k][2]
  BY <1>2, <1>6, FirstApplies
<1>8. k \in {1, 2, 3, 4, 6, 8, 9, 10} =>
          reasons[k][2] # "none" /\ ~(~against /\ (warm \/ (~pressed /\ fits)))
  BY <1>4, <1>5, <1>6
<1>9. k \in {5, 7} => reasons[k][2] = "none" /\ ~against /\ (warm \/ (~pressed /\ fits))
  BY <1>4, <1>5, <1>6
<1>10. reasons[k][2] = "gpu_busy" =>
           \/ n.state = "busy" /\ ~t.busyOk
           \/ ~against /\ ~warm /\ ~pressed /\ ~fits /\ ~large /\ foreign
  BY <1>4, <1>5, <1>6
<1>11. k \in {1, 2, 3, 4, 6, 8, 9, 10} \cup {5, 7}
  OBVIOUS
<1>12. /\ Refusal(n, t, ctx) = "none" <=> ~against /\ (warm \/ (~pressed /\ fits))
       /\ Refusal(n, t, ctx) = "gpu_busy" =>
              \/ n.state = "busy" /\ ~t.busyOk
              \/ ~against /\ ~warm /\ ~pressed /\ ~fits /\ ~large /\ foreign
  BY <1>1, <1>7, <1>8, <1>9, <1>10, <1>11
<1> QED
  BY <1>12 DEF warm, pressed, fits, large, foreign

\* A client that gets no node is told why: for any node, tier and context, the node is refused a
\* reason exactly when the selection, which asks in another order, would not choose it
\* (_node_block, candidates_for).
THEOREM RefusalIsTrue ==
    ASSUME NEW n, NEW t, NEW ctx, Offers(n, t.model), Loaded(n, t.model, ctx)
    PROVE  Refusal(n, t, ctx) = "none" <=> Serves(n, t, ctx)
<1>1. Serves(n, t, ctx) <=>
          /\ ~(n.state = "offline" \/ n.draining \/ (n.state = "busy" /\ ~t.busyOk) \/ ~WouldAllow(n))
          /\ \/ WarmEnough(n, t.model, ctx)
             \/ /\ ~(n.pressure \/ (ReleasesServerFor(n, t.model) /\ n.blocked))
                /\ \/ ReleasesServerFor(n, t.model)
                   \/ NeedGib(t.model, ctx, n) <=
                        IF StandbySwitch(n, t.model) THEN StandbyBudgetGib(n) ELSE BudgetGib(n)
  BY DEF Serves, Fits, Loaded
<1> QED
  BY <1>1, RefusalByCase

\* "GPU busy" on a free node is the fault of foreign memory: once it is given back the tier fits,
\* whatever the tier, the other memory, the baseline and a standby are. No load is under
\* way, for which foreign memory is frozen (_node_block, foreign_gib).
THEOREM GivenBackItFits ==
    ASSUME NEW n, NEW t, NEW ctx,
           {"used", "loaded", "state", "draining", "breaker", "inflight", "pressure", "blocked", "openai",
            "switchable", "standbyServes", "standby", "servers", "models", "total", "claim", "frozen",
            "children", "policy", "spec", "learned"} \subseteq DOMAIN n,
           n.state = "free", n.claim = 0, n.used \in Int, n.total \in Int, n.children \in Nat,
           Occupied(n.loaded) \in Nat, Baseline(n) \in Nat, NeedGib(t.model, ctx, n) \in Int,
           Reserve["free"] \in Int, Refusal(n, t, ctx) = "gpu_busy"
    PROVE  Refusal([n EXCEPT !.used = @ - ForeignGib(n)], t, ctx) = "none"
<1> DEFINE f == ForeignGib(n)
           o == [n EXCEPT !.used = @ - f]
           m == t.model
           mine == Occupied(n.loaded)
           need == NeedGib(m, ctx, n)
           Budget(x) == IF StandbySwitch(x, m) THEN StandbyBudgetGib(x) ELSE BudgetGib(x)
<1>1. /\ o.loaded = n.loaded /\ o.state = n.state /\ o.draining = n.draining /\ o.breaker = n.breaker
      /\ o.inflight = n.inflight /\ o.pressure = n.pressure /\ o.blocked = n.blocked
      /\ o.openai = n.openai /\ o.switchable = n.switchable /\ o.standbyServes = n.standbyServes
      /\ o.standby = n.standby /\ o.servers = n.servers /\ o.models = n.models /\ o.total = n.total
      /\ o.claim = n.claim /\ o.frozen = n.frozen /\ o.children = n.children /\ o.policy = n.policy
      /\ o.spec = n.spec /\ o.learned = n.learned /\ o.used = n.used - f
  OBVIOUS
<1> HIDE DEF o
<1>2. /\ WouldAllow(o) <=> WouldAllow(n)
      /\ ReleasesServerFor(o, m) <=> ReleasesServerFor(n, m)
      /\ StandbySwitch(o, m) <=> StandbySwitch(n, m)
      /\ WarmEnough(o, m, ctx) <=> WarmEnough(n, m, ctx)
  BY <1>1 DEF WouldAllow, ReleasesServerFor, ServesOpenAI, StandbySwitch, WarmEnough, IsLoaded, LoadedAs
<1>3. NeedGib(m, ctx, o) = need /\ OllamaGib(o) = mine /\ OllamaGib(n) = mine /\ Baseline(o) = Baseline(n)
  BY <1>1 DEF NeedGib, IsLoaded, LoadedAs, OllamaGib, Baseline
<1>4. /\ ~(n.state = "offline" \/ n.draining \/ (n.state = "busy" /\ ~t.busyOk) \/ ~WouldAllow(n))
      /\ ~(n.pressure \/ (ReleasesServerFor(n, m) /\ n.blocked))
      /\ f > 0 /\ need <= Budget(n) + f
  BY RefusalByCase
<1> DEFINE raw == Largest(0, n.used - Largest(mine, 0) - n.children - Baseline(n))
<1>5. f = IF n.used = Unknown THEN 0 ELSE raw
  BY <1>3 DEF ForeignGib
<1>6. n.used # Unknown /\ f = n.used - mine - n.children - Baseline(n) /\ f \in Int
  BY <1>4, <1>5 DEF Largest
<1>7. o.used # Unknown /\ ForeignGib(o) = 0
  <2>1. o.used = mine + n.children + Baseline(n)
    BY <1>1, <1>6
  <2>2. o.used # Unknown
    BY <2>1 DEF Unknown
  <2> QED
    BY <1>1, <1>3, <2>1, <2>2 DEF ForeignGib, Largest
<1>8. Budget(o) = Budget(n) + f
  <2>1. BudgetGib(o) = BudgetGib(n) + f
    BY <1>1, <1>3, <1>6, <1>7 DEF BudgetGib
  <2>2. StandbyBudgetGib(o) = StandbyBudgetGib(n) + f
    BY <1>1, <1>3, <1>6, <1>7 DEF StandbyBudgetGib
  <2> QED
    BY <1>2, <2>1, <2>2
<1>9. need <= Budget(o)
  BY <1>4, <1>8
<1>10. /\ ~(o.state = "offline" \/ o.draining \/ (o.state = "busy" /\ ~t.busyOk) \/ ~WouldAllow(o))
       /\ ~(o.pressure \/ (ReleasesServerFor(o, m) /\ o.blocked))
       /\ NeedGib(m, ctx, o) <= IF StandbySwitch(o, m) THEN StandbyBudgetGib(o) ELSE BudgetGib(o)
  BY <1>1, <1>2, <1>3, <1>4, <1>9
<1>11. Refusal(o, t, ctx) = "none"
  BY <1>10, RefusalByCase
<1> QED
  BY <1>11 DEF o

Weights == {"warm", "inflight", "saturated", "guard", "vram_free", "weight", "speed", "errors",
            "half_open", "switch"}
Weighed == \A k \in Weights : Weight[k] \in Int
Numbered(n) == /\ n.name \in Int /\ n.inflight \in Nat /\ n.total \in Nat /\ n.used \in Int
               /\ n.weight \in Int /\ n.speed \in Int /\ n.recent \in Seq(STRING)

LEMMA ScoreIsNumber ==
    ASSUME Weighed, NEW n, Numbered(n), NEW m
    PROVE  Score(n, m) \in Int
<1>1. ErrorPercent(n.recent) \in Int
  <2> DEFINE bad == {i \in DOMAIN n.recent : n.recent[i] # "ok"}
  <2>1. DOMAIN n.recent = 1..Len(n.recent) /\ Len(n.recent) \in Nat
    BY DEF Numbered
  <2>2. IsFiniteSet(bad)
    <3>1. IsFiniteSet(1..Len(n.recent)) /\ bad \in SUBSET (1..Len(n.recent))
      BY <2>1, FS_Interval
    <3> QED
      BY <3>1, FS_Subset
  <2>3. Cardinality(bad) \in Nat
    BY <2>2, FS_CardinalityType
  <2> HIDE DEF bad
  <2>4. CASE n.recent = << >>
    BY <2>4 DEF ErrorPercent
  <2>5. CASE n.recent # << >>
    <3>1. Len(n.recent) # 0
      BY <2>5 DEF Numbered
    <3>2. ErrorPercent(n.recent) = (100 * Cardinality(bad)) \div Len(n.recent)
      BY <2>5 DEF ErrorPercent, bad
    <3> QED
      BY <2>1, <2>3, <3>1, <3>2
  <2> QED
    BY <2>4, <2>5
<1>2. \A c, w : w \in Int => When(c, w) \in Int
  BY DEF When
<1>3. /\ Weight.warm \in Int /\ Weight.inflight \in Int /\ Weight.saturated \in Int
      /\ Weight.guard \in Int /\ Weight.vram_free \in Int /\ Weight.weight \in Int
      /\ Weight.speed \in Int /\ Weight.errors \in Int /\ Weight.half_open \in Int
      /\ Weight.switch \in Int
  BY DEF Weighed, Weights
<1> DEFINE share == IF n.total = 0 THEN 0 ELSE (Weight.vram_free * (n.total - n.used)) \div n.total
           a == When(IsLoaded(n, m), Weight.warm)
           b == Weight.inflight * n.inflight
           c == When(Full(n, m), Weight.saturated)
           d == When(n.guarded /\ n.guard \in {"high_load", "throttled"}, Weight.guard)
           e == When(n.total # 0 /\ n.used # Unknown, share)
           f == Weight.weight * n.weight
           g == (Weight.speed * n.speed) \div 100
           h == (Weight.errors * ErrorPercent(n.recent)) \div 100
           i == When(n.breaker = "half_open", Weight.half_open)
           j == When(StandbySwitch(n, m), Weight.switch)
<1>4. /\ \A x, y \in Int : x * y \in Int /\ x - y \in Int
      /\ \A x \in Int : x \div 100 \in Int
      /\ \A x \in Int, y \in Nat : y # 0 => x \div y \in Int
  OBVIOUS
<1>5. /\ n.inflight \in Int /\ n.total \in Int /\ n.total \in Nat /\ n.used \in Int
      /\ n.weight \in Int /\ n.speed \in Int
  BY DEF Numbered
<1>6. share \in Int
  <2>1. Weight.vram_free * (n.total - n.used) \in Int
    BY <1>3, <1>4, <1>5
  <2> QED
    BY <1>4, <1>5, <2>1
<1>7. b \in Int /\ f \in Int /\ g \in Int /\ h \in Int
  <2>1. /\ b \in Int /\ f \in Int /\ Weight.speed * n.speed \in Int
        /\ Weight.errors * ErrorPercent(n.recent) \in Int
    BY <1>1, <1>3, <1>4, <1>5
  <2> QED
    BY <1>4, <2>1
<1>8. a \in Int /\ c \in Int /\ d \in Int /\ i \in Int /\ j \in Int
  BY <1>2, <1>3
<1>9. e \in Int
  BY <1>2, <1>6
<1>10. Score(n, m) = a - b - c - d + e + f + g - h - i - j
  BY DEF Score
<1> HIDE DEF a, b, c, d, e, f, g, h, i, j
<1> QED
  BY <1>7, <1>8, <1>9, <1>10

\* Of nodes with names of their own there is one that is better than all others.
Named(nodes) == \A a, b \in nodes : a.name = b.name => a = b
LEMMA BestIsOne ==
    ASSUME Weighed, NEW nodes, IsFiniteSet(nodes), nodes # {}, Named(nodes),
           \A n \in nodes : Numbered(n), NEW m
    PROVE  Best(nodes, m) \in nodes
<1> DEFINE Beats(o, n) == Score(o, m) > Score(n, m) \/ (Score(o, m) = Score(n, m) /\ o.name < n.name)
           Better(n) == {o \in nodes : Beats(o, n)}
           Places == {Cardinality(Better(n)) : n \in nodes}
<1>1. \A n \in nodes : Score(n, m) \in Int /\ n.name \in Int
  BY ScoreIsNumber DEF Numbered
<1>2. \A n \in nodes : IsFiniteSet(Better(n)) /\ Cardinality(Better(n)) \in Nat
  BY FS_Subset, FS_CardinalityType
<1>3. Places \in SUBSET Nat /\ Places # {}
  BY <1>2
<1>4. PICK k : k = Least(Places)
  OBVIOUS
<1>5. k \in Places /\ \A j \in Places : k <= j
  BY <1>3, <1>4, LeastOf
<1>6. PICK n \in nodes : k = Cardinality(Better(n))
  BY <1>5
<1>7. ASSUME NEW o \in nodes \ {n}, ~Beats(n, o)
      PROVE  FALSE
  <2>1. n.name # o.name
    BY <1>7 DEF Named
  <2>2. Beats(o, n)
    BY <1>1, <1>7, <2>1
  <2>3. Better(o) \subseteq Better(n)
    BY <1>1, <2>2
  <2>4. o \in Better(n) /\ o \notin Better(o)
    BY <1>1, <2>2
  <2>5. IsFiniteSet(Better(n)) /\ IsFiniteSet(Better(o))
    BY <1>2
  <2> HIDE DEF Better
  <2>6. /\ Cardinality(Better(o)) <= Cardinality(Better(n))
        /\ Cardinality(Better(o)) # Cardinality(Better(n))
    BY <2>3, <2>4, <2>5, FS_Subset
  <2>7. Cardinality(Better(o)) \in Places /\ k <= Cardinality(Better(o))
    BY <1>5
  <2>8. Cardinality(Better(o)) \in Nat /\ Cardinality(Better(n)) \in Nat
    BY <1>2
  <2> QED
    BY <1>6, <2>6, <2>7, <2>8
<1>8. \E x \in nodes : \A o \in nodes \ {x} :
          Score(x, m) > Score(o, m) \/ (Score(x, m) = Score(o, m) /\ x.name < o.name)
  BY <1>7
<1> QED
  BY <1>8 DEF Best

PickOf(p, tiers, i, S, why) ==
    p = [tier |-> i, node |-> Best(S, tiers[i].model).name, why |-> why]

\* An interactive pick is free. There is none if nothing runs on a warm node, or if nothing is free.
LEMMA InteractivePicks ==
    ASSUME NEW tiers, NEW local \in SUBSET Nat, NEW cands
    PROVE  LET picks == InteractivePick(tiers, local, cands)
           IN  /\ \A p \in picks : \E i \in local : \E S \in SUBSET cands[i] :
                      S # {} /\ (\A n \in S : ~Full(n, tiers[i].model)) /\ PickOf(p, tiers, i, S, "fallback")
               /\ picks = {} => \/ \A i \in local : \A n \in cands[i] :
                                       IsLoaded(n, tiers[i].model) => ~Full(n, tiers[i].model)
                                \/ \A i \in local : \A n \in cands[i] : Full(n, tiers[i].model)
<1> DEFINE warm == [i \in local |-> {n \in cands[i] : IsLoaded(n, tiers[i].model)}]
           free == [i \in local |-> {n \in cands[i] : ~Full(n, tiers[i].model)}]
           busy == UNION {{n.name : n \in warm[i] \ free[i]} : i \in local}
           away == [i \in local |-> {n \in free[i] : n.name \notin busy}]
           first == [i \in local |-> away[i] \cap warm[i]]
           third == [i \in local |-> free[i] \cap warm[i]]
           ways == <<First(tiers, local, first, "fallback"), First(tiers, local, away, "fallback"),
                     First(tiers, local, third, "fallback"), First(tiers, local, free, "fallback")>>
           picks == InteractivePick(tiers, local, cands)
<1>1. picks = IF busy = {} THEN {} ELSE FirstOf(ways)
  BY DEF InteractivePick
<1>2. \A i \in local : /\ first[i] \subseteq free[i] /\ away[i] \subseteq free[i] /\ third[i] \subseteq free[i]
                       /\ free[i] \subseteq cands[i] /\ \A n \in free[i] : ~Full(n, tiers[i].model)
  OBVIOUS
<1>3. busy = {} => \A i \in local : \A n \in cands[i] : IsLoaded(n, tiers[i].model) => ~Full(n, tiers[i].model)
  <2>1. SUFFICES ASSUME busy = {}, NEW i \in local, NEW n \in cands[i],
                        IsLoaded(n, tiers[i].model), Full(n, tiers[i].model)
                 PROVE  FALSE
    OBVIOUS
  <2>2. n \in warm[i] \ free[i]
    BY <2>1
  <2> HIDE DEF warm, free
  <2>3. n.name \in busy
    <3>1. n.name \in {x.name : x \in warm[i] \ free[i]}
      BY <2>2
    <3>2. {x.name : x \in warm[i] \ free[i]} \in {{x.name : x \in warm[k] \ free[k]} : k \in local}
      OBVIOUS
    <3> QED
      BY <3>1, <3>2
  <2> QED
    BY <2>1, <2>3
<1>4. (\A i \in local : free[i] = {}) => \A i \in local : \A n \in cands[i] : Full(n, tiers[i].model)
  OBVIOUS
<1> HIDE DEF warm, free, busy, away, first, third
<1>5. ASSUME NEW nodes, \A i \in local : nodes[i] \subseteq free[i],
             NEW p \in First(tiers, local, nodes, "fallback")
      PROVE  \E i \in local : \E S \in SUBSET cands[i] :
                 S # {} /\ (\A n \in S : ~Full(n, tiers[i].model)) /\ PickOf(p, tiers, i, S, "fallback")
  <2>1. PICK i \in local : nodes[i] # {} /\ Picked(p, tiers, i, nodes, "fallback")
    BY <1>5, FirstPicks
  <2>2. PickOf(p, tiers, i, nodes[i], "fallback")
    BY <2>1 DEF Picked, PickOf
  <2>3. nodes[i] \in SUBSET cands[i] /\ \A n \in nodes[i] : ~Full(n, tiers[i].model)
    BY <1>2, <1>5
  <2> QED
    BY <2>1, <2>2, <2>3
<1>6. /\ DOMAIN ways = 1..4 /\ 4 \in Nat
      /\ ways[1] = First(tiers, local, first, "fallback") /\ ways[2] = First(tiers, local, away, "fallback")
      /\ ways[3] = First(tiers, local, third, "fallback") /\ ways[4] = First(tiers, local, free, "fallback")
  OBVIOUS
<1> HIDE DEF ways
<1>7. /\ FirstOf(ways) = {} <=> \A i \in 1..4 : ways[i] = {}
      /\ FirstOf(ways) # {} => \E i \in 1..4 : FirstOf(ways) = ways[i]
  BY <1>6, FirstOfIs
<1>8. FirstOf(ways) = {} => \A i \in local : free[i] = {}
  <2>1. SUFFICES ASSUME FirstOf(ways) = {}
                 PROVE  \A i \in local : free[i] = {}
    OBVIOUS
  <2>2. ways[4] = {}
    BY <1>7, <2>1
  <2> QED
    BY <1>6, <2>2, FirstPicks
<1>9. ASSUME NEW k \in 1..4, NEW p \in ways[k]
      PROVE  \E i \in local : \E S \in SUBSET cands[i] :
                 S # {} /\ (\A n \in S : ~Full(n, tiers[i].model)) /\ PickOf(p, tiers, i, S, "fallback")
  <2>1. CASE k = 1
    BY <1>2, <1>5, <1>6, <1>9, <2>1
  <2>2. CASE k = 2
    BY <1>2, <1>5, <1>6, <1>9, <2>2
  <2>3. CASE k = 3
    BY <1>2, <1>5, <1>6, <1>9, <2>3
  <2>4. CASE k = 4
    BY <1>2, <1>5, <1>6, <1>9, <2>4
  <2> QED
    BY <2>1, <2>2, <2>3, <2>4
<1>10. ASSUME NEW p \in picks
       PROVE  \E k \in 1..4 : p \in ways[k]
  BY <1>1, <1>7, <1>10
<1>11. picks = {} => busy = {} \/ \A i \in local : free[i] = {}
  BY <1>1, <1>8
<1> QED
  BY <1>3, <1>4, <1>9, <1>10, <1>11

\* The tiers a request may use, their candidates, and the tiers that lack nothing it prefers.
Open(tiers, req) == {i \in DOMAIN tiers : ~TierBlocked(tiers[i], req)}
Cands(world, tiers, req, exclude) ==
    [i \in Open(tiers, req) |-> CandidatesFor(world, tiers[i], req.ctx, exclude)]
Wanted(tiers, req) == {i \in Open(tiers, req) : Lacking[tiers[i].model] \cap req.prefer = {}}
Per(world, tiers, req, exclude) ==
    IF \E i \in Wanted(tiers, req) : Cands(world, tiers, req, exclude)[i] # {}
    THEN Wanted(tiers, req) ELSE Open(tiers, req)

\* Which way a request got its node, and what is known of the other nodes then.
LEMMA WaysToChoose ==
    ASSUME NEW world, NEW role, NEW tiers, NEW req, NEW exclude, DOMAIN tiers \in SUBSET Nat
    PROVE  LET p == Choose(world, role, tiers, req, exclude)
               open == Open(tiers, req)
               cands == Cands(world, tiers, req, exclude)
               per == Per(world, tiers, req, exclude)
               local == {i \in per : ~tiers[i].cloud}
               quiet == role.latencyFirst /\ req.interactive =>
                          \/ \A i \in local : \A n \in cands[i] :
                                IsLoaded(n, tiers[i].model) => ~Full(n, tiers[i].model)
                          \/ \A i \in local : \A n \in cands[i] : Full(n, tiers[i].model)
           IN  \/ p = NoPick /\ \A i \in open : cands[i] = {}
               \/ \E i \in open : cands[i] # {} /\ tiers[i].canary /\ PickOf(p, tiers, i, cands[i], "canary")
               \/ \E i \in per : \E S \in SUBSET cands[i] :
                      /\ S # {} /\ PickOf(p, tiers, i, S, "affinity")
                      /\ \A n \in S : IsLoaded(n, tiers[i].model)
               \/ \E i \in local : \E S \in SUBSET cands[i] :
                      /\ S # {} /\ PickOf(p, tiers, i, S, "fallback")
                      /\ \A n \in S : ~Full(n, tiers[i].model)
               \/ /\ quiet
                  /\ \E i \in per : \E S \in SUBSET cands[i] :
                        /\ S # {} /\ PickOf(p, tiers, i, S, "warm-first")
                        /\ tiers[i].cloud => \A j \in local : j < i => cands[j] = {}
               \/ /\ quiet
                  /\ \E i \in per : /\ cands[i] # {} /\ PickOf(p, tiers, i, cands[i], "rank")
                                    /\ \A j \in per : j < i => cands[j] = {}
<1> DEFINE open == Open(tiers, req)
           cands == Cands(world, tiers, req, exclude)
           wanted == Wanted(tiers, req)
           per == Per(world, tiers, req, exclude)
           local == {i \in per : ~tiers[i].cloud}
           warm == [i \in per |-> {n \in cands[i] : IsLoaded(n, tiers[i].model)}]
           sticky == [i \in per |-> {n \in warm[i] : tiers[i].model = req.affinity.model /\ n.name = req.affinity.node}]
           latency == [i \in per |->
               IF ~tiers[i].cloud THEN warm[i]
               ELSE IF \E j \in local : j < i /\ cands[j] # {} THEN {} ELSE cands[i]]
           canaries == {i \in open : tiers[i].canary}
           w1 == IF req.canary THEN First(tiers, canaries, cands, "canary") ELSE {}
           w2 == First(tiers, per, sticky, "affinity")
           w3 == IF role.latencyFirst /\ req.interactive THEN InteractivePick(tiers, local, cands) ELSE {}
           w4 == IF role.latencyFirst THEN First(tiers, per, latency, "warm-first") ELSE {}
           w5 == First(tiers, per, cands, "rank")
           ways == <<w1, w2, w3, w4, w5>>
           pick == FirstOf(ways)
           p == Choose(world, role, tiers, req, exclude)
           quiet == role.latencyFirst /\ req.interactive =>
                      \/ \A i \in local : \A n \in cands[i] :
                            IsLoaded(n, tiers[i].model) => ~Full(n, tiers[i].model)
                      \/ \A i \in local : \A n \in cands[i] : Full(n, tiers[i].model)
           none == p = NoPick /\ \A i \in open : cands[i] = {}
           canary == \E i \in open : cands[i] # {} /\ tiers[i].canary /\ PickOf(p, tiers, i, cands[i], "canary")
           affinity == \E i \in per : \E S \in SUBSET cands[i] :
                          /\ S # {} /\ PickOf(p, tiers, i, S, "affinity")
                          /\ \A n \in S : IsLoaded(n, tiers[i].model)
           fallback == \E i \in local : \E S \in SUBSET cands[i] :
                          /\ S # {} /\ PickOf(p, tiers, i, S, "fallback")
                          /\ \A n \in S : ~Full(n, tiers[i].model)
           warmth == \E i \in per : \E S \in SUBSET cands[i] :
                          /\ S # {} /\ PickOf(p, tiers, i, S, "warm-first")
                          /\ tiers[i].cloud => \A j \in local : j < i => cands[j] = {}
           rank == \E i \in per : /\ cands[i] # {} /\ PickOf(p, tiers, i, cands[i], "rank")
                                  /\ \A j \in per : j < i => cands[j] = {}
<1>1. p = IF pick = {} THEN NoPick ELSE CHOOSE x \in pick : TRUE
  BY DEF Choose, Open, Cands, Wanted, Per
<1>2. /\ open \in SUBSET Nat /\ per \subseteq open /\ per \in SUBSET Nat
      /\ local \in SUBSET Nat /\ canaries \in SUBSET Nat
  BY DEF Open, Per, Wanted
<1>3. \A i \in open : cands[i] # {} => \E j \in per : cands[j] # {}
  BY DEF Per
<1>4. \A i \in per : /\ sticky[i] \subseteq cands[i] /\ latency[i] \subseteq cands[i]
                     /\ \A n \in sticky[i] : IsLoaded(n, tiers[i].model)
                     /\ latency[i] # {} /\ tiers[i].cloud => \A j \in local : j < i => cands[j] = {}
  OBVIOUS
<1> HIDE DEF open, cands, per, local, sticky, latency, canaries, quiet,
             none, canary, affinity, fallback, warmth, rank
<1>5. /\ DOMAIN ways = 1..5 /\ 5 \in Nat
      /\ ways[1] = w1 /\ ways[2] = w2 /\ ways[3] = w3 /\ ways[4] = w4 /\ ways[5] = w5
  OBVIOUS
<1> HIDE DEF ways, w1, w2, w3, w4, w5
<1>6. /\ pick = {} <=> \A i \in 1..5 : ways[i] = {}
      /\ pick # {} => \E i \in 1..5 : pick = ways[i] /\ \A j \in 1..5 : j < i => ways[j] = {}
  BY <1>5, FirstOfIs
<1>7. ASSUME pick = {}
      PROVE  none
  <2>1. w5 = {}
    BY <1>5, <1>6, <1>7
  <2>2. \A i \in per : cands[i] = {}
    BY <1>2, <2>1, FirstPicks DEF w5
  <2>3. p = NoPick
    BY <1>1, <1>7
  <2> QED
    BY <1>3, <2>2, <2>3 DEF none
<1>8. ASSUME pick # {}
      PROVE  canary \/ affinity \/ fallback \/ (quiet /\ warmth) \/ (quiet /\ rank)
  <2>1. PICK k \in 1..5 : pick = ways[k] /\ \A j \in 1..5 : j < k => ways[j] = {}
    BY <1>6, <1>8
  <2>2. p \in pick
    BY <1>1, <1>8
  <2>3. k \in {4, 5} => quiet
    <3>1. k \in {4, 5} => w3 = {}
      BY <1>5, <2>1
    <3>2. role.latencyFirst /\ req.interactive /\ w3 = {} => InteractivePick(tiers, local, cands) = {}
      BY DEF w3
    <3> QED
      BY <1>2, <3>1, <3>2, InteractivePicks DEF quiet
  <2>4. CASE k = 1
    <3>1. p \in First(tiers, canaries, cands, "canary")
      BY <1>5, <2>1, <2>2, <2>4 DEF w1
    <3>2. PICK i \in canaries : cands[i] # {} /\ Picked(p, tiers, i, cands, "canary")
      BY <1>2, <3>1, FirstPicks
    <3>3. i \in open /\ tiers[i].canary /\ PickOf(p, tiers, i, cands[i], "canary")
      BY <3>2 DEF Picked, PickOf, canaries
    <3> QED
      BY <3>2, <3>3 DEF canary
  <2>5. CASE k = 2
    <3>1. p \in First(tiers, per, sticky, "affinity")
      BY <1>5, <2>1, <2>2, <2>5 DEF w2
    <3>2. PICK i \in per : sticky[i] # {} /\ Picked(p, tiers, i, sticky, "affinity")
      BY <1>2, <3>1, FirstPicks
    <3>3. PickOf(p, tiers, i, sticky[i], "affinity")
      BY <3>2 DEF Picked, PickOf
    <3> QED
      BY <1>4, <3>2, <3>3 DEF affinity
  <2>6. CASE k = 3
    <3>1. p \in InteractivePick(tiers, local, cands)
      BY <1>5, <2>1, <2>2, <2>6 DEF w3
    <3> QED
      BY <1>2, <3>1, InteractivePicks DEF fallback
  <2>7. CASE k = 4
    <3>1. p \in First(tiers, per, latency, "warm-first")
      BY <1>5, <2>1, <2>2, <2>7 DEF w4
    <3>2. PICK i \in per : latency[i] # {} /\ Picked(p, tiers, i, latency, "warm-first")
      BY <1>2, <3>1, FirstPicks
    <3>3. PickOf(p, tiers, i, latency[i], "warm-first")
      BY <3>2 DEF Picked, PickOf
    <3>4. /\ latency[i] \in SUBSET cands[i]
          /\ tiers[i].cloud => \A j \in local : j < i => cands[j] = {}
      BY <1>4, <3>2
    <3> QED
      BY <2>3, <2>7, <3>2, <3>3, <3>4 DEF warmth
  <2>8. CASE k = 5
    <3>1. p \in First(tiers, per, cands, "rank")
      BY <1>5, <2>1, <2>2, <2>8 DEF w5
    <3>2. PICK i \in per : /\ cands[i] # {} /\ Picked(p, tiers, i, cands, "rank")
                           /\ \A j \in per : j < i => cands[j] = {}
      BY <1>2, <3>1, FirstPicks
    <3>3. PickOf(p, tiers, i, cands[i], "rank")
      BY <3>2 DEF Picked, PickOf
    <3> QED
      BY <2>3, <2>8, <3>2, <3>3 DEF rank
  <2> QED
    BY <2>4, <2>5, <2>6, <2>7, <2>8
<1>9. none \/ canary \/ affinity \/ fallback \/ (quiet /\ warmth) \/ (quiet /\ rank)
  BY <1>7, <1>8
<1> QED
  BY <1>9 DEF none, canary, affinity, fallback, warmth, rank, quiet, open, cands, per, local

WorldOK(world) ==
    /\ IsFiniteSet(world.nodes) /\ IsFiniteSet(world.targets)
    /\ Named(world.nodes) /\ Named(world.targets)
    /\ \A n \in world.nodes \cup world.targets : Numbered(n)
    /\ \A c \in world.targets : DOMAIN c.loaded = {}

LEMMA CandidatesOfATier ==
    ASSUME Weighed, NEW world, WorldOK(world), NEW t, NEW ctx, NEW exclude
    PROVE  LET at == CandidatesFor(world, t, ctx, exclude)
           IN  /\ Named(at)
               /\ t.cloud => \A n \in at : \A m : ~IsLoaded(n, m)
               /\ \A S \in SUBSET at : S # {} => \A m : Best(S, m) \in S
<1> DEFINE at == CandidatesFor(world, t, ctx, exclude)
<1>1. t.cloud => at \subseteq world.targets
  BY DEF CandidatesFor
<1>2. ~t.cloud => at \subseteq world.nodes
  BY DEF CandidatesFor
<1> HIDE DEF at
<1>3. IsFiniteSet(at) /\ Named(at) /\ \A n \in at : Numbered(n)
  BY <1>1, <1>2, FS_Subset DEF WorldOK, Named
<1>4. t.cloud => \A n \in at : \A m : ~IsLoaded(n, m)
  BY <1>1 DEF WorldOK, IsLoaded
<1>5. ASSUME NEW S \in SUBSET at, S # {}, NEW m
      PROVE  Best(S, m) \in S
  <2>1. IsFiniteSet(S) /\ Named(S) /\ \A n \in S : Numbered(n)
    BY <1>3, FS_Subset DEF Named
  <2> QED
    BY <1>5, <2>1, BestIsOne
<1> QED
  BY <1>3, <1>4, <1>5 DEF at

\* A request gets a node whenever a tier it may use has one, and then one that serves its tier. A
\* cloud tier is chosen only where no tier before it has a local node, unless the client prefers
\* what that tier lacks or the tier is the canary's: for any nodes, tiers and requests (choose).
THEOREM ChosenIsServed ==
    ASSUME Weighed, NEW world, WorldOK(world), NEW role, NEW tiers,
           DOMAIN tiers \in SUBSET (Nat \ {0}), NEW req, NEW exclude
    PROVE  LET pick == Choose(world, role, tiers, req, exclude)
               open == Open(tiers, req)
               at(i) == CandidatesFor(world, tiers[i], req.ctx, exclude)
           IN  /\ pick = NoPick <=> \A i \in open : at(i) = {}
               /\ pick # NoPick => /\ pick.tier \in open
                                   /\ \E n \in at(pick.tier) : n.name = pick.node
               /\ pick # NoPick /\ tiers[pick.tier].cloud /\ pick.why # "canary" =>
                      \A i \in open : ~tiers[i].cloud /\ i < pick.tier /\ at(i) # {} =>
                          Lacking[tiers[i].model] \cap req.prefer # {}
<1> DEFINE pick == Choose(world, role, tiers, req, exclude)
           open == Open(tiers, req)
           cands == Cands(world, tiers, req, exclude)
           per == Per(world, tiers, req, exclude)
           local == {i \in per : ~tiers[i].cloud}
           at(i) == CandidatesFor(world, tiers[i], req.ctx, exclude)
           Prefers(i) == Lacking[tiers[i].model] \cap req.prefer # {}
           Fair(k) == tiers[k].cloud => \A i \in local : i < k => cands[i] = {}
           Got(i, S) == i \in open /\ S \in SUBSET cands[i] /\ S # {}
<1>1. \A i \in open : cands[i] = at(i) /\ i \in Nat /\ i # 0
  BY DEF Open, Cands
<1>2. per \subseteq open /\ \A i \in open \ per : Prefers(i)
  BY DEF Per, Wanted
<1>3. \A i \in open : tiers[i].cloud => \A n \in cands[i] : \A m : ~IsLoaded(n, m)
  BY <1>1, CandidatesOfATier
<1>4. \A i \in open : \A S \in SUBSET cands[i] : S # {} => \A m : Best(S, m) \in S
  BY <1>1, CandidatesOfATier
<1>5. DOMAIN tiers \in SUBSET Nat
  OBVIOUS
<1> HIDE DEF pick, open, cands, per, at, Prefers
<1>6. \/ pick = NoPick /\ \A i \in open : cands[i] = {}
      \/ \E i, S, why : Got(i, S) /\ PickOf(pick, tiers, i, S, why) /\ (why = "canary" \/ Fair(i))
  <2>1. CASE pick = NoPick /\ \A i \in open : cands[i] = {}
    BY <2>1
  <2>2. CASE \E i \in open : cands[i] # {} /\ tiers[i].canary /\ PickOf(pick, tiers, i, cands[i], "canary")
    BY <2>2
  <2>3. CASE \E i \in per : \E S \in SUBSET cands[i] :
               /\ S # {} /\ PickOf(pick, tiers, i, S, "affinity")
               /\ \A n \in S : IsLoaded(n, tiers[i].model)
    <3>1. PICK i \in per : \E S \in SUBSET cands[i] :
               /\ S # {} /\ PickOf(pick, tiers, i, S, "affinity")
               /\ \A n \in S : IsLoaded(n, tiers[i].model)
      BY <2>3
    <3>2. ~tiers[i].cloud
      BY <1>2, <1>3, <3>1
    <3>3. PICK S \in SUBSET cands[i] : S # {} /\ PickOf(pick, tiers, i, S, "affinity")
      BY <3>1
    <3> QED
      BY <1>2, <3>2, <3>3
  <2>4. CASE \E i \in local : \E S \in SUBSET cands[i] : S # {} /\ PickOf(pick, tiers, i, S, "fallback")
    BY <1>2, <2>4
  <2>5. CASE \E i \in per : \E S \in SUBSET cands[i] :
               /\ S # {} /\ PickOf(pick, tiers, i, S, "warm-first")
               /\ tiers[i].cloud => \A j \in local : j < i => cands[j] = {}
    BY <1>2, <2>5
  <2>6. CASE \E i \in per : /\ cands[i] # {} /\ PickOf(pick, tiers, i, cands[i], "rank")
                            /\ \A j \in per : j < i => cands[j] = {}
    BY <1>2, <2>6
  <2>7. \/ pick = NoPick /\ \A i \in open : cands[i] = {}
        \/ \E i \in open : cands[i] # {} /\ tiers[i].canary /\ PickOf(pick, tiers, i, cands[i], "canary")
        \/ \E i \in per : \E S \in SUBSET cands[i] :
              /\ S # {} /\ PickOf(pick, tiers, i, S, "affinity")
              /\ \A n \in S : IsLoaded(n, tiers[i].model)
        \/ \E i \in local : \E S \in SUBSET cands[i] : S # {} /\ PickOf(pick, tiers, i, S, "fallback")
        \/ \E i \in per : \E S \in SUBSET cands[i] :
              /\ S # {} /\ PickOf(pick, tiers, i, S, "warm-first")
              /\ tiers[i].cloud => \A j \in local : j < i => cands[j] = {}
        \/ \E i \in per : /\ cands[i] # {} /\ PickOf(pick, tiers, i, cands[i], "rank")
                          /\ \A j \in per : j < i => cands[j] = {}
    BY <1>5, WaysToChoose DEF pick, open, cands, per
  <2> QED
    BY <2>1, <2>2, <2>3, <2>4, <2>5, <2>6, <2>7
<1>7. CASE pick = NoPick /\ \A i \in open : cands[i] = {}
  BY <1>1, <1>7 DEF pick, open, at
<1>8. ASSUME NEW i, NEW S, NEW why, Got(i, S), PickOf(pick, tiers, i, S, why), why = "canary" \/ Fair(i)
      PROVE  /\ pick # NoPick /\ ~(\A k \in open : at(k) = {})
             /\ pick.tier \in open /\ \E n \in at(pick.tier) : n.name = pick.node
             /\ tiers[pick.tier].cloud /\ pick.why # "canary" =>
                    \A k \in open : ~tiers[k].cloud /\ k < pick.tier /\ at(k) # {} => Prefers(k)
  <2>1. pick.tier = i /\ pick.node = Best(S, tiers[i].model).name /\ pick.why = why
    BY <1>8 DEF PickOf
  <2>2. pick # NoPick
    BY <1>1, <1>8, <2>1 DEF NoPick
  <2>3. Best(S, tiers[i].model) \in at(i)
    BY <1>1, <1>4, <1>8
  <2>4. ASSUME tiers[i].cloud, why # "canary", NEW k \in open, ~tiers[k].cloud, k < i, at(k) # {}
        PROVE  Prefers(k)
    BY <1>1, <1>2, <1>8, <2>4
  <2> QED
    BY <1>8, <2>1, <2>2, <2>3, <2>4
<1> QED
  BY <1>6, <1>7, <1>8 DEF pick, open, at, Prefers

\* An interactive request that prefers nothing never waits behind a running one on a warm node
\* while a local tier could serve it at once, unless its session is at home there or it goes to
\* the canary: for any nodes, tiers and requests (_interactive_pick).
THEOREM InteractiveGoesOn ==
    ASSUME Weighed, NEW world, WorldOK(world), NEW role, role.latencyFirst, NEW tiers,
           DOMAIN tiers \in SUBSET (Nat \ {0}), NEW req, req.interactive, req.prefer = {}, NEW exclude
    PROVE  LET pick == Choose(world, role, tiers, req, exclude)
               at(i) == CandidatesFor(world, tiers[i], req.ctx, exclude)
               waits == \E n \in at(pick.tier) : /\ n.name = pick.node /\ IsLoaded(n, tiers[pick.tier].model)
                                                 /\ Full(n, tiers[pick.tier].model)
           IN  pick.why \notin {"none", "canary", "affinity"} /\ waits =>
                   \A i \in Open(tiers, req) : ~tiers[i].cloud => \A n \in at(i) : Full(n, tiers[i].model)
<1> DEFINE pick == Choose(world, role, tiers, req, exclude)
           open == Open(tiers, req)
           cands == Cands(world, tiers, req, exclude)
           per == Per(world, tiers, req, exclude)
           local == {i \in per : ~tiers[i].cloud}
           at(i) == CandidatesFor(world, tiers[i], req.ctx, exclude)
           Waits(i) == \E n \in cands[i] : n.name = pick.node /\ IsLoaded(n, tiers[i].model) /\ Full(n, tiers[i].model)
           calm == \A i \in local : \A n \in cands[i] : IsLoaded(n, tiers[i].model) => ~Full(n, tiers[i].model)
           full == \A i \in local : \A n \in cands[i] : Full(n, tiers[i].model)
<1>1. \A i \in open : cands[i] = at(i)
  BY DEF Open, Cands
<1>2. per = open
  BY DEF Per, Wanted
<1>3. \A i \in open : /\ Named(cands[i])
                      /\ tiers[i].cloud => \A n \in cands[i] : \A m : ~IsLoaded(n, m)
                      /\ \A S \in SUBSET cands[i] : S # {} => \A m : Best(S, m) \in S
  BY <1>1, CandidatesOfATier
<1>4. DOMAIN tiers \in SUBSET Nat
  OBVIOUS
<1> HIDE DEF pick, open, cands, per, at
<1>5. SUFFICES ASSUME pick.why \notin {"none", "canary", "affinity"},
                      \E n \in at(pick.tier) : /\ n.name = pick.node /\ IsLoaded(n, tiers[pick.tier].model)
                                               /\ Full(n, tiers[pick.tier].model)
               PROVE  full
  BY <1>1, <1>2 DEF pick, at, open
<1>6. \/ \E i \in local : \E S \in SUBSET cands[i] :
            /\ S # {} /\ PickOf(pick, tiers, i, S, "fallback")
            /\ \A n \in S : ~Full(n, tiers[i].model)
      \/ /\ calm \/ full
         /\ \E i \in per : pick.tier = i
  <2>1. \A i, S : PickOf(pick, tiers, i, S, "canary") \/ PickOf(pick, tiers, i, S, "affinity") \/ pick = NoPick => FALSE
    BY <1>5 DEF PickOf, NoPick
  <2>2. \A i, S, why : PickOf(pick, tiers, i, S, why) => pick.tier = i
    BY DEF PickOf
  <2> QED
    BY <1>4, <2>1, <2>2, WaysToChoose, SMTT(60) DEF pick, open, cands, per
<1>7. CASE \E i \in local : \E S \in SUBSET cands[i] :
             /\ S # {} /\ PickOf(pick, tiers, i, S, "fallback")
             /\ \A n \in S : ~Full(n, tiers[i].model)
  <2>1. PICK i \in local : \E S \in SUBSET cands[i] :
             /\ S # {} /\ PickOf(pick, tiers, i, S, "fallback")
             /\ \A n \in S : ~Full(n, tiers[i].model)
    BY <1>7
  <2>2. PICK S \in SUBSET cands[i] :
             /\ S # {} /\ PickOf(pick, tiers, i, S, "fallback")
             /\ \A n \in S : ~Full(n, tiers[i].model)
    BY <2>1
  <2>3. pick.tier = i /\ pick.node = Best(S, tiers[i].model).name
    BY <2>2 DEF PickOf
  <2>4. Best(S, tiers[i].model) \in S /\ Best(S, tiers[i].model) \in cands[i] /\ i \in open
    BY <1>2, <1>3, <2>1, <2>2
  <2>5. PICK n \in cands[i] : n.name = pick.node /\ Full(n, tiers[i].model)
    BY <1>1, <1>5, <2>3, <2>4
  <2>6. n = Best(S, tiers[i].model)
    BY <1>3, <2>3, <2>4, <2>5 DEF Named
  <2> QED
    BY <2>2, <2>4, <2>5, <2>6
<1>8. CASE calm /\ \E i \in per : pick.tier = i
  <2>1. PICK i \in per : pick.tier = i
    BY <1>8
  <2>2. PICK n \in cands[i] : IsLoaded(n, tiers[i].model) /\ Full(n, tiers[i].model)
    BY <1>1, <1>2, <1>5, <2>1
  <2>3. i \in local
    BY <1>2, <1>3, <2>1, <2>2
  <2> QED
    BY <1>8, <2>2, <2>3
<1> QED
  BY <1>6, <1>7, <1>8
=============================================================================
